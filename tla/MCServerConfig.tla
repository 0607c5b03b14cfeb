--------------------------- MODULE MCServerConfig ---------------------------
(* Environments for model checking ServerConfig. *)
EXTENDS ServerConfig

MCEnvironment(url, insecure, timeout, transport, authMode, public, clientID,
              key, addr, secret, user, value, oidc) ==
    [url : url, insecure : insecure, timeout : timeout, transport : transport,
     mode : authMode, public : public, clientID : clientID, key : key,
     addr : addr, secret : secret, user : user, value : value, oidc : oidc]

(* Every setting that can be wrong, at the first start *)
MCEvery == MCEnvironment({"", "http", "https", "other"}, BOOLEAN, {"", "malformed"},
    {"", "stdio", "http", "other"},
    {"", "oauth", "OAuth", "app-token", "oidc", "other"},
    {"", "malformed", "P1"}, BOOLEAN, {"", "malformed", "K1"},
    {"", "loopback", "any"}, BOOLEAN, BOOLEAN, BOOLEAN, BOOLEAN)

(* What an operator changes between two starts *)
MCLater == MCEnvironment({"https"}, {FALSE}, {""}, {"http"},
    {"oauth", "", "oidc"}, {"P1", "P2"}, {TRUE}, {"K1", "K2"},
    {"any"}, BOOLEAN, {TRUE}, {TRUE}, {FALSE})
=============================================================================
