--------------------------- MODULE MCToolRequests ---------------------------
EXTENDS ToolRequests

MCTools == Names(Handlers)
=============================================================================
