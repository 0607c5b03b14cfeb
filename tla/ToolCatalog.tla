---------------------------- MODULE ToolCatalog ----------------------------
(***************************************************************************)
(* Two tables that have to be kept in step by hand: the tools registered   *)
(* in internal/tools (RegisterAll) and what each of them needs from a      *)
(* grant (ToolNeed in internal/grant/catalog.go, "Keep this in sync when   *)
(* new tools are registered").                                             *)
(*                                                                         *)
(* A registration is a name, the field of its input that names a space     *)
(* ("space_id", "drive_id", "optional" for a space_id that may be left     *)
(* out, or "none"), and the hint its annotations give.  Names are written  *)
(* without their prefix ocis_.                                             *)
(***************************************************************************)
EXTENDS Naturals

Levels == 0..3    \* LevelNone, LevelRead, LevelWrite, LevelAdmin
LevelRead == 1
LevelWrite == 2
LevelAdmin == 3

Add(names, field, hint) ==
  {[name |-> n, field |-> field, hint |-> hint] : n \in names}

Users ==
  Add({"list_users", "get_user", "get_me"}, "none", "read")
  \cup Add({"create_user"}, "none", "mutate")
  \cup Add({"update_user"}, "none", "idempotent")
  \cup Add({"delete_user"}, "none", "destroy")

Groups ==
  Add({"list_groups", "get_group"}, "none", "read")
  \cup Add({"create_group", "add_group_member"}, "none", "mutate")
  \cup Add({"update_group"}, "none", "idempotent")
  \cup Add({"delete_group", "remove_group_member"}, "none", "destroy")

Spaces ==
  Add({"list_spaces", "list_my_spaces"}, "none", "read")
  \cup Add({"get_space", "list_space_permissions"}, "space_id", "read")
  \cup Add({"create_space"}, "none", "mutate")
  \cup Add({"invite_to_space", "create_space_link"}, "space_id", "mutate")
  \cup Add({"update_space", "restore_space", "set_space_image",
            "set_space_readme"}, "space_id", "idempotent")
  \cup Add({"disable_space", "delete_space", "empty_trashbin"}, "space_id",
           "destroy")

Files ==
  Add({"list_files", "get_file_info", "download_file", "get_file_versions",
       "get_resource_by_id"}, "space_id", "read")
  \cup Add({"get_resource_metadata"}, "drive_id", "read")
  \cup Add({"upload_file", "move_file", "copy_file", "restore_file_version"},
           "space_id", "mutate")
  \cup Add({"create_folder", "tag_resource", "untag_resource"}, "space_id",
           "idempotent")
  \cup Add({"delete_file"}, "space_id", "destroy")

Shares ==
  Add({"list_shares"}, "space_id", "read")
  \cup Add({"list_shared_by_me", "list_received_shares", "get_sharing_roles"},
           "none", "read")
  \cup Add({"create_share", "create_link"}, "space_id", "mutate")
  \cup Add({"update_share", "update_share_expiration", "accept_share"},
           "space_id", "idempotent")
  \cup Add({"delete_share", "reject_share"}, "space_id", "destroy")

Search == Add({"search", "search_by_tag"}, "optional", "read")

ReadNotifications ==      \* mutation: the annotation copied with the tool
  Add({"list_notifications", "delete_notification"}, "none", "read")
Notifications == Add({"list_notifications"}, "none", "read")
                   \cup Add({"delete_notification"}, "none", "destroy")

Settings == Add({"list_roles", "list_assignments"}, "none", "read")
              \cup Add({"assign_role"}, "none", "mutate")

AppTokens == Add({"list_app_tokens"}, "none", "read")
               \cup Add({"create_app_token"}, "none", "mutate")
               \cup Add({"delete_app_token"}, "none", "destroy")

Admin == Add({"health_check", "get_version", "get_capabilities",
              "get_config"}, "none", "read")

OCM ==
  Add({"ocm_list_providers", "ocm_list_shares", "ocm_list_received"}, "none",
      "read")
  \cup Add({"ocm_create_share"}, "none", "mutate")

Workflows ==
  Add({"upload_and_share", "share_with_link"}, "space_id", "mutate")
  \cup Add({"create_project_space"}, "none", "mutate")
  \cup Add({"find_and_download"}, "optional", "read")
  \cup Add({"get_space_overview"}, "space_id", "read")

Education ==
  Add({"list_education_schools", "get_education_school",
       "list_education_users", "get_education_user"}, "none", "read")
  \cup Add({"create_education_user"}, "none", "mutate")

Core == UNION {Users, Groups, Spaces, Files, Shares, Search, Notifications,
               Settings, AppTokens, Admin, OCM, Workflows}

\* RegisterAll; the education tools only with their own access token
Registered(educationEnabled) ==
  Core \cup (IF educationEnabled THEN Education ELSE {})

Names(tools) == {t.name : t \in tools}

-----------------------------------------------------------------------------
AlwaysTools == {"get_me", "health_check", "get_version", "get_capabilities",
                "get_config", "get_sharing_roles"}

SpaceReadTools ==
  {"list_files", "get_file_info", "download_file", "get_file_versions",
   "get_resource_by_id", "get_resource_metadata", "get_space",
   "list_space_permissions", "get_space_overview", "list_shares",
   "list_shared_by_me", "list_received_shares"}

SpaceWriteTools ==
  {"create_folder", "upload_file", "move_file", "copy_file", "delete_file",
   "restore_file_version", "tag_resource", "untag_resource", "create_share",
   "create_link", "delete_share", "update_share", "update_share_expiration",
   "create_space_link", "set_space_readme", "upload_and_share",
   "share_with_link"}

SpaceAdminTools ==
  {"update_space", "disable_space", "delete_space", "restore_space",
   "invite_to_space", "empty_trashbin", "set_space_image"}

AnyReadTools ==
  {"list_my_spaces", "search", "search_by_tag", "find_and_download",
   "ocm_list_providers", "ocm_list_shares", "ocm_list_received"}

AnyWriteTools ==
  {"list_notifications", "delete_notification", "list_app_tokens",
   "create_app_token", "delete_app_token", "ocm_create_share",
   "accept_share", "reject_share"}

NoNeed == [always |-> FALSE, instance |-> FALSE, space |-> 0, any |-> 0]

\* Instance administration is both the class of the tools that are listed
\* there and the default for a name nobody classified.
ToolNeed(name) ==
  CASE name \in AlwaysTools -> [NoNeed EXCEPT !.always = TRUE]
    [] name \in SpaceReadTools -> [NoNeed EXCEPT !.space = LevelRead]
    [] name \in SpaceWriteTools -> [NoNeed EXCEPT !.space = LevelWrite]
    [] name \in SpaceAdminTools -> [NoNeed EXCEPT !.space = LevelAdmin]
    [] name \in AnyReadTools -> [NoNeed EXCEPT !.any = LevelRead]
    [] name \in AnyWriteTools -> [NoNeed EXCEPT !.any = LevelWrite]
    [] OTHER -> [NoNeed EXCEPT !.instance = TRUE]
=============================================================================
