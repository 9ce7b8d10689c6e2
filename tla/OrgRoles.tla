------------------------------ MODULE OrgRoles ------------------------------
(***************************************************************************)
(* The role levels of an organization's members                            *)
(* (src/apps/api/src/core/constant/account.constant.ts).                   *)
(***************************************************************************)
MEMBER == 10
ADMIN == 70
OWNER == 100
RoleLevel == {MEMBER, ADMIN, OWNER}
=============================================================================
