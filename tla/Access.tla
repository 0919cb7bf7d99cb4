------------------------------- MODULE Access -------------------------------
(***************************************************************************)
(* The walls between departments (apps/accounts/permissions.py) and the    *)
(* two tables kept beside them: the pages the browser offers a role        *)
(* (lib/nav.ts) and the documents the copilot may search for it            *)
(* (apps/copilot/services.py).                                             *)
(***************************************************************************)

Roles == {"MASTER_ADMIN", "SUPER_ADMIN", "COMPANY_ADMIN",
          "HR_ADMIN", "PROCUREMENT_ADMIN", "FINANCE_ADMIN"}

Departments == {"hr", "procurement", "finance", "reports"}

(* IsHR, IsProcurement, IsFinance and IsExport: the allowed_roles of each. *)
AllowedRoles(department) ==
  {"COMPANY_ADMIN"} \cup
    CASE department = "hr"          -> {"HR_ADMIN"}
      [] department = "procurement" -> {"PROCUREMENT_ADMIN"}
      [] department = "finance"     -> {"FINANCE_ADMIN"}
      [] department = "reports"     -> {}

HasRole(role, department) == role \in AllowedRoles(department) \cup {"SUPER_ADMIN"}

(* navForRole; the overview and the copilot are offered to everyone.       *)
NavForRole(role) ==
  {"overview", "copilot"} \cup
    CASE role \in {"SUPER_ADMIN", "COMPANY_ADMIN"} -> Departments
      [] role = "HR_ADMIN"          -> {"hr"}
      [] role = "PROCUREMENT_ADMIN" -> {"procurement"}
      [] role = "FINANCE_ADMIN"     -> {"finance"}
      [] OTHER                      -> {}

Rulebooks == {"LCGPA", "ZATCA"}

Categories == Rulebooks \cup {"HR", "FINANCE", "PROCUREMENT"}

(* The department a document's category is of.                             *)
DepartmentOf == [HR |-> "hr", FINANCE |-> "finance", PROCUREMENT |-> "procurement"]

(* allowed_categories                                                      *)
AllowedCategories(role) ==
  CASE role = "HR_ADMIN"          -> Rulebooks \cup {"HR"}
    [] role = "PROCUREMENT_ADMIN" -> Rulebooks \cup {"PROCUREMENT"}
    [] role = "FINANCE_ADMIN"     -> Rulebooks \cup {"FINANCE"}
    [] OTHER                      -> Categories
==============================================================================
