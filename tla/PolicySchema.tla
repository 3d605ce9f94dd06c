------------------------------ MODULE PolicySchema ------------------------------
(***************************************************************************)
(* The policy of the SpiceDB catalog: which accounts have which permission *)
(* on a resource, given the relationships that are stored                  *)
(* (config/spicedb/catalog, rendered to config/spicedb/schema.generated.   *)
(* zed).  An object is <<type, id>> and a relationship <<resource,         *)
(* relation, subject>>; a permission is the set of accounts that have it,  *)
(* so that + is union and & intersection.                                  *)
(*                                                                         *)
(* SpiceDB is outside the repository.  r->p gives the accounts with p on   *)
(* some object of relation r, r.all(p) those with p on every one of them   *)
(* and on one at least, and a chain of parents is followed to its end,     *)
(* also when it comes back to where it started.                            *)
(***************************************************************************)
CONSTANTS Accounts, \* ids of account identities
          Ids       \* ids of the resources of each type

VARIABLE rels       \* the relationships that are stored

\* The types with a policy; the other definitions of the schema have no relations and no permissions.
PolicyTypes ==
    {"post", "artist", "label", "series", "page", "work", "release", "track", "program_event",
     "program_event_series", "file", "campaign", "map_place", "site_setting", "menu", "category", "tag",
     "genre", "style", "format", "client", "member", "member_criteria", "form", "email_template",
     "email_layout", "terms_history", "privacy_history", "map_theme"}
ASSUME IdsAssumption == DOMAIN Ids \subseteq PolicyTypes

ResourceTypes == DOMAIN Ids
Objects(type) == IF type \in ResourceTypes THEN {<<type, id>> : id \in Ids[type]} ELSE {}
Resources == UNION {Objects(type) : type \in ResourceTypes}

-------------------------------------------------------------------------------
\* The core: roles, and the roles each includes the members of.

Roles == {"admin", "author", "user"}
RoleInheritance == {<<"author", "admin">>, <<"user", "author">>}

Platform   == <<"platform", "global">>
Role(name) == <<"role", name>>
Account(a) == <<"account_identity", a>>

\* The roles whose members are members of a role.
Included(role) ==
    {r \in Roles : \A closed \in SUBSET Roles :
        (/\ role \in closed
         /\ \A p \in closed, q \in Roles : <<Role(p), "member", Role(q)>> \in rels => q \in closed)
        => r \in closed}
Members(role) == {a \in Accounts : \E r \in Included(role) : <<Role(r), "member", Account(a)>> \in rels}

RoleSet(name) == IF <<Platform, name, Role(name)>> \in rels THEN Members(name) ELSE {}
is_admin  == RoleSet("admin")
is_author == RoleSet("author") \cup RoleSet("admin")
is_user   == RoleSet("user") \cup RoleSet("author") \cup RoleSet("admin")

-------------------------------------------------------------------------------
\* What expressions of resources are built from.

HasPolicy(x) == <<x, "policy", Platform>> \in rels
PlatformAdmin(x)  == IF HasPolicy(x) THEN is_admin ELSE {}
PlatformAuthor(x) == IF HasPolicy(x) THEN is_author ELSE {}

Participants(x, relation) == {a \in Accounts : <<x, relation, Account(a)>> \in rels}

\* The objects of x's type that parent leads to from x, with x itself.
Lineage(x) ==
    {y \in Objects(x[1]) : \A closed \in SUBSET Objects(x[1]) :
        (/\ x \in closed
         /\ \A p \in closed, q \in Objects(x[1]) : <<p, "parent", q>> \in rels => q \in closed)
        => y \in closed}

-------------------------------------------------------------------------------
\* Permissions of each type of resource.

Post(x) ==
    LET author_manage == PlatformAdmin(x) \cup (Participants(x, "author") \cap PlatformAuthor(x))
        edit == author_manage \cup Participants(x, "collaborator")
    IN [platform_admin |-> PlatformAdmin(x), edit |-> edit, view |-> edit,
        view_archived |-> PlatformAuthor(x), edit_archived |-> PlatformAdmin(x),
        delete |-> author_manage, publish |-> author_manage, manage |-> author_manage,
        manage_participants |-> author_manage, manage_share_links |-> author_manage]

Owners(x) == PlatformAdmin(x) \cup Participants(x, "owner")

\* Mutant: parent.all(manage), of the parents alone.
LabelManagersEveryParent(x) ==
    LET parents == {y \in Objects("label") : <<x, "parent", y>> \in rels}
    IN Owners(x) \cup Participants(x, "manager") \cup
         {a \in Accounts : parents # {} /\ \A y \in parents : a \in Owners(y) \cup Participants(y, "manager")}
LabelManagers(x) == UNION {Owners(y) \cup Participants(y, "manager") : y \in Lineage(x)}
Label(x) ==
    LET owners == Owners(x)
        managers == LabelManagers(x)
    IN [platform_admin |-> PlatformAdmin(x), edit |-> managers, view |-> managers, delete |-> owners,
        publish |-> owners, manage |-> managers, manage_participants |-> owners, manage_share_links |-> owners]

LabelsOf(x) == {l \in Objects("label") : <<x, "label", l>> \in rels}
\* label.all(permission)
AllLabels(x, permission(_)) ==
    {a \in Accounts : LabelsOf(x) # {} /\ \A l \in LabelsOf(x) : a \in permission(l)}

\* Mutants: labels are left out; the people of any label are taken.
ArtistManagersWithoutLabels(x) == UNION {Owners(y) \cup Participants(y, "manager") : y \in Lineage(x)}
ArtistPublishersAnyLabel(x) == Owners(x) \cup UNION {Owners(l) : l \in LabelsOf(x)}

ArtistManagers(x) ==
    UNION {Owners(y) \cup Participants(y, "manager") \cup AllLabels(y, LabelManagers) : y \in Lineage(x)}
ArtistPublishers(x) == Owners(x) \cup AllLabels(x, Owners)
Artist(x) ==
    LET owners == Owners(x)
        managers == ArtistManagers(x)
    IN [platform_admin |-> PlatformAdmin(x), edit |-> managers, view |-> managers, delete |-> owners,
        publish |-> ArtistPublishers(x), manage |-> managers,
        manage_participants |-> owners, manage_share_links |-> owners]

Series(x) ==
    LET managers == PlatformAdmin(x) \cup Participants(x, "manager")
    IN [platform_admin |-> PlatformAdmin(x), edit |-> managers, view |-> managers, delete |-> PlatformAdmin(x),
        publish |-> managers, manage |-> managers, manage_participants |-> PlatformAdmin(x)]

MapPlace(x) ==
    LET authors == PlatformAdmin(x) \cup PlatformAuthor(x)
    IN [platform_admin |-> PlatformAdmin(x), view |-> authors, edit |-> authors,
        delete |-> PlatformAdmin(x), manage |-> authors]

\* The other types that have a permission to publish, and to share by links.
PublishedTypes == {"work", "program_event", "program_event_series", "release", "page", "form",
                   "terms_history", "privacy_history"}
SharedTypes == PublishedTypes \ {"program_event", "program_event_series"}
AdminRights(type) ==
    {"platform_admin", "view", "edit", "delete", "manage"}
        \cup (IF type \in PublishedTypes THEN {"publish"} ELSE {})
        \cup (IF type \in SharedTypes THEN {"manage_share_links"} ELSE {})

\* Every other resource is the administrators'; of works, events and the
\* histories of legal texts authors see what is archived.
AdminOnly(x) == [name \in AdminRights(x[1]) |-> PlatformAdmin(x)]
Archived(x) ==
    [name \in AdminRights(x[1]) \cup {"view_archived", "edit_archived"} |->
        IF name = "view_archived" THEN PlatformAuthor(x) ELSE PlatformAdmin(x)]

Permissions(x) ==
    CASE x[1] = "post" -> Post(x)
      [] x[1] = "artist" -> Artist(x)
      [] x[1] = "label" -> Label(x)
      [] x[1] = "series" -> Series(x)
      [] x[1] = "map_place" -> MapPlace(x)
      [] x[1] \in {"work", "program_event", "terms_history", "privacy_history"} -> Archived(x)
      [] OTHER -> AdminOnly(x)
================================================================================
