--------------------------- MODULE PolicyRelationships ---------------------------
(***************************************************************************)
(* The relationships of the policy and the mutations the generated         *)
(* bindings can make of them: each type of resource has a Touch and a      *)
(* Delete method per relation and type of subject, and no other mutation   *)
(* can be built.  What calls them, and SpiceDB, which stores a touched     *)
(* relationship and removes a deleted one whether it was there or not, are *)
(* outside the repository.                                                 *)
(***************************************************************************)
EXTENDS PolicySchema, Naturals, FiniteSets

CONSTANT MaxChanges  \* bound on the relationships by which the store differs from Core

vars == <<rels>>

\* Mutant: every parent is taken for an artist.
RelationsParentArtist(type) ==
    CASE type = "post"   -> [policy |-> "platform", author |-> "account_identity", collaborator |-> "account_identity"]
      [] type \in {"artist", "label"} ->
            [policy |-> "platform", owner |-> "account_identity", manager |-> "account_identity",
             parent |-> "artist", label |-> "label"]
      [] type = "series" -> [policy |-> "platform", manager |-> "account_identity"]
      [] OTHER           -> [policy |-> "platform"]

\* The type of subject of each relation of a type of resource.
Relations(type) ==
    CASE type = "post"   -> [policy |-> "platform", author |-> "account_identity", collaborator |-> "account_identity"]
      [] type = "artist" -> [policy |-> "platform", owner |-> "account_identity", manager |-> "account_identity",
                             parent |-> "artist", label |-> "label"]
      [] type = "label"  -> [policy |-> "platform", owner |-> "account_identity", manager |-> "account_identity",
                             parent |-> "label"]
      [] type = "series" -> [policy |-> "platform", manager |-> "account_identity"]
      [] OTHER           -> [policy |-> "platform"]

Subjects(type) ==
    CASE type = "platform"         -> {Platform}
      [] type = "account_identity" -> {Account(a) : a \in Accounts}
      [] OTHER                     -> Objects(type)

\* What the methods of a resource's own type can name.
relationshipMethods(x) ==
    UNION {{<<x, relation, s>> : s \in Subjects(Relations(x[1])[relation])} : relation \in DOMAIN Relations(x[1])}

\* Mutant: the parents of artists alone are looked for.
incomingParentOfArtists(type) == type = "artist"

\* Whether resources of a type have parents of their own type.
incomingParent(type) == "parent" \in DOMAIN Relations(type) /\ Relations(type).parent = type

\* What a plan reads of a resource: its own relationships and the parent edges that come in.
Snapshot(x) ==
    {t \in rels : t[1] = x \/ (incomingParent(x[1]) /\ t[2] = "parent" /\ t[3] = x)}

\* The methods of the core: members of roles, the declared inheritance, the platform's role sets.
directRoleMethods    == {<<Role(r), "member", Account(a)>> : r \in Roles, a \in Accounts}
inheritedRoleMethods == {<<Role(e[1]), "member", Role(e[2])>> : e \in RoleInheritance}
platformRoleMethods  == {<<Platform, r, Role(r)>> : r \in Roles}

Relationships ==
    directRoleMethods \cup inheritedRoleMethods \cup platformRoleMethods
        \cup UNION {relationshipMethods(x) : x \in Resources}

Mutations == [relationship : Relationships, operation : {"touch", "delete"}]

\* A deployment starts with the inheritance of roles and the role sets of the platform.
Core == inheritedRoleMethods \cup platformRoleMethods
Init == rels = Core

Differing(stored) == (stored \ Core) \cup (Core \ stored)

\* A mutation that finds what it is to leave changes nothing: a stutter.
Write(m) ==
    /\ m.operation = "touch" <=> m.relationship \notin rels
    /\ rels' = IF m.operation = "touch" THEN rels \cup {m.relationship} ELSE rels \ {m.relationship}
    /\ Cardinality(Differing(rels')) <= MaxChanges

Next == \E m \in Mutations : Write(m)

Spec == Init /\ [][Next]_vars
-------------------------------------------------------------------------------
(***************************************************************************)
(* Whoever builds mutations with the bindings stores no relationship whose *)
(* subject is of a type the schema does not allow for it.                  *)
(***************************************************************************)
Typed(t) ==
    \/ /\ t[1] \in Resources
       /\ CASE t[2] = "policy" -> t[3] = Platform
            [] t[2] = "parent" -> t[1][1] \in {"artist", "label"} /\ t[3] \in Objects(t[1][1])
            [] t[2] = "label"  -> t[1][1] = "artist" /\ t[3] \in Objects("label")
            [] OTHER -> \E a \in Accounts : t[3] = Account(a)
    \/ t \in directRoleMethods \cup inheritedRoleMethods \cup platformRoleMethods
TypeOK == \A t \in rels : Typed(t)

(***************************************************************************)
(* A resource that is deleted with the snapshot that was read of it leaves *)
(* no relationship that names it, to be found by another of the same id,   *)
(* but an artist's label: the label's plan does not look for artists.      *)
(***************************************************************************)
SnapshotsComplete ==
    \A x \in Resources : \A t \in rels \ Snapshot(x) :
        t[1] # x /\ (t[3] = x => t[1][1] = "artist" /\ t[2] = "label")

(***************************************************************************)
(* Permissions are nested, whatever relationships are stored, the core's   *)
(* own among them: an administrator may do all, who deletes may manage,    *)
(* who manages may edit, who edits may view, who publishes may edit, who   *)
(* hands out links or names participants may manage, and authors are       *)
(* users.  A client that asks for one permission and relies on a weaker    *)
(* one is right.                                                           *)
(***************************************************************************)
Nested(p) ==
    /\ p.platform_admin \subseteq p.delete
    /\ p.delete \subseteq p.manage
    /\ p.manage \subseteq p.edit
    /\ p.edit \subseteq p.view
    /\ "publish" \in DOMAIN p => p.publish \subseteq p.edit
    /\ "manage_participants" \in DOMAIN p =>
          p.platform_admin \subseteq p.manage_participants /\ p.manage_participants \subseteq p.manage
    /\ "manage_share_links" \in DOMAIN p =>
          p.platform_admin \subseteq p.manage_share_links /\ p.manage_share_links \subseteq p.manage
    /\ "view_archived" \in DOMAIN p => p.edit_archived \subseteq p.view_archived
PermissionsNested ==
    /\ is_admin \subseteq is_author /\ is_author \subseteq is_user
    /\ \A x \in Resources : Nested(Permissions(x))

(***************************************************************************)
(* A relationship that is added takes no permission from anyone, and one   *)
(* that is removed gives nobody any, unless it puts an artist under a      *)
(* label: of everything in the schema only label.all is not monotone.      *)
(***************************************************************************)
Policy == [x \in Resources |-> Permissions(x)]
Within(p, q) == \A name \in DOMAIN p : p[name] \subseteq q[name]
Weaker(some, all) == \A x \in Resources : LET p == some[x] q == all[x] IN Within(p, q)

LabelsKept == \A x \in Objects("artist") : LabelsOf(x)' = LabelsOf(x)
OnlyLabelsTakeAway ==
    [][LabelsKept => /\ rels \subseteq rels' => Weaker(Policy, Policy')
                     /\ rels' \subseteq rels => Weaker(Policy', Policy)]_vars

(***************************************************************************)
(* "An Artist in several Labels gives a Label's people that authority only *)
(* when they hold it on every one of them": a further label of an artist   *)
(* that has one gives nobody a permission on anything.                     *)
(***************************************************************************)
FurtherLabel == \E x \in Objects("artist"), l \in Objects("label") :
                    LabelsOf(x) # {} /\ rels' = rels \cup {<<x, "label", l>>}
FurtherLabelsOnlyTake == [][FurtherLabel => Weaker(Policy', Policy)]_vars
================================================================================
