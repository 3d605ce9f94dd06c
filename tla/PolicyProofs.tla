------------------------------ MODULE PolicyProofs ------------------------------
(***************************************************************************)
(* Proofs about the policy, for every set of accounts, every choice of     *)
(* resources and any number of relationships: what the bindings can write  *)
(* keeps to the types of the schema, permissions are nested, and only the  *)
(* labels of an artist can turn an added relationship into a loss.         *)
(***************************************************************************)
EXTENDS PolicyRelationships, TLAPS

-------------------------------------------------------------------------------
\* Resources.

LEMMA ResourceObjects ==
    /\ \A x \in Resources : x[1] \in ResourceTypes /\ x \in Objects(x[1])
    /\ \A type : \A x \in Objects(type) : x[1] = type /\ type \in ResourceTypes /\ x \in Resources
BY DEF Resources, Objects

LEMMA OwnLineage == \A x \in Resources : x \in Lineage(x)
BY ResourceObjects DEF Lineage

-------------------------------------------------------------------------------
\* What the bindings can build.

LEMMA RelationTypes ==
    ASSUME NEW type \in ResourceTypes, NEW relation \in DOMAIN Relations(type)
    PROVE  \/ relation = "policy" /\ Relations(type)[relation] = "platform"
           \/ relation = "parent" /\ type \in {"artist", "label"} /\ Relations(type)[relation] = type
           \/ relation = "label" /\ type = "artist" /\ Relations(type)[relation] = "label"
           \/ relation \in {"author", "collaborator", "owner", "manager"} /\ Relations(type)[relation] = "account_identity"
<1>1. CASE type = "post"
    BY <1>1 DEF Relations
<1>2. CASE type = "artist"
    BY <1>2 DEF Relations
<1>3. CASE type = "label"
    BY <1>3 DEF Relations
<1>4. CASE type = "series"
    BY <1>4 DEF Relations
<1>5. CASE type \notin {"post", "artist", "label", "series"}
    BY <1>5 DEF Relations
<1> QED BY <1>1, <1>2, <1>3, <1>4, <1>5

LEMMA MethodsTyped == \A t \in Relationships : Typed(t)
<1>1. ASSUME NEW x \in Resources, NEW t \in relationshipMethods(x) PROVE Typed(t)
    <2>1. PICK relation \in DOMAIN Relations(x[1]) :
              \E s \in Subjects(Relations(x[1])[relation]) : t = <<x, relation, s>>
        BY <1>1 DEF relationshipMethods
    <2>2. PICK s \in Subjects(Relations(x[1])[relation]) : t = <<x, relation, s>>
        BY <2>1
    <2>3. x[1] \in ResourceTypes
        BY ResourceObjects
    <2>4. CASE relation = "policy" /\ s \in Subjects("platform")
        BY <2>2, <2>4 DEF Typed, Subjects
    <2>5. CASE relation = "parent" /\ x[1] \in {"artist", "label"} /\ s \in Subjects(x[1])
        BY <2>2, <2>5 DEF Typed, Subjects
    <2>6. CASE relation = "label" /\ x[1] = "artist" /\ s \in Subjects("label")
        BY <2>2, <2>6 DEF Typed, Subjects
    <2>7. CASE relation \in {"author", "collaborator", "owner", "manager"} /\ s \in Subjects("account_identity")
        BY <2>2, <2>7 DEF Typed, Subjects
    <2> QED BY <2>2, <2>3, <2>4, <2>5, <2>6, <2>7, RelationTypes
<1> QED BY <1>1 DEF Relationships, Typed

(***************************************************************************)
(* Whatever is written with the bindings, the schema allows it.            *)
(***************************************************************************)
THEOREM TypeCorrect == Spec => []TypeOK
<1>1. TypeOK <=> \A t \in rels : Typed(t)
    BY DEF TypeOK, Typed
<1>2. Init => TypeOK
    BY DEF Init, Core, TypeOK, Typed
<1>3. ASSUME TypeOK, [Next]_vars PROVE TypeOK'
    <2>1. CASE UNCHANGED vars
        BY <1>3, <2>1 DEF vars, TypeOK
    <2>2. ASSUME NEW m \in Mutations, Write(m) PROVE \A t \in rels' : Typed(t)
        <3>1. m.relationship \in Relationships
            BY DEF Mutations
        <3>2. rels' \subseteq rels \cup {m.relationship}
            BY <2>2 DEF Write
        <3> QED BY <1>1, <1>3, <3>1, <3>2, MethodsTyped
    <2>3. CASE Next
        BY <2>2, <2>3 DEF Next, TypeOK, Typed
    <2> QED BY <1>3, <2>1, <2>3
<1> QED BY <1>2, <1>3, PTL DEF Spec

(***************************************************************************)
(* Of what is stored, a resource's snapshot has all that names it but the  *)
(* label edges of artists.                                                 *)
(***************************************************************************)
THEOREM SnapshotsAreComplete == Spec => []SnapshotsComplete
<1>1. ASSUME TypeOK, NEW x \in Resources, NEW t \in rels \ Snapshot(x)
      PROVE  t[1] # x /\ (t[3] = x => t[1][1] = "artist" /\ t[2] = "label")
    <2>1. t[1] # x
        BY <1>1 DEF Snapshot
    <2>2. ASSUME t[3] = x PROVE t[1][1] = "artist" /\ t[2] = "label"
        <3>1. x[1] \in PolicyTypes
            BY ResourceObjects, IdsAssumption DEF ResourceTypes
        <3>2. x[1] \notin {"platform", "role", "account_identity"}
            BY <3>1 DEF PolicyTypes
        <3>3. ~(t[2] = "parent" /\ t[1][1] \in {"artist", "label"} /\ t[3] \in Objects(t[1][1]))
            <4> SUFFICES ASSUME t[2] = "parent", t[1][1] \in {"artist", "label"}, t[3] \in Objects(t[1][1])
                         PROVE  FALSE
                OBVIOUS
            <4>1. x[1] = t[1][1]
                BY <2>2, ResourceObjects
            <4>2. incomingParent(x[1])
                BY <4>1 DEF incomingParent, Relations
            <4> QED BY <2>2, <4>2, <1>1 DEF Snapshot
        <3>4. t \notin directRoleMethods \cup inheritedRoleMethods \cup platformRoleMethods
            BY <2>2, <3>2 DEF directRoleMethods, inheritedRoleMethods, platformRoleMethods, Role, Account
        <3>5. t[3] # Platform /\ \A a : t[3] # Account(a)
            BY <2>2, <3>2 DEF Platform, Account
        <3> QED BY <1>1, <3>3, <3>4, <3>5 DEF TypeOK, Typed
    <2> QED BY <2>1, <2>2
<1>2. TypeOK => SnapshotsComplete
    BY <1>1 DEF SnapshotsComplete
<1> QED BY <1>2, TypeCorrect, PTL

-------------------------------------------------------------------------------
\* Permissions are nested.

LEMMA RolesNested == is_admin \subseteq is_author /\ is_author \subseteq is_user
BY DEF is_admin, is_author, is_user

LEMMA PlatformNested == \A x : PlatformAdmin(x) \subseteq PlatformAuthor(x)
BY RolesNested DEF PlatformAdmin, PlatformAuthor

LEMMA OwnersManage ==
    /\ \A x : PlatformAdmin(x) \subseteq Owners(x)
    /\ \A x \in Resources : Owners(x) \subseteq LabelManagers(x) /\ Owners(x) \subseteq ArtistManagers(x)
<1>1. \A x : PlatformAdmin(x) \subseteq Owners(x)
    BY DEF Owners
<1>2. \A x \in Resources : Owners(x) \subseteq LabelManagers(x)
    BY OwnLineage DEF LabelManagers
<1>3. ASSUME NEW x \in Resources, NEW a \in Owners(x) PROVE a \in ArtistManagers(x)
    BY OwnLineage DEF ArtistManagers
<1> QED BY <1>1, <1>2, <1>3

LEMMA PublishersManage == \A x \in Resources : ArtistPublishers(x) \subseteq ArtistManagers(x)
<1>1. SUFFICES ASSUME NEW x \in Resources, NEW a \in AllLabels(x, Owners)
               PROVE  a \in ArtistManagers(x)
    BY OwnersManage DEF ArtistPublishers
<1>2. /\ a \in Accounts /\ LabelsOf(x) # {}
      /\ \A l \in LabelsOf(x) : a \in Owners(l)
    BY <1>1 DEF AllLabels
<1>3. \A l \in LabelsOf(x) : a \in LabelManagers(l)
    BY <1>2, OwnersManage, ResourceObjects DEF LabelsOf
<1>4. a \in AllLabels(x, LabelManagers)
    BY <1>2, <1>3 DEF AllLabels
<1> QED BY <1>4, OwnLineage DEF ArtistManagers

LEMMA EachNested ==
    /\ \A x : Nested(Post(x)) /\ Nested(Series(x)) /\ Nested(MapPlace(x)) /\ Nested(Archived(x)) /\ Nested(AdminOnly(x))
    /\ \A x \in Resources : Nested(Label(x)) /\ Nested(Artist(x))
<1>1. \A x : Nested(Post(x))
    BY PlatformNested DEF Nested, Post
<1>2. \A x : Nested(Series(x))
    BY DEF Nested, Series
<1>3. \A x : Nested(MapPlace(x))
    BY DEF Nested, MapPlace
<1>4. \A x : Nested(Archived(x))
    BY PlatformNested DEF Nested, Archived, AdminRights
<1>5. \A x : Nested(AdminOnly(x))
    BY DEF Nested, AdminOnly, AdminRights
<1>6. \A x \in Resources : Nested(Label(x))
    BY OwnersManage DEF Nested, Label
<1>7. \A x \in Resources : Nested(Artist(x))
    BY OwnersManage, PublishersManage DEF Nested, Artist
<1> QED BY <1>1, <1>2, <1>3, <1>4, <1>5, <1>6, <1>7

LEMMA AlwaysNested == PermissionsNested
BY RolesNested, EachNested DEF PermissionsNested, Permissions

(***************************************************************************)
(* Whatever is stored, permissions are nested.                             *)
(***************************************************************************)
THEOREM Nesting == Spec => []PermissionsNested
BY AlwaysNested, PTL

-------------------------------------------------------------------------------
\* What grows with the relationships and shrinks with them.

LEMMA RolesFollow ==
    /\ rels \subseteq rels' => \A r \in Roles : Included(r) \subseteq Included(r)'
    /\ rels' \subseteq rels => \A r \in Roles : Included(r)' \subseteq Included(r)
BY DEF Included

LEMMA MembersFollow ==
    /\ rels \subseteq rels' => \A r \in Roles : Members(r) \subseteq Members(r)'
    /\ rels' \subseteq rels => \A r \in Roles : Members(r)' \subseteq Members(r)
BY RolesFollow DEF Members

LEMMA PlatformFollows ==
    /\ rels \subseteq rels' => /\ is_admin \subseteq is_admin'
                              /\ is_author \subseteq is_author'
    /\ rels' \subseteq rels => /\ is_admin' \subseteq is_admin
                              /\ is_author' \subseteq is_author
<1>1. \A r \in Roles : /\ rels \subseteq rels' => RoleSet(r) \subseteq RoleSet(r)'
                       /\ rels' \subseteq rels => RoleSet(r)' \subseteq RoleSet(r)
    BY MembersFollow DEF RoleSet
<1> QED BY <1>1 DEF is_admin, is_author, Roles

LEMMA PlatformRightsFollow ==
    ASSUME NEW x
    PROVE  /\ rels \subseteq rels' => /\ PlatformAdmin(x) \subseteq PlatformAdmin(x)'
                                     /\ PlatformAuthor(x) \subseteq PlatformAuthor(x)'
           /\ rels' \subseteq rels => /\ PlatformAdmin(x)' \subseteq PlatformAdmin(x)
                                     /\ PlatformAuthor(x)' \subseteq PlatformAuthor(x)
BY PlatformFollows DEF PlatformAdmin, PlatformAuthor, HasPolicy

LEMMA ParticipantsFollow ==
    ASSUME NEW x, NEW relation
    PROVE  /\ rels \subseteq rels' => Participants(x, relation) \subseteq Participants(x, relation)'
           /\ rels' \subseteq rels => Participants(x, relation)' \subseteq Participants(x, relation)
BY DEF Participants

LEMMA LineageFollows ==
    ASSUME NEW x
    PROVE  /\ rels \subseteq rels' => Lineage(x) \subseteq Lineage(x)'
           /\ rels' \subseteq rels => Lineage(x)' \subseteq Lineage(x)
BY DEF Lineage

LEMMA OwnersFollow ==
    ASSUME NEW x
    PROVE  /\ rels \subseteq rels' => Owners(x) \subseteq Owners(x)'
           /\ rels' \subseteq rels => Owners(x)' \subseteq Owners(x)
BY PlatformRightsFollow, ParticipantsFollow DEF Owners

LEMMA LabelManagersFollow ==
    ASSUME NEW x
    PROVE  /\ rels \subseteq rels' => LabelManagers(x) \subseteq LabelManagers(x)'
           /\ rels' \subseteq rels => LabelManagers(x)' \subseteq LabelManagers(x)
BY LineageFollows, OwnersFollow, ParticipantsFollow DEF LabelManagers

LEMMA AllLabelsFollow ==
    ASSUME NEW x, LabelsOf(x)' = LabelsOf(x)
    PROVE  /\ rels \subseteq rels' => /\ AllLabels(x, Owners) \subseteq AllLabels(x, Owners)'
                                     /\ AllLabels(x, LabelManagers) \subseteq AllLabels(x, LabelManagers)'
           /\ rels' \subseteq rels => /\ AllLabels(x, Owners)' \subseteq AllLabels(x, Owners)
                                     /\ AllLabels(x, LabelManagers)' \subseteq AllLabels(x, LabelManagers)
BY OwnersFollow, LabelManagersFollow DEF AllLabels

LEMMA ArtistsFollow ==
    ASSUME LabelsKept, NEW x \in Objects("artist")
    PROVE  /\ rels \subseteq rels' => /\ ArtistManagers(x) \subseteq ArtistManagers(x)'
                                     /\ ArtistPublishers(x) \subseteq ArtistPublishers(x)'
           /\ rels' \subseteq rels => /\ ArtistManagers(x)' \subseteq ArtistManagers(x)
                                     /\ ArtistPublishers(x)' \subseteq ArtistPublishers(x)
<1>1. \A y \in Lineage(x) \cup Lineage(x)' : y \in Objects("artist") /\ LabelsOf(y)' = LabelsOf(y)
    <2>1. x[1] = "artist"
        BY ResourceObjects
    <2>2. Lineage(x) \subseteq Objects("artist") /\ Lineage(x)' \subseteq Objects("artist")
        BY <2>1 DEF Lineage, Objects, ResourceTypes
    <2> QED BY <2>2 DEF LabelsKept
<1>2. ASSUME rels \subseteq rels', NEW a \in ArtistManagers(x) PROVE a \in ArtistManagers(x)'
    <2>1. PICK y \in Lineage(x) : a \in Owners(y) \cup Participants(y, "manager") \cup AllLabels(y, LabelManagers)
        BY <1>2 DEF ArtistManagers
    <2>2. y \in Lineage(x)'
        BY <1>2, LineageFollows
    <2>3. a \in Owners(y)' \cup Participants(y, "manager")' \cup AllLabels(y, LabelManagers)'
        BY <1>1, <1>2, <2>1, OwnersFollow, ParticipantsFollow, AllLabelsFollow
    <2> QED BY <2>2, <2>3 DEF ArtistManagers
<1>3. ASSUME rels' \subseteq rels, NEW a \in ArtistManagers(x)' PROVE a \in ArtistManagers(x)
    <2>1. PICK y \in Lineage(x)' :
              a \in Owners(y)' \cup Participants(y, "manager")' \cup AllLabels(y, LabelManagers)'
        BY <1>3 DEF ArtistManagers
    <2>2. y \in Lineage(x)
        BY <1>3, LineageFollows
    <2>3. a \in Owners(y) \cup Participants(y, "manager") \cup AllLabels(y, LabelManagers)
        BY <1>1, <1>3, <2>1, OwnersFollow, ParticipantsFollow, AllLabelsFollow
    <2> QED BY <2>2, <2>3 DEF ArtistManagers
<1>4. /\ rels \subseteq rels' => ArtistPublishers(x) \subseteq ArtistPublishers(x)'
      /\ rels' \subseteq rels => ArtistPublishers(x)' \subseteq ArtistPublishers(x)
    BY OwnersFollow, AllLabelsFollow DEF ArtistPublishers, LabelsKept
<1> QED BY <1>2, <1>3, <1>4

LEMMA PermissionsFollow ==
    ASSUME LabelsKept, NEW x \in Resources
    PROVE  /\ rels \subseteq rels' => Within(Permissions(x), Permissions(x)')
           /\ rels' \subseteq rels => Within(Permissions(x)', Permissions(x))
<1>1. \/ x[1] = "artist" /\ Permissions(x) = Artist(x) /\ Permissions(x)' = Artist(x)'
      \/ Permissions(x) = Post(x) /\ Permissions(x)' = Post(x)'
      \/ Permissions(x) = Label(x) /\ Permissions(x)' = Label(x)'
      \/ Permissions(x) = Series(x) /\ Permissions(x)' = Series(x)'
      \/ Permissions(x) = MapPlace(x) /\ Permissions(x)' = MapPlace(x)'
      \/ Permissions(x) = Archived(x) /\ Permissions(x)' = Archived(x)'
      \/ Permissions(x) = AdminOnly(x) /\ Permissions(x)' = AdminOnly(x)'
    BY DEF Permissions
<1>2. CASE x[1] = "artist" /\ Permissions(x) = Artist(x) /\ Permissions(x)' = Artist(x)'
    BY <1>2, ResourceObjects, PlatformRightsFollow, OwnersFollow, ArtistsFollow DEF Artist, Within
<1>3. CASE Permissions(x) = Post(x) /\ Permissions(x)' = Post(x)'
    BY <1>3, PlatformRightsFollow, ParticipantsFollow DEF Post, Within
<1>4. CASE Permissions(x) = Label(x) /\ Permissions(x)' = Label(x)'
    BY <1>4, PlatformRightsFollow, OwnersFollow, LabelManagersFollow DEF Label, Within
<1>5. CASE Permissions(x) = Series(x) /\ Permissions(x)' = Series(x)'
    BY <1>5, PlatformRightsFollow, ParticipantsFollow DEF Series, Within
<1>6. CASE Permissions(x) = MapPlace(x) /\ Permissions(x)' = MapPlace(x)'
    BY <1>6, PlatformRightsFollow DEF MapPlace, Within
<1>7. CASE Permissions(x) = Archived(x) /\ Permissions(x)' = Archived(x)'
    BY <1>7, PlatformRightsFollow DEF Archived, Within
<1>8. CASE Permissions(x) = AdminOnly(x) /\ Permissions(x)' = AdminOnly(x)'
    BY <1>8, PlatformRightsFollow DEF AdminOnly, Within
<1> QED BY <1>1, <1>2, <1>3, <1>4, <1>5, <1>6, <1>7, <1>8

(***************************************************************************)
(* Only the labels of an artist turn an added relationship into a loss or  *)
(* a removed one into a gain, whatever is stored and written.              *)
(***************************************************************************)
THEOREM LossesComeFromLabels == Spec => OnlyLabelsTakeAway
<1>1. LabelsKept => /\ rels \subseteq rels' => Weaker(Policy, Policy')
                    /\ rels' \subseteq rels => Weaker(Policy', Policy)
    BY PermissionsFollow DEF Weaker, Policy
<1> QED BY <1>1, PTL DEF OnlyLabelsTakeAway

-------------------------------------------------------------------------------
\* A further label.

LEMMA OnlyTheLabelIsNew ==
    ASSUME FurtherLabel
    PROVE  /\ \A o, s, relation : relation # "label" => (<<o, relation, s>> \in rels' <=> <<o, relation, s>> \in rels)
           /\ \A y \in Objects("artist") : /\ LabelsOf(y) \subseteq LabelsOf(y)'
                                           /\ LabelsOf(y) = {} => LabelsOf(y)' = {}
<1>1. PICK x \in Objects("artist"), l \in Objects("label") :
          LabelsOf(x) # {} /\ rels' = rels \cup {<<x, "label", l>>}
    BY DEF FurtherLabel
<1>2. \A o, s, relation : relation # "label" => (<<o, relation, s>> \in rels' <=> <<o, relation, s>> \in rels)
    BY <1>1
<1>3. ASSUME NEW y \in Objects("artist")
      PROVE  LabelsOf(y) \subseteq LabelsOf(y)' /\ (LabelsOf(y) = {} => LabelsOf(y)' = {})
    BY <1>1 DEF LabelsOf
<1> QED BY <1>2, <1>3

LEMMA OthersStay ==
    ASSUME FurtherLabel
    PROVE  /\ is_admin' = is_admin /\ is_author' = is_author
           /\ \A x : PlatformAdmin(x)' = PlatformAdmin(x) /\ PlatformAuthor(x)' = PlatformAuthor(x)
           /\ \A x, relation : relation # "label" => Participants(x, relation)' = Participants(x, relation)
           /\ \A x : Lineage(x)' = Lineage(x)
<1>1. \A r \in Roles : Included(r)' = Included(r)
    BY OnlyTheLabelIsNew DEF Included
<1>2. \A r \in Roles : Members(r)' = Members(r)
    BY OnlyTheLabelIsNew, <1>1 DEF Members
<1>3. \A r \in Roles : RoleSet(r)' = RoleSet(r)
    BY OnlyTheLabelIsNew, <1>2 DEF RoleSet, Roles
<1>4. is_admin' = is_admin /\ is_author' = is_author
    BY <1>3 DEF is_admin, is_author, Roles
<1>5. ASSUME NEW x PROVE PlatformAdmin(x)' = PlatformAdmin(x) /\ PlatformAuthor(x)' = PlatformAuthor(x)
    BY OnlyTheLabelIsNew, <1>4 DEF PlatformAdmin, PlatformAuthor, HasPolicy
<1>6. ASSUME NEW x, NEW relation, relation # "label" PROVE Participants(x, relation)' = Participants(x, relation)
    BY OnlyTheLabelIsNew, <1>6 DEF Participants
<1>7. ASSUME NEW x PROVE Lineage(x)' = Lineage(x)
    BY OnlyTheLabelIsNew DEF Lineage
<1> QED BY <1>4, <1>5, <1>6, <1>7

LEMMA LabelsStay ==
    ASSUME FurtherLabel
    PROVE  \A x : Owners(x)' = Owners(x) /\ LabelManagers(x)' = LabelManagers(x)
<1>1. \A x : Owners(x)' = Owners(x)
    BY OthersStay DEF Owners
<1>2. ASSUME NEW x PROVE LabelManagers(x)' = LabelManagers(x)
    BY OthersStay, <1>1 DEF LabelManagers
<1> QED BY <1>1, <1>2

LEMMA ArtistsLose ==
    ASSUME FurtherLabel, NEW x \in Objects("artist")
    PROVE  ArtistManagers(x)' \subseteq ArtistManagers(x) /\ ArtistPublishers(x)' \subseteq ArtistPublishers(x)
<1>1. ASSUME NEW y \in Objects("artist")
      PROVE  /\ AllLabels(y, Owners)' \subseteq AllLabels(y, Owners)
             /\ AllLabels(y, LabelManagers)' \subseteq AllLabels(y, LabelManagers)
    BY OnlyTheLabelIsNew, LabelsStay DEF AllLabels
<1>2. Lineage(x) \subseteq Objects("artist")
    BY ResourceObjects DEF Lineage
<1>3. ASSUME NEW a \in ArtistManagers(x)' PROVE a \in ArtistManagers(x)
    <2>1. PICK y \in Lineage(x)' :
              a \in Owners(y)' \cup Participants(y, "manager")' \cup AllLabels(y, LabelManagers)'
        BY <1>3 DEF ArtistManagers
    <2>2. y \in Lineage(x) /\ y \in Objects("artist")
        BY <1>2, OthersStay
    <2>3. a \in Owners(y) \cup Participants(y, "manager") \cup AllLabels(y, LabelManagers)
        BY <1>1, <2>1, <2>2, OthersStay, LabelsStay
    <2> QED BY <2>2, <2>3 DEF ArtistManagers
<1>4. ArtistPublishers(x)' \subseteq ArtistPublishers(x)
    BY <1>1, LabelsStay DEF ArtistPublishers
<1> QED BY <1>3, <1>4

LEMMA EveryoneLoses ==
    ASSUME FurtherLabel, NEW x \in Resources
    PROVE  Within(Permissions(x)', Permissions(x))
<1>1. \/ x[1] = "artist" /\ Permissions(x) = Artist(x) /\ Permissions(x)' = Artist(x)'
      \/ Permissions(x) = Post(x) /\ Permissions(x)' = Post(x)'
      \/ Permissions(x) = Label(x) /\ Permissions(x)' = Label(x)'
      \/ Permissions(x) = Series(x) /\ Permissions(x)' = Series(x)'
      \/ Permissions(x) = MapPlace(x) /\ Permissions(x)' = MapPlace(x)'
      \/ Permissions(x) = Archived(x) /\ Permissions(x)' = Archived(x)'
      \/ Permissions(x) = AdminOnly(x) /\ Permissions(x)' = AdminOnly(x)'
    BY DEF Permissions
<1>2. CASE x[1] = "artist" /\ Permissions(x) = Artist(x) /\ Permissions(x)' = Artist(x)'
    BY <1>2, ResourceObjects, OthersStay, LabelsStay, ArtistsLose DEF Artist, Within
<1>3. CASE Permissions(x) = Post(x) /\ Permissions(x)' = Post(x)'
    BY <1>3, OthersStay DEF Post, Within
<1>4. CASE Permissions(x) = Label(x) /\ Permissions(x)' = Label(x)'
    BY <1>4, OthersStay, LabelsStay DEF Label, Within
<1>5. CASE Permissions(x) = Series(x) /\ Permissions(x)' = Series(x)'
    BY <1>5, OthersStay DEF Series, Within
<1>6. CASE Permissions(x) = MapPlace(x) /\ Permissions(x)' = MapPlace(x)'
    BY <1>6, OthersStay DEF MapPlace, Within
<1>7. CASE Permissions(x) = Archived(x) /\ Permissions(x)' = Archived(x)'
    BY <1>7, OthersStay DEF Archived, Within
<1>8. CASE Permissions(x) = AdminOnly(x) /\ Permissions(x)' = AdminOnly(x)'
    BY <1>8, OthersStay DEF AdminOnly, Within
<1> QED BY <1>1, <1>2, <1>3, <1>4, <1>5, <1>6, <1>7, <1>8

(***************************************************************************)
(* An artist's further label gives nobody a permission on anything.        *)
(***************************************************************************)
THEOREM FurtherLabelsTake == Spec => FurtherLabelsOnlyTake
<1>1. FurtherLabel => Weaker(Policy', Policy)
    BY EveryoneLoses DEF Weaker, Policy
<1> QED BY <1>1, PTL DEF FurtherLabelsOnlyTake
================================================================================
