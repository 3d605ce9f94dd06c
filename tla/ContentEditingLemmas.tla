-------------------------- MODULE ContentEditingLemmas --------------------------
(***************************************************************************)
(* What editors and the store do, step by step, for any editors, documents, *)
(* kinds, locales and ids: what an edit does to a document, what is made of *)
(* it, how it is sent and flattened, and what the store makes of a batch in *)
(* whatever order.                                                         *)
(*                                                                         *)
(* Documents and rows are compared by what they say: of every id where it  *)
(* is (ShapesOf, RowShape), and its text by locale (SaysOf).               *)
(***************************************************************************)
EXTENDS ContentEditing, ContentPageProofs

(***************************************************************************)
(* Sequences of rows, sections or blocks that are told apart by an id.     *)
(***************************************************************************)

\* An element with a new id at the end.
LEMMA Appended ==
    ASSUME NEW S, NEW s \in Seq(S), NEW x \in S
    PROVE  /\ Append(s, x) \in Seq(S)
           /\ ToSet(Append(s, x)) = ToSet(s) \cup {x}
           /\ DistinctIds(s) /\ (\A y \in ToSet(s) : y.id # x.id) => DistinctIds(Append(s, x))
<1>1. Len(s) \in Nat /\ DOMAIN s = 1..Len(s)
  BY SequenceElements
<1>2. Append(s, x) \in Seq(S) /\ Len(Append(s, x)) = Len(s) + 1 /\ DOMAIN Append(s, x) = 1..(Len(s) + 1)
      /\ Append(s, x)[Len(s) + 1] = x /\ \A i \in 1..Len(s) : Append(s, x)[i] = s[i]
  BY <1>1
<1>3. \A i \in DOMAIN Append(s, x) : i = Len(s) + 1 \/ i \in DOMAIN s
  BY <1>1, <1>2
<1>4. \A y : y \in ToSet(Append(s, x)) <=> y \in ToSet(s) \cup {x}
  <2> TAKE y
  <2>1. ASSUME y \in ToSet(Append(s, x)) PROVE y \in ToSet(s) \cup {x}
    <3>1. PICK i \in DOMAIN Append(s, x) : y = Append(s, x)[i]
      BY <2>1 DEF ToSet
    <3> QED BY <1>1, <1>2, <1>3, <3>1 DEF ToSet
  <2>2. ASSUME y \in ToSet(s) PROVE y \in ToSet(Append(s, x))
    <3>1. PICK i \in DOMAIN s : y = s[i]
      BY <2>2 DEF ToSet
    <3>2. i \in DOMAIN Append(s, x) /\ y = Append(s, x)[i]
      BY <1>1, <1>2, <3>1
    <3> QED BY <3>2 DEF ToSet
  <2>3. x \in ToSet(Append(s, x))
    <3>1. Len(s) + 1 \in DOMAIN Append(s, x)
      BY <1>1, <1>2
    <3> QED BY <1>2, <3>1 DEF ToSet
  <2> QED BY <2>1, <2>2, <2>3
<1>5. ASSUME DistinctIds(s), \A y \in ToSet(s) : y.id # x.id
      PROVE  DistinctIds(Append(s, x))
  <2>1. \A i \in DOMAIN s : s[i].id # x.id
    BY <1>5 DEF ToSet
  <2> SUFFICES ASSUME NEW i \in DOMAIN Append(s, x), NEW j \in DOMAIN Append(s, x),
                      Append(s, x)[i].id = Append(s, x)[j].id
               PROVE  i = j
    BY DEF DistinctIds
  <2> QED BY <1>1, <1>2, <1>3, <1>5, <2>1 DEF DistinctIds
<1> QED BY <1>2, <1>4, <1>5

\* An element in the place of the one with the id of x.
Swapped(s, x, y) == [i \in DOMAIN s |-> IF s[i].id = x.id THEN y ELSE s[i]]

\* An element in the place of the one with its id.
LEMMA Replaced ==
    ASSUME NEW S, NEW s \in Seq(S), DistinctIds(s), NEW x \in ToSet(s), NEW y \in S, y.id = x.id
    PROVE  /\ Swapped(s, x, y) \in Seq(S)
           /\ ToSet(Swapped(s, x, y)) = (ToSet(s) \ {x}) \cup {y}
           /\ DistinctIds(Swapped(s, x, y))
<1> DEFINE t == Swapped(s, x, y)
<1>0. t = [i \in DOMAIN s |-> IF s[i].id = x.id THEN y ELSE s[i]]
  BY DEF Swapped
<1> HIDE DEF t
<1>1. Len(s) \in Nat /\ DOMAIN s = 1..Len(s) /\ \A i \in DOMAIN s : s[i] \in S
  BY SequenceElements
<1>2. \A i \in DOMAIN s : t[i] = IF s[i].id = x.id THEN y ELSE s[i]
  BY <1>0
<1>3. DOMAIN t = DOMAIN s
  BY <1>0
<1>4. t \in [1..Len(s) -> S]
  BY <1>0, <1>1
<1>5. t \in Seq(S)
  BY <1>1, <1>4, SeqDef
<1>6. DistinctIds(t)
  BY <1>2, <1>3 DEF DistinctIds
<1>7. PICK k \in DOMAIN s : s[k] = x
  BY DEF ToSet
<1>8. \A i \in DOMAIN s : s[i].id = x.id <=> s[i] = x
  BY <1>7 DEF DistinctIds
<1>9. \A z : z \in ToSet(t) <=> z \in (ToSet(s) \ {x}) \cup {y}
  BY <1>2, <1>3, <1>7, <1>8 DEF ToSet
<1> QED BY <1>5, <1>6, <1>9 DEF t

LeftOf(s, id) == Where(s, LAMBDA n : n.id # id)

\* The elements that are not of an id.
LEMMA Others ==
    ASSUME NEW S, NEW s \in Seq(S), NEW id
    PROVE  LET t == LeftOf(s, id)
           IN /\ t \in Seq(S)
              /\ \A x : x \in ToSet(t) <=> x \in ToSet(s) /\ x.id # id
              /\ DistinctIds(s) => DistinctIds(t)
<1> DEFINE T == {x \in ToSet(s) : x.id # id}
           parts == [i \in DOMAIN s |-> IF s[i] \in T THEN <<s[i]>> ELSE <<>>]
           t == LeftOf(s, id)
<1>1. \A i \in DOMAIN s : s[i] \in T <=> s[i].id # id
  BY DEF ToSet
<1>2. parts = [i \in DOMAIN s |-> IF s[i].id # id THEN <<s[i]>> ELSE <<>>]
  BY <1>1
<1>3. t = FlattenSeq(parts)
  BY <1>2 DEF LeftOf, Where
<1>4. /\ FlattenSeq(parts) \in Seq(S)
      /\ \A x : x \in ToSet(FlattenSeq(parts)) <=> x \in ToSet(s) /\ x \in T
      /\ DistinctIds(s) => DistinctIds(FlattenSeq(parts))
  <2> HIDE DEF T
  <2> QED BY Filtered
<1> HIDE DEF parts, t
<1> QED BY <1>3, <1>4 DEF t

(***************************************************************************)
(* Documents as editors hold them: no id twice, and values of what is      *)
(* there only, each of the kind of its section or block.                   *)
(***************************************************************************)
ValueFits(n, v) ==
    /\ v.case = n.shared.case
    /\ \A id \in DOMAIN v.blocks : \E b \in ToSet(n.blocks) : b.id = id /\ v.blocks[id].case = b.shared.case

SectionFits(n) ==
    /\ n \in Node /\ n.id \in Uuid
    /\ n.blocks # <<>> => HasBlocks(n)
    /\ DistinctIds(n.blocks)
    /\ \A b \in ToSet(n.blocks) : b.id \in Uuid

\* No block has the id of a section or of a block of another section.
Apart(N) ==
    \A n, m \in N : \A b \in ToSet(n.blocks) :
        b.id # m.id /\ \A c \in ToSet(m.blocks) : b.id = c.id => n = m

PageDocument(p) ==
    /\ p \in Page /\ DOMAIN p.overlays = Locales
    /\ DistinctIds(p.nodes) /\ Apart(ToSet(p.nodes))
    /\ \A n \in ToSet(p.nodes) : SectionFits(n)
    /\ \A l \in Locales : \A id \in DOMAIN p.overlays[l] :
          \E n \in ToSet(p.nodes) : n.id = id /\ ValueFits(n, p.overlays[l][id])

PostDocument(p) ==
    /\ p = [nodes |-> p.nodes, overlays |-> p.overlays]
    /\ p.nodes \in Seq(Block) /\ DistinctIds(p.nodes)
    /\ \A n \in ToSet(p.nodes) : n.id \in Uuid /\ n.shared.case \in RichKinds
    /\ p.overlays \in [Locales -> BlockValues]
    /\ \A l \in Locales : \A id \in DOMAIN p.overlays[l] :
          \E n \in ToSet(p.nodes) : n.id = id /\ p.overlays[l][id].case = n.shared.case

\* Every section and block has a value in the source locale.
PageSource(p) ==
    \A n \in ToSet(p.nodes) :
        /\ n.id \in DOMAIN p.overlays[Source]
        /\ \A b \in ToSet(n.blocks) : b.id \in DOMAIN p.overlays[Source][n.id].blocks
PostSource(p) == \A n \in ToSet(p.nodes) : n.id \in DOMAIN p.overlays[Source]

(***************************************************************************)
(* What a document says: of a section or block where it is and what it is, *)
(* and the values it has, but for empty translations of rich-text sections. *)
(***************************************************************************)
SectionShape(n) ==
    [id |-> n.id, parent |-> n.parent, slot |-> IF n.column = 0 THEN Sections ELSE Column(n.column),
     pos |-> int32(n.index), kind |-> n.shared.case, shared |-> n.shared]
BlockShape(section, b) ==
    [id |-> b.id, parent |-> IF b.parent = 0 THEN section ELSE b.parent, slot |-> Content,
     pos |-> int32(b.index), kind |-> b.shared.case, shared |-> b.shared]

PageShapes(p) ==
    {SectionShape(n) : n \in ToSet(p.nodes)}
    \cup UNION {{BlockShape(n.id, b) : b \in ToSet(n.blocks)} : n \in ToSet(p.nodes)}
PostShapes(p) == {BlockShape(0, n) : n \in ToSet(p.nodes)}
ShapesOf(p) == IF profile = "page" THEN PageShapes(p) ELSE PostShapes(p)

Says(l, v) == l = Source \/ v.case # "rich-text" \/ v.text # ""

\* The value v of id in a locale.
PageSays(p, l, id, v) ==
    /\ l \in Locales /\ Says(l, v)
    /\ \/ id \in DOMAIN p.overlays[l] /\ v = [case |-> p.overlays[l][id].case, text |-> p.overlays[l][id].text]
       \/ \E s \in DOMAIN p.overlays[l] : id \in DOMAIN p.overlays[l][s].blocks /\ v = p.overlays[l][s].blocks[id]
PostSays(p, l, id, v) ==
    l \in Locales /\ Says(l, v) /\ id \in DOMAIN p.overlays[l] /\ v = p.overlays[l][id]
SaysOf(p, l, id, v) == IF profile = "page" THEN PageSays(p, l, id, v) ELSE PostSays(p, l, id, v)

\* An id names one section, and the section one place in the document.
LEMMA RankOf ==
    ASSUME NEW p, DistinctIds(p.nodes), NEW n \in ToSet(p.nodes)
    PROVE  /\ Rank(p, n.id) \in DOMAIN p.nodes /\ p.nodes[Rank(p, n.id)] = n
           /\ \A i \in DOMAIN p.nodes : p.nodes[i].id = n.id => i = Rank(p, n.id)
           /\ Ranks(p, n.id) # {}
           /\ profile = "page" => Blocks(p, n.id) = n.blocks
<1>1. PICK k \in DOMAIN p.nodes : p.nodes[k] = n
  BY DEF ToSet
<1>2. \A i \in DOMAIN p.nodes : p.nodes[i].id = n.id <=> i = k
  BY <1>1 DEF DistinctIds
<1>3. Ranks(p, n.id) = {k}
  BY <1>1, <1>2 DEF Ranks
<1>4. Rank(p, n.id) = k
  BY <1>3 DEF Rank
<1> QED BY <1>1, <1>2, <1>3, <1>4 DEF Blocks

\* What is placed on a level of a page: a section, or a block of a section.
LEMMA PlacedOnPage ==
    ASSUME NEW p, profile = "page", PageDocument(p), NEW section, NEW id, Placed(p, section, id)
    PROVE  IF section = 0
           THEN \E n \in ToSet(p.nodes) : n.id = id
           ELSE \E n \in ToSet(p.nodes) : n.id = section /\ \E b \in ToSet(n.blocks) : b.id = id
<1>1. PICK i \in DOMAIN Level(p, section) : Level(p, section)[i].id = id
  BY DEF Placed
<1>2. CASE section = 0
  BY <1>1, <1>2 DEF Level, ToSet
<1>3. CASE section # 0
  <2>1. Level(p, section) = Blocks(p, section)
    BY <1>3 DEF Level
  <2>2. Ranks(p, section) # {}
    BY <1>1, <2>1 DEF Blocks
  <2>3. PICK n \in ToSet(p.nodes) : n.id = section
    BY <2>2 DEF Ranks, ToSet
  <2>4. Blocks(p, section) = n.blocks
    BY <2>3, RankOf DEF PageDocument
  <2> QED BY <1>1, <1>3, <2>1, <2>3, <2>4 DEF ToSet
<1> QED BY <1>2, <1>3

\* In a post only blocks of the post are placed.
LEMMA PlacedInPost ==
    ASSUME NEW p, profile = "post", NEW section, NEW id, Placed(p, section, id)
    PROVE  section = 0 /\ \E n \in ToSet(p.nodes) : n.id = id
  BY DEF Placed, Level, Blocks, ToSet

\* The shapes of a document.
LEMMA ShapesElements ==
    ASSUME NEW p, NEW x
    PROVE  /\ x \in PageShapes(p) <=>
                \E n \in ToSet(p.nodes) : x = SectionShape(n) \/ \E b \in ToSet(n.blocks) : x = BlockShape(n.id, b)
           /\ x \in PostShapes(p) <=> \E n \in ToSet(p.nodes) : x = BlockShape(0, n)
<1>1. x \in UNION {{BlockShape(n.id, b) : b \in ToSet(n.blocks)} : n \in ToSet(p.nodes)}
        <=> \E n \in ToSet(p.nodes) : \E b \in ToSet(n.blocks) : x = BlockShape(n.id, b)
  OBVIOUS
<1> QED BY <1>1 DEF PageShapes, PostShapes

\* The id of a shape.
LEMMA ShapeIds ==
    /\ \A n : SectionShape(n).id = n.id
    /\ \A section, b : BlockShape(section, b).id = b.id
  BY DEF SectionShape, BlockShape

\* The ids of a document.
LEMMA IdsOfDocument ==
    ASSUME NEW p, (profile = "page" /\ PageDocument(p)) \/ profile = "post"
    PROVE  \A id : id \in AllIds(p) <=> \E x \in ShapesOf(p) : x.id = id
<1> SUFFICES ASSUME NEW id PROVE id \in AllIds(p) <=> \E x \in ShapesOf(p) : x.id = id
  OBVIOUS
<1>1. id \in Ids(p.nodes) <=> \E n \in ToSet(p.nodes) : n.id = id
  BY DEF Ids, ToSet
<1>2. CASE profile = "page"
  <2>1. \A n \in ToSet(p.nodes) : Blocks(p, n.id) = n.blocks
    BY <1>2, RankOf DEF PageDocument
  <2>2. id \in UNION {Ids(Blocks(p, a)) : a \in Ids(p.nodes)}
          <=> \E n \in ToSet(p.nodes) : \E b \in ToSet(n.blocks) : b.id = id
    <3>1. id \in UNION {Ids(Blocks(p, a)) : a \in Ids(p.nodes)} <=> \E a \in Ids(p.nodes) : id \in Ids(Blocks(p, a))
      OBVIOUS
    <3>2. (\E a \in Ids(p.nodes) : id \in Ids(Blocks(p, a))) <=> \E n \in ToSet(p.nodes) : id \in Ids(Blocks(p, n.id))
      BY DEF Ids, ToSet
    <3>3. \A n \in ToSet(p.nodes) : id \in Ids(Blocks(p, n.id)) <=> \E b \in ToSet(n.blocks) : b.id = id
      BY <2>1 DEF Ids, ToSet
    <3> QED BY <3>1, <3>2, <3>3
  <2>3. (\E x \in ShapesOf(p) : x.id = id) <=>
           \/ \E n \in ToSet(p.nodes) : n.id = id
           \/ \E n \in ToSet(p.nodes) : \E b \in ToSet(n.blocks) : b.id = id
    <3>1. ShapesOf(p) = PageShapes(p)
      BY <1>2 DEF ShapesOf
    <3>2. ASSUME NEW x \in ShapesOf(p), x.id = id
          PROVE  \E n \in ToSet(p.nodes) : n.id = id \/ \E b \in ToSet(n.blocks) : b.id = id
      <4>1. PICK n \in ToSet(p.nodes) : x = SectionShape(n) \/ \E b \in ToSet(n.blocks) : x = BlockShape(n.id, b)
        BY <3>1, <3>2, ShapesElements
      <4> QED BY <3>2, <4>1, ShapeIds
    <3>3. ASSUME NEW n \in ToSet(p.nodes)
          PROVE  SectionShape(n) \in ShapesOf(p) /\ \A b \in ToSet(n.blocks) : BlockShape(n.id, b) \in ShapesOf(p)
      BY <3>1, ShapesElements
    <3> QED BY <3>2, <3>3, ShapeIds
  <2> QED BY <1>1, <2>2, <2>3 DEF AllIds
<1>3. CASE profile = "post"
  <2>1. \A a : Ids(Blocks(p, a)) = {}
    BY <1>3 DEF Ids, Blocks
  <2>2. AllIds(p) = Ids(p.nodes)
    BY <2>1 DEF AllIds
  <2>3. \A x : x \in ShapesOf(p) <=> \E n \in ToSet(p.nodes) : x = BlockShape(0, n)
    BY <1>3, ShapesElements DEF ShapesOf
  <2> QED BY <1>1, <2>2, <2>3, ShapeIds
<1> QED BY <1>2, <1>3

(***************************************************************************)
(* The documents of editors, and what an edit does to what they say.       *)
(***************************************************************************)
Document(p) == IF profile = "page" THEN PageDocument(p) /\ PageSource(p) ELSE PostDocument(p) /\ PostSource(p)

SameShapes(p, q) == \A x : x \in ShapesOf(q) <=> x \in ShapesOf(p)
SameSays(p, q) == \A l, id, v : SaysOf(q, l, id, v) <=> SaysOf(p, l, id, v)

\* A new section or block of shape x, with its value in the source locale.
Inserted(p, q, x, value) ==
    /\ \A y : y \in ShapesOf(q) <=> y \in ShapesOf(p) \/ y = x
    /\ \A l, id, v : SaysOf(q, l, id, v) <=> SaysOf(p, l, id, v) \/ (l = Source /\ id = x.id /\ v = value)

At(x, place) ==
    [id |-> x.id, parent |-> place.parent, slot |-> place.slot, pos |-> place.pos, kind |-> x.kind, shared |-> x.shared]

\* The section or block id at another place.
Relocated(p, q, id, place) ==
    /\ \A y : y \in ShapesOf(q) <=> \/ y \in ShapesOf(p) /\ y.id # id
                                   \/ \E x \in ShapesOf(p) : x.id = id /\ y = At(x, place)
    /\ SameSays(p, q)

\* The section or block id gone, with its values.
Removed(p, q, id) ==
    /\ \A y : y \in ShapesOf(q) <=> y \in ShapesOf(p) /\ y.id # id
    /\ \A l, a, v : SaysOf(q, l, a, v) <=> SaysOf(p, l, a, v) /\ a # id

\* A value given to id in a locale, or taken from it.
Given(p, q, l, id, value) ==
    /\ SameShapes(p, q)
    /\ \A k, a, v : SaysOf(q, k, a, v) <=> IF k = l /\ a = id THEN v = value ELSE SaysOf(p, k, a, v)
Taken(p, q, l, id) ==
    /\ SameShapes(p, q)
    /\ \A k, a, v : SaysOf(q, k, a, v) <=> SaysOf(p, k, a, v) /\ ~(k = l /\ a = id)

\* g is f with b at a, or f without a.
Put1(f, g, a, b) == DOMAIN g = DOMAIN f \cup {a} /\ g[a] = b /\ \A x \in DOMAIN f : x # a => g[x] = f[x]
Left1(f, g, a) == DOMAIN g = DOMAIN f \ {a} /\ \A x \in DOMAIN g : g[x] = f[x]

\* A function without an entry.
LEMMA WithoutEntry ==
    ASSUME NEW A, NEW B, NEW f \in PartialFunctions(A, B), NEW a
    PROVE  /\ Without(f, a) \in PartialFunctions(A, B)
           /\ Left1(f, Without(f, a), a)
<1>1. f = [x \in DOMAIN f |-> f[x]] /\ DOMAIN f \subseteq A /\ \A x \in DOMAIN f : f[x] \in B
  BY PartialFunctionOf
<1> DEFINE g == Without(f, a)
<1>2. g = [x \in DOMAIN f \ {a} |-> f[x]]
  BY DEF Without
<1>3. DOMAIN g = DOMAIN f \ {a} /\ \A x \in DOMAIN g : g[x] = f[x]
  BY <1>2
<1>4. g = [x \in DOMAIN g |-> g[x]]
  BY <1>2
<1> HIDE DEF g
<1>5. g \in PartialFunctions(A, B)
  BY <1>1, <1>3, <1>4, PartialFunctionOf
<1>6. Left1(f, g, a)
  BY <1>3 DEF Left1
<1> QED BY <1>5, <1>6 DEF g

\* The values of blocks in a locale, with one put or left out.
LEMMA WithBlockValue ==
    ASSUME NEW f \in BlockValues
    PROVE  /\ \A a \in Spellings, b \in Values : With(f, a, b) \in BlockValues /\ Put1(f, With(f, a, b), a, b)
           /\ \A a : Without(f, a) \in BlockValues /\ Left1(f, Without(f, a), a)
<1>1. ASSUME NEW a \in Spellings, NEW b \in Values PROVE With(f, a, b) \in BlockValues
  BY WithEntry DEF BlockValues
<1>2. ASSUME NEW a PROVE Without(f, a) \in BlockValues
  BY WithoutEntry DEF BlockValues
<1>3. \A a, b : Put1(f, With(f, a, b), a, b)
  BY DEF Put1, With
<1>4. \A a : Left1(f, Without(f, a), a)
  BY DEF Left1, Without
<1> QED BY <1>1, <1>2, <1>3, <1>4

\* The values of a post in a locale, with one put; the values of the other locales stay.
PostPut(p, q, l, id, value) ==
    /\ q.nodes = p.nodes
    /\ Put1(p.overlays[l], q.overlays[l], id, value)
    /\ \A a \in Locales : a # l => q.overlays[a] = p.overlays[a]

\* A value in a post.
LEMMA PostGiven ==
    ASSUME profile = "post", NEW p, PostDocument(p), NEW l \in Locales, NEW n \in ToSet(p.nodes),
           NEW value \in Values, value.case = n.shared.case,
           NEW q, q = WithValue(p, l, 0, n.id, value)
    PROVE  PostDocument(q) /\ PostPut(p, q, l, n.id, value)
<1> DEFINE f == p.overlays[l]
           g == With(f, n.id, value)
<1>1. q = [nodes |-> p.nodes, overlays |-> [p.overlays EXCEPT ![l] = g]]
  BY DEF WithValue, PostDocument
<1>2. f \in BlockValues
  BY DEF PostDocument
<1>3. n.id \in Spellings
  BY DEF PostDocument, Spellings
<1> HIDE DEF f
<1>4. g \in BlockValues /\ Put1(f, g, n.id, value)
  BY <1>2, <1>3, WithBlockValue
<1> HIDE DEF g
<1>5. q.nodes = p.nodes /\ q.overlays = [p.overlays EXCEPT ![l] = g]
  BY <1>1
<1>6. q.overlays \in [Locales -> BlockValues] /\ q.overlays[l] = g /\ \A a \in Locales : a # l => q.overlays[a] = p.overlays[a]
  BY <1>4, <1>5 DEF PostDocument
<1>7. PostPut(p, q, l, n.id, value)
  BY <1>4, <1>5, <1>6 DEF PostPut, f
<1>8. PostDocument(q)
  <2>1. q = [nodes |-> q.nodes, overlays |-> q.overlays]
    BY <1>1
  <2>2. ASSUME NEW a \in Locales, NEW id \in DOMAIN q.overlays[a]
        PROVE  \E m \in ToSet(q.nodes) : m.id = id /\ q.overlays[a][id].case = m.shared.case
    <3>1. CASE a = l /\ id = n.id
      BY <1>5, <1>7, <3>1 DEF PostPut, Put1
    <3>2. CASE ~(a = l /\ id = n.id)
      <4>1. id \in DOMAIN p.overlays[a] /\ q.overlays[a][id] = p.overlays[a][id]
        BY <1>7, <2>2, <3>2 DEF PostPut, Put1
      <4> QED BY <1>5, <4>1 DEF PostDocument
    <3> QED BY <3>1, <3>2
  <2> QED BY <1>5, <1>6, <2>1, <2>2 DEF PostDocument
<1> QED BY <1>7, <1>8

\* What a post says with one value put.
LEMMA PostPutSays ==
    ASSUME profile = "post", NEW p, NEW q, NEW l \in Locales, NEW id, NEW value, Says(l, value), PostPut(p, q, l, id, value)
    PROVE  Given(p, q, l, id, value)
<1>1. SameShapes(p, q)
  BY DEF SameShapes, ShapesOf, PostShapes, PostPut
<1>2. ASSUME NEW k, NEW a, NEW v
      PROVE  PostSays(q, k, a, v) <=> IF k = l /\ a = id THEN v = value ELSE PostSays(p, k, a, v)
  <2>1. CASE k \notin Locales
    BY <2>1 DEF PostSays
  <2>2. CASE k \in Locales /\ k # l
    BY <2>2 DEF PostSays, PostPut
  <2>3. CASE k = l
    BY <2>3 DEF PostSays, PostPut, Put1
  <2> QED BY <2>1, <2>2, <2>3
<1>3. \A r, k, a, v : SaysOf(r, k, a, v) <=> PostSays(r, k, a, v)
  BY DEF SaysOf
<1> QED BY <1>1, <1>2, <1>3 DEF Given

\* A post's block gets a value.
LEMMA GivenInPost ==
    ASSUME profile = "post", NEW p, Document(p), NEW l \in Locales, NEW n \in ToSet(p.nodes),
           NEW value \in Values, value.case = n.shared.case, Says(l, value),
           NEW q, q = WithValue(p, l, 0, n.id, value)
    PROVE  Document(q) /\ Given(p, q, l, n.id, value)
<1>1. PostDocument(p) /\ PostSource(p)
  BY DEF Document
<1>2. PostDocument(q) /\ PostPut(p, q, l, n.id, value)
  BY <1>1, PostGiven
<1>3. PostSource(q)
  <2> SUFFICES ASSUME NEW m \in ToSet(p.nodes) PROVE m.id \in DOMAIN q.overlays[Source]
    BY <1>2 DEF PostSource, PostPut
  <2>1. m.id \in DOMAIN p.overlays[Source] /\ Source \in Locales
    BY <1>1 DEF PostSource, Locales
  <2> QED BY <1>2, <2>1 DEF PostPut, Put1
<1> QED BY <1>2, <1>3, PostPutSays DEF Document

\* A post's block loses a value of another locale.
LEMMA TakenInPost ==
    ASSUME profile = "post", NEW p, Document(p), NEW l \in Locales \ {Source}, NEW id,
           NEW q, q = WithoutValue(p, l, 0, id)
    PROVE  Document(q) /\ Taken(p, q, l, id)
<1> DEFINE f == p.overlays[l]
           g == Without(f, id)
<1>1. PostDocument(p) /\ PostSource(p)
  BY DEF Document
<1>2. q = [nodes |-> p.nodes, overlays |-> [p.overlays EXCEPT ![l] = g]]
  BY <1>1 DEF WithoutValue, PostDocument
<1>3. f \in BlockValues
  BY <1>1 DEF PostDocument
<1> HIDE DEF f
<1>4. g \in BlockValues /\ Left1(f, g, id)
  BY <1>3, WithBlockValue
<1> HIDE DEF g
<1>5. q.nodes = p.nodes /\ q.overlays = [p.overlays EXCEPT ![l] = g]
  BY <1>2
<1>6. q.overlays \in [Locales -> BlockValues] /\ q.overlays[l] = g /\ \A a \in Locales : a # l => q.overlays[a] = p.overlays[a]
  BY <1>1, <1>4, <1>5 DEF PostDocument
<1>7. PostDocument(q)
  <2>1. q = [nodes |-> q.nodes, overlays |-> q.overlays]
    BY <1>2
  <2>2. ASSUME NEW a \in Locales, NEW b \in DOMAIN q.overlays[a]
        PROVE  b \in DOMAIN p.overlays[a] /\ q.overlays[a][b] = p.overlays[a][b]
    BY <1>4, <1>6, <2>2 DEF Left1, f
  <2> QED BY <1>1, <1>5, <1>6, <2>1, <2>2 DEF PostDocument
<1>8. PostSource(q)
  BY <1>1, <1>5, <1>6 DEF PostSource, Locales
<1>9. SameShapes(p, q)
  BY <1>5 DEF SameShapes, ShapesOf, PostShapes
<1>10. ASSUME NEW k, NEW a, NEW v
       PROVE  PostSays(q, k, a, v) <=> PostSays(p, k, a, v) /\ ~(k = l /\ a = id)
  <2>1. CASE k # l
    BY <1>6, <2>1 DEF PostSays
  <2>2. CASE k = l
    BY <1>4, <1>6, <2>2 DEF PostSays, Left1, f
  <2> QED BY <2>1, <2>2
<1>11. \A r, k, a, v : SaysOf(r, k, a, v) <=> PostSays(r, k, a, v)
  BY DEF SaysOf
<1> QED BY <1>7, <1>8, <1>9, <1>10, <1>11 DEF Document, Taken

\* Blocks with the ids of a post, and what they are.
Rearranged(p, nodes) ==
    /\ nodes \in Seq(Block) /\ DistinctIds(nodes)
    /\ \A n \in ToSet(nodes) : n.id \in Uuid /\ n.shared.case \in RichKinds
    /\ \A n \in ToSet(p.nodes) : \E m \in ToSet(nodes) : m.id = n.id /\ m.shared = n.shared

\* A post with other blocks of the same ids and kinds.
LEMMA PostRearranged ==
    ASSUME NEW p, PostDocument(p), NEW nodes, Rearranged(p, nodes), NEW q, q = [p EXCEPT !.nodes = nodes]
    PROVE  PostDocument(q) /\ q.nodes = nodes /\ q.overlays = p.overlays
<1>1. q = [nodes |-> nodes, overlays |-> p.overlays]
  BY DEF PostDocument
<1>2. q.nodes = nodes /\ q.overlays = p.overlays
  BY <1>1
<1>3. ASSUME NEW l \in Locales, NEW id \in DOMAIN p.overlays[l]
      PROVE  \E m \in ToSet(nodes) : m.id = id /\ p.overlays[l][id].case = m.shared.case
  <2>1. PICK n \in ToSet(p.nodes) : n.id = id /\ p.overlays[l][id].case = n.shared.case
    BY DEF PostDocument
  <2> QED BY <2>1 DEF Rearranged
<1> QED BY <1>1, <1>2, <1>3 DEF PostDocument, Rearranged

\* A new block of a post.
LEMMA InsertedInPost ==
    ASSUME profile = "post", NEW p, Document(p), NEW node \in Block, node.id \in Uuid, node.shared.case \in RichKinds,
           node.id \notin AllIds(p), NEW value \in Values, value.case = node.shared.case,
           NEW q, q = WithValue(WithLevel(p, 0, Append(Level(p, 0), node)), Source, 0, node.id, value)
    PROVE  Document(q) /\ Inserted(p, q, BlockShape(0, node), value)
<1> DEFINE nodes == Append(p.nodes, node)
           placed == [p EXCEPT !.nodes = nodes]
<1>1. PostDocument(p) /\ PostSource(p) /\ p.nodes \in Seq(Block)
  BY DEF Document, PostDocument
<1>2. q = WithValue(placed, Source, 0, node.id, value)
  BY DEF WithLevel, Level
<1>3. \A n \in ToSet(p.nodes) : n.id # node.id
  <2>1. \A n \in ToSet(p.nodes) : n.id \in Ids(p.nodes)
    BY DEF ToSet, Ids
  <2> QED BY <2>1 DEF AllIds
<1>4. nodes \in Seq(Block) /\ ToSet(nodes) = ToSet(p.nodes) \cup {node} /\ DistinctIds(nodes)
  BY <1>1, <1>3, Appended DEF PostDocument
<1> HIDE DEF nodes
<1>5. \A n \in ToSet(nodes) : n.id \in Uuid /\ n.shared.case \in RichKinds
  BY <1>1, <1>4 DEF PostDocument
<1>a. Rearranged(p, nodes)
  BY <1>4, <1>5 DEF Rearranged
<1>6. PostDocument(placed) /\ placed.nodes = nodes /\ placed.overlays = p.overlays
  BY <1>1, <1>a, PostRearranged
<1> HIDE DEF placed
<1>7. Source \in Locales
  BY DEF Locales
<1>8. node \in ToSet(placed.nodes)
  BY <1>4, <1>6
<1>9. PostDocument(q) /\ PostPut(placed, q, Source, node.id, value)
  BY <1>2, <1>6, <1>7, <1>8, PostGiven
<1>10. Says(Source, value)
  BY DEF Says
<1>11. Given(placed, q, Source, node.id, value)
  BY <1>7, <1>9, <1>10, PostPutSays
<1>12. PostSource(q)
  <2> SUFFICES ASSUME NEW m \in ToSet(nodes) PROVE m.id \in DOMAIN q.overlays[Source]
    BY <1>6, <1>9 DEF PostSource, PostPut
  <2> QED BY <1>1, <1>4, <1>6, <1>9 DEF PostPut, Put1, PostSource
<1>13. ASSUME NEW y PROVE y \in ShapesOf(q) <=> y \in ShapesOf(p) \/ y = BlockShape(0, node)
  <2>1. y \in ShapesOf(q) <=> \E n \in ToSet(nodes) : y = BlockShape(0, n)
    BY <1>6, <1>9 DEF ShapesOf, PostShapes, PostPut
  <2>2. y \in ShapesOf(p) <=> \E n \in ToSet(p.nodes) : y = BlockShape(0, n)
    BY DEF ShapesOf, PostShapes
  <2> QED BY <1>4, <2>1, <2>2
<1>14. \A k, a, v : SaysOf(placed, k, a, v) <=> SaysOf(p, k, a, v)
  BY <1>6 DEF SaysOf, PostSays
<1>15. \A k, v : ~SaysOf(p, k, node.id, v)
  BY <1>1, <1>3 DEF SaysOf, PostSays, PostDocument
<1>16. BlockShape(0, node).id = node.id
  BY ShapeIds
<1>17. ASSUME NEW k, NEW a, NEW v
       PROVE  SaysOf(q, k, a, v) <=> SaysOf(p, k, a, v) \/ (k = Source /\ a = BlockShape(0, node).id /\ v = value)
  <2>1. SaysOf(q, k, a, v) <=> IF k = Source /\ a = node.id THEN v = value ELSE SaysOf(placed, k, a, v)
    BY <1>11 DEF Given
  <2> QED BY <1>14, <1>15, <1>16, <2>1
<1> QED BY <1>9, <1>12, <1>13, <1>17 DEF Document, Inserted

\* A shape at another place.
LEMMA ShapeElsewhere ==
    /\ \A n, m, s : n.id = m.id /\ n.shared = m.shared => BlockShape(s, m) = At(BlockShape(s, n), BlockShape(s, m))
    /\ \A n, m : n.id = m.id /\ n.shared = m.shared => SectionShape(m) = At(SectionShape(n), SectionShape(m))
  BY DEF BlockShape, SectionShape, At

\* A block of a post at another place.
LEMMA RelocatedInPost ==
    ASSUME profile = "post", NEW p, Document(p), NEW n \in ToSet(p.nodes),
           NEW m \in Block, m.id = n.id, m.shared = n.shared,
           NEW nodes \in Seq(Block), DistinctIds(nodes), ToSet(nodes) = (ToSet(p.nodes) \ {n}) \cup {m},
           NEW q, q = WithLevel(p, 0, nodes)
    PROVE  Document(q) /\ Relocated(p, q, n.id, BlockShape(0, m))
<1>1. PostDocument(p) /\ PostSource(p) /\ p.nodes \in Seq(Block) /\ DistinctIds(p.nodes)
  BY DEF Document, PostDocument
<1>2. nodes \in Seq(Block) /\ ToSet(nodes) = (ToSet(p.nodes) \ {n}) \cup {m} /\ DistinctIds(nodes)
  OBVIOUS
<1>3. q = [p EXCEPT !.nodes = nodes]
  BY DEF WithLevel
<1>4. \A k \in ToSet(nodes) : k.id \in Uuid /\ k.shared.case \in RichKinds
  BY <1>1, <1>2 DEF PostDocument
<1>5. \A k \in ToSet(p.nodes) : \E j \in ToSet(nodes) : j.id = k.id /\ j.shared = k.shared
  BY <1>2
<1>a. Rearranged(p, nodes)
  BY <1>2, <1>4, <1>5 DEF Rearranged
<1>6. PostDocument(q) /\ q.nodes = nodes /\ q.overlays = p.overlays
  BY <1>1, <1>3, <1>a, PostRearranged
<1>7. PostSource(q)
  BY <1>1, <1>2, <1>6 DEF PostSource
<1>8. SameSays(p, q)
  BY <1>6 DEF SameSays, SaysOf, PostSays
<1>9. \A k \in ToSet(p.nodes) : k.id = n.id => k = n
  BY <1>1, DistinctIdsInjective
<1>10. BlockShape(0, m) = At(BlockShape(0, n), BlockShape(0, m))
  BY ShapeElsewhere
<1>11. ASSUME NEW y
       PROVE  y \in ShapesOf(q) <=> \/ y \in ShapesOf(p) /\ y.id # n.id
                                    \/ \E x \in ShapesOf(p) : x.id = n.id /\ y = At(x, BlockShape(0, m))
  <2>1. \A z : z \in ShapesOf(q) <=> \E k \in ToSet(nodes) : z = BlockShape(0, k)
    BY <1>6 DEF ShapesOf, PostShapes
  <2>2. \A z : z \in ShapesOf(p) <=> \E k \in ToSet(p.nodes) : z = BlockShape(0, k)
    BY DEF ShapesOf, PostShapes
  <2>3. (\E x \in ShapesOf(p) : x.id = n.id /\ y = At(x, BlockShape(0, m))) <=> y = BlockShape(0, m)
    BY <1>9, <1>10, <2>2, ShapeIds
  <2>4. (y \in ShapesOf(p) /\ y.id # n.id) <=> \E k \in ToSet(p.nodes) : k # n /\ y = BlockShape(0, k)
    BY <1>9, <2>2, ShapeIds
  <2> QED BY <1>2, <2>1, <2>3, <2>4
<1> QED BY <1>6, <1>7, <1>8, <1>11 DEF Document, Relocated

\* A document without the values of a section or block.
Cleared(p, section, id) == [p EXCEPT !.overlays = [l \in DOMAIN @ |-> WithoutValue(p, l, section, id).overlays[l]]]

\* A block of a post is deleted, with its values.
LEMMA RemovedInPost ==
    ASSUME profile = "post", NEW p, Document(p), NEW n \in ToSet(p.nodes),
           NEW nodes \in Seq(Block), DistinctIds(nodes), \A x : x \in ToSet(nodes) <=> x \in ToSet(p.nodes) /\ x.id # n.id,
           NEW left, left = WithLevel(p, 0, nodes),
           NEW q, q = Cleared(left, 0, n.id)
    PROVE  Document(q) /\ Removed(p, q, n.id)
<1> DEFINE f(l) == Without(p.overlays[l], n.id)
<1>1. PostDocument(p) /\ PostSource(p)
  BY DEF Document
<1>2. left = [nodes |-> nodes, overlays |-> p.overlays]
  BY <1>1 DEF WithLevel, PostDocument
<1>3. \A l \in Locales : WithoutValue(left, l, 0, n.id) = [nodes |-> nodes, overlays |-> [p.overlays EXCEPT ![l] = f(l)]]
  BY <1>2 DEF WithoutValue
<1>4. DOMAIN p.overlays = Locales
  BY <1>1 DEF PostDocument
<1> HIDE DEF f
<1>5. \A l \in Locales : WithoutValue(left, l, 0, n.id).overlays[l] = f(l)
  <2> SUFFICES ASSUME NEW l \in Locales PROVE WithoutValue(left, l, 0, n.id).overlays[l] = f(l)
    OBVIOUS
  <2>1. WithoutValue(left, l, 0, n.id) = [nodes |-> nodes, overlays |-> [p.overlays EXCEPT ![l] = f(l)]]
    BY <1>3
  <2> QED BY <1>4, <2>1
<1>6. q = [nodes |-> nodes, overlays |-> [l \in Locales |-> WithoutValue(left, l, 0, n.id).overlays[l]]]
  BY <1>2, <1>4 DEF Cleared
<1>7. \A l \in Locales : f(l) \in BlockValues /\ Left1(p.overlays[l], f(l), n.id)
  BY <1>1, WithBlockValue DEF PostDocument, f
<1>8. q.nodes = nodes /\ DOMAIN q.overlays = Locales /\ q.overlays = [l \in Locales |-> q.overlays[l]]
      /\ \A l \in Locales : q.overlays[l] = f(l)
  BY <1>5, <1>6
<1>9. \A l \in Locales : \A id : id \in DOMAIN q.overlays[l] <=> id \in DOMAIN p.overlays[l] /\ id # n.id
  BY <1>7, <1>8 DEF Left1
<1>10. \A l \in Locales : \A id \in DOMAIN q.overlays[l] : q.overlays[l][id] = p.overlays[l][id]
  <2> SUFFICES ASSUME NEW l \in Locales, NEW id \in DOMAIN q.overlays[l] PROVE q.overlays[l][id] = p.overlays[l][id]
    OBVIOUS
  <2>1. q.overlays[l] = f(l) /\ Left1(p.overlays[l], f(l), n.id)
    BY <1>7, <1>8
  <2>2. id \in DOMAIN f(l)
    BY <2>1
  <2> QED BY <2>1, <2>2 DEF Left1
<1>11. PostDocument(q)
  <2>1. q = [nodes |-> q.nodes, overlays |-> q.overlays]
    BY <1>6
  <2>2. q.overlays \in [Locales -> BlockValues]
    BY <1>7, <1>8
  <2>3. ASSUME NEW l \in Locales, NEW id \in DOMAIN q.overlays[l]
        PROVE  \E m \in ToSet(q.nodes) : m.id = id /\ q.overlays[l][id].case = m.shared.case
    <3>1. id \in DOMAIN p.overlays[l] /\ id # n.id /\ q.overlays[l][id] = p.overlays[l][id]
      BY <1>9, <1>10
    <3>2. PICK m \in ToSet(p.nodes) : m.id = id /\ p.overlays[l][id].case = m.shared.case
      BY <1>1, <3>1 DEF PostDocument
    <3> QED BY <1>8, <3>1, <3>2
  <2>4. \A m \in ToSet(q.nodes) : m.id \in Uuid /\ m.shared.case \in RichKinds
    BY <1>1, <1>8 DEF PostDocument
  <2> QED BY <1>8, <2>1, <2>2, <2>3, <2>4 DEF PostDocument
<1>12. PostSource(q)
  BY <1>1, <1>8, <1>9 DEF PostSource, Locales
<1>13. ASSUME NEW y PROVE y \in ShapesOf(q) <=> y \in ShapesOf(p) /\ y.id # n.id
  <2>1. y \in ShapesOf(q) <=> \E k \in ToSet(nodes) : y = BlockShape(0, k)
    BY <1>8 DEF ShapesOf, PostShapes
  <2>2. y \in ShapesOf(p) <=> \E k \in ToSet(p.nodes) : y = BlockShape(0, k)
    BY DEF ShapesOf, PostShapes
  <2> QED BY <2>1, <2>2, ShapeIds
<1>14. ASSUME NEW k, NEW a, NEW v PROVE SaysOf(q, k, a, v) <=> SaysOf(p, k, a, v) /\ a # n.id
  BY <1>9, <1>10 DEF SaysOf, PostSays
<1> QED BY <1>11, <1>12, <1>13, <1>14 DEF Document, Removed

(***************************************************************************)
(* A page with other sections, or other blocks in one of them.             *)
(***************************************************************************)
WithBlocks(n, blocks) == [n EXCEPT !.blocks = blocks]

\* The page whose section n has other blocks.
LEMMA BlocksReplaced ==
    ASSUME profile = "page", NEW p, PageDocument(p), NEW n \in ToSet(p.nodes), NEW blocks \in Seq(Block),
           NEW m, m = WithBlocks(n, blocks)
    PROVE  /\ WithLevel(p, n.id, blocks) = [nodes |-> Swapped(p.nodes, n, m), overlays |-> p.overlays]
           /\ m \in Node /\ m.id = n.id /\ m.shared = n.shared /\ m.blocks = blocks
           /\ SectionShape(m) = SectionShape(n)
<1>1. n.id \in Uuid /\ n \in Node
  BY DEF PageDocument, SectionFits
<1>2. n.id # 0
  BY <1>1, UuidAssumption
<1> DEFINE k == Rank(p, n.id)
           q == WithLevel(p, n.id, blocks)
<1>0. m = [n EXCEPT !.blocks = blocks]
  BY DEF WithBlocks
<1>3. k \in DOMAIN p.nodes /\ p.nodes[k] = n /\ \A i \in DOMAIN p.nodes : p.nodes[i].id = n.id <=> i = k
  BY RankOf DEF PageDocument
<1>4. q = [p EXCEPT !.nodes[k].blocks = blocks]
  BY <1>2 DEF WithLevel
<1> HIDE DEF k, q
<1>5. p = [nodes |-> p.nodes, overlays |-> p.overlays] /\ p.nodes \in Seq(Node)
  BY DEF PageDocument, Page
<1>6. q = [nodes |-> [p.nodes EXCEPT ![k] = m], overlays |-> p.overlays]
  BY <1>0, <1>3, <1>4, <1>5
<1>7. p.nodes = [i \in DOMAIN p.nodes |-> p.nodes[i]]
  BY <1>5
<1>8. [p.nodes EXCEPT ![k] = m] = Swapped(p.nodes, n, m)
  BY <1>3, <1>7 DEF Swapped
<1>9. m \in Node /\ m.id = n.id /\ m.shared = n.shared /\ m.blocks = blocks
      /\ m.parent = n.parent /\ m.column = n.column /\ m.index = n.index
  BY <1>0, <1>1 DEF Node
<1>10. SectionShape(m) = SectionShape(n)
  BY <1>9 DEF SectionShape
<1> QED BY <1>6, <1>8, <1>9, <1>10 DEF q

\* A section that another has the name and the blocks of.
SameSection(n, m) ==
    /\ m.id = n.id /\ m.shared = n.shared
    /\ \A b \in ToSet(n.blocks) : \E c \in ToSet(m.blocks) : c.id = b.id /\ c.shared = b.shared

\* Sections and blocks with the ids of a page, and what they are.
PageArranged(p, nodes) ==
    /\ nodes \in Seq(Node) /\ DistinctIds(nodes) /\ Apart(ToSet(nodes))
    /\ \A n \in ToSet(nodes) : SectionFits(n)
    /\ \A n \in ToSet(p.nodes) : \E m \in ToSet(nodes) : SameSection(n, m)

\* A value of a section fits the section when it is arranged.
LEMMA FitsArranged ==
    ASSUME NEW n, NEW m, SameSection(n, m), NEW v, ValueFits(n, v)
    PROVE  ValueFits(m, v)
<1>1. v.case = m.shared.case
  BY DEF SameSection, ValueFits
<1>2. ASSUME NEW id \in DOMAIN v.blocks
      PROVE  \E c \in ToSet(m.blocks) : c.id = id /\ v.blocks[id].case = c.shared.case
  <2>1. PICK b \in ToSet(n.blocks) : b.id = id /\ v.blocks[id].case = b.shared.case
    BY DEF ValueFits
  <2> QED BY <2>1 DEF SameSection
<1> QED BY <1>1, <1>2 DEF ValueFits

\* A page with other sections of the same names and kinds.
LEMMA PageRearranged ==
    ASSUME NEW p, PageDocument(p), NEW nodes, PageArranged(p, nodes),
           NEW q, q = [nodes |-> nodes, overlays |-> p.overlays]
    PROVE  PageDocument(q) /\ q.nodes = nodes /\ q.overlays = p.overlays
<1>1. q.nodes = nodes /\ q.overlays = p.overlays
  OBVIOUS
<1>2. ASSUME NEW l \in Locales, NEW id \in DOMAIN p.overlays[l]
      PROVE  \E m \in ToSet(nodes) : m.id = id /\ ValueFits(m, p.overlays[l][id])
  <2>1. PICK n \in ToSet(p.nodes) : n.id = id /\ ValueFits(n, p.overlays[l][id])
    BY DEF PageDocument
  <2>2. PICK m \in ToSet(nodes) : SameSection(n, m)
    BY DEF PageArranged
  <2> QED BY <2>1, <2>2, FitsArranged DEF SameSection
<1>3. q \in Page
  BY DEF PageDocument, Page, PageArranged
<1> QED BY <1>1, <1>2, <1>3 DEF PageDocument, PageArranged

\* The shapes of a section and its blocks.
InSection(n, y) == y = SectionShape(n) \/ \E b \in ToSet(n.blocks) : y = BlockShape(n.id, b)

\* The shapes of a page by its sections.
LEMMA PageShapesIn ==
    ASSUME profile = "page", NEW p
    PROVE  \A y : y \in ShapesOf(p) <=> \E n \in ToSet(p.nodes) : InSection(n, y)
<1>1. ShapesOf(p) = PageShapes(p)
  BY DEF ShapesOf
<1> SUFFICES ASSUME NEW y PROVE y \in PageShapes(p) <=> \E n \in ToSet(p.nodes) : InSection(n, y)
  BY <1>1
<1>2. y \in PageShapes(p) <=>
        \E n \in ToSet(p.nodes) : y = SectionShape(n) \/ \E b \in ToSet(n.blocks) : y = BlockShape(n.id, b)
  BY ShapesElements
<1> QED BY <1>2 DEF InSection

\* No shape of another section has the id of a section or of one of its blocks.
LEMMA ShapesApart ==
    ASSUME NEW p, PageDocument(p), NEW n \in ToSet(p.nodes), NEW k \in ToSet(p.nodes), k # n, NEW y, InSection(k, y)
    PROVE  y.id # n.id /\ \A b \in ToSet(n.blocks) : y.id # b.id
<1>1. k.id # n.id
  BY DistinctIdsInjective DEF PageDocument, Page
<1>2. CASE y = SectionShape(k)
  BY <1>1, <1>2, ShapeIds DEF PageDocument, Apart
<1>3. ASSUME NEW c \in ToSet(k.blocks), y = BlockShape(k.id, c)
      PROVE  y.id # n.id /\ \A b \in ToSet(n.blocks) : y.id # b.id
  <2>1. y.id = c.id
    BY <1>3, ShapeIds
  <2> QED BY <2>1 DEF PageDocument, Apart
<1> QED BY <1>2, <1>3 DEF InSection

\* Of the shapes of a section and its blocks only the section's has its id.
LEMMA ShapesWithin ==
    ASSUME NEW p, PageDocument(p), NEW n \in ToSet(p.nodes)
    PROVE  /\ \A y : InSection(n, y) /\ y.id = n.id => y = SectionShape(n)
           /\ \A b \in ToSet(n.blocks) : \A y : InSection(n, y) /\ y.id = b.id => y = BlockShape(n.id, b)
<1>1. \A b \in ToSet(n.blocks) : b.id # n.id
  BY DEF PageDocument, Apart
<1>2. n.blocks \in Seq(Block) /\ DistinctIds(n.blocks)
  BY DEF PageDocument, SectionFits, Node
<1>3. \A b, c \in ToSet(n.blocks) : b.id = c.id => b = c
  BY <1>2, DistinctIdsInjective
<1> QED BY <1>1, <1>3, ShapeIds DEF InSection

\* Sections of ids of their own stay apart with one replaced that has no ids of the others.
LEMMA ApartReplaced ==
    ASSUME NEW N, Apart(N), NEW n \in N, NEW m, m.id = n.id,
           \A b \in ToSet(m.blocks) :
              \/ \E c \in ToSet(n.blocks) : c.id = b.id
              \/ \A k \in N : b.id # k.id /\ \A c \in ToSet(k.blocks) : b.id # c.id
    PROVE  Apart((N \ {n}) \cup {m})
<1> SUFFICES ASSUME NEW x \in (N \ {n}) \cup {m}, NEW y \in (N \ {n}) \cup {m}, NEW b \in ToSet(x.blocks)
             PROVE  b.id # y.id /\ \A c \in ToSet(y.blocks) : b.id = c.id => x = y
  BY DEF Apart
<1>1. \A k \in N \ {n} : \A c \in ToSet(k.blocks) : c.id # m.id /\ \A d \in ToSet(m.blocks) : c.id # d.id
  <2> SUFFICES ASSUME NEW k \in N \ {n}, NEW c \in ToSet(k.blocks), NEW d \in ToSet(m.blocks)
               PROVE  c.id # m.id /\ c.id # d.id
    BY DEF Apart
  <2> QED BY DEF Apart
<1>2. \A k \in N : \A d \in ToSet(m.blocks) : d.id # k.id
  BY DEF Apart
<1> QED BY <1>1, <1>2 DEF Apart

\* The facts of a page that its edits need.
LEMMA PageFacts ==
    ASSUME NEW p, PageDocument(p)
    PROVE  /\ p.nodes \in Seq(Node) /\ DistinctIds(p.nodes) /\ Apart(ToSet(p.nodes))
           /\ \A n, k \in ToSet(p.nodes) : n.id = k.id => n = k
           /\ \A n \in ToSet(p.nodes) :
                 /\ n \in Node /\ n.id \in Uuid /\ n.id # 0 /\ SectionFits(n)
                 /\ n.blocks \in Seq(Block) /\ DistinctIds(n.blocks)
                 /\ \A b, c \in ToSet(n.blocks) : b.id = c.id => b = c
                 /\ \A b \in ToSet(n.blocks) : b \in Block /\ b.id \in Uuid
<1>1. p.nodes \in Seq(Node) /\ DistinctIds(p.nodes) /\ Apart(ToSet(p.nodes))
      /\ \A n \in ToSet(p.nodes) : SectionFits(n)
  BY DEF PageDocument, Page
<1>2. \A n, k \in ToSet(p.nodes) : n.id = k.id => n = k
  BY <1>1, DistinctIdsInjective
<1>3. ASSUME NEW n \in ToSet(p.nodes)
      PROVE  /\ n \in Node /\ n.id \in Uuid /\ n.id # 0
             /\ n.blocks \in Seq(Block) /\ DistinctIds(n.blocks)
             /\ \A b, c \in ToSet(n.blocks) : b.id = c.id => b = c
             /\ \A b \in ToSet(n.blocks) : b \in Block /\ b.id \in Uuid
  <2>1. n \in Node /\ n.id \in Uuid /\ n.blocks \in Seq(Block) /\ DistinctIds(n.blocks)
        /\ \A b \in ToSet(n.blocks) : b.id \in Uuid
    BY <1>1 DEF SectionFits, Node
  <2>2. ToSet(n.blocks) \subseteq Block
    BY <2>1, SequenceElements
  <2>3. \A b, c \in ToSet(n.blocks) : b.id = c.id => b = c
    BY <2>1, DistinctIdsInjective
  <2>4. n.id # 0
    BY <2>1, UuidAssumption
  <2> QED BY <2>1, <2>2, <2>3, <2>4
<1> QED BY <1>1, <1>2, <1>3

\* What is not in a page has none of its ids.
LEMMA OutsidePage ==
    ASSUME profile = "page", NEW p, PageDocument(p), NEW id, id \notin AllIds(p)
    PROVE  \A n \in ToSet(p.nodes) : n.id # id /\ \A b \in ToSet(n.blocks) : b.id # id
<1>1. ~\E x \in ShapesOf(p) : x.id = id
  BY IdsOfDocument
<1> SUFFICES ASSUME NEW n \in ToSet(p.nodes) PROVE n.id # id /\ \A b \in ToSet(n.blocks) : b.id # id
  OBVIOUS
<1>2. \A y : InSection(n, y) => y \in ShapesOf(p)
  BY PageShapesIn
<1>3. SectionShape(n) \in ShapesOf(p) /\ \A b \in ToSet(n.blocks) : BlockShape(n.id, b) \in ShapesOf(p)
  BY <1>2 DEF InSection
<1> QED BY <1>1, <1>3, ShapeIds

\* A page with a new section and no value of it yet.
LEMMA SectionPlaced1 ==
    ASSUME profile = "page", NEW p, PageDocument(p), NEW node \in Node, node.id \in Uuid, node.blocks = <<>>,
           node.id \notin AllIds(p), NEW q, q = WithLevel(p, 0, Append(Level(p, 0), node))
    PROVE  /\ PageDocument(q) /\ q.overlays = p.overlays /\ ToSet(q.nodes) = ToSet(p.nodes) \cup {node}
           /\ \A y : y \in ShapesOf(q) <=> y \in ShapesOf(p) \/ y = SectionShape(node)
<1> DEFINE nodes == Append(p.nodes, node)
<1>1. p.nodes \in Seq(Node) /\ DistinctIds(p.nodes)
  BY PageFacts
<1>2. \A n \in ToSet(p.nodes) : n.id # node.id /\ \A b \in ToSet(n.blocks) : b.id # node.id
  BY OutsidePage
<1>3. nodes \in Seq(Node) /\ ToSet(nodes) = ToSet(p.nodes) \cup {node} /\ DistinctIds(nodes)
  BY <1>1, <1>2, Appended
<1>4. q = [nodes |-> nodes, overlays |-> p.overlays]
  BY DEF WithLevel, Level, PageDocument, Page
<1> HIDE DEF nodes
<1>5. ToSet(node.blocks) = {}
  BY DEF ToSet
<1>6. Apart(ToSet(nodes))
  BY <1>2, <1>3, <1>5, PageFacts DEF Apart
<1>7. SectionFits(node)
  BY <1>5 DEF SectionFits, DistinctIds
<1>8. \A n : SameSection(n, n)
  BY DEF SameSection
<1>9. PageArranged(p, nodes)
  BY <1>3, <1>6, <1>7, <1>8, PageFacts DEF PageArranged
<1>10. PageDocument(q) /\ q.nodes = nodes /\ q.overlays = p.overlays
  BY <1>4, <1>9, PageRearranged
<1>11. \A y : InSection(node, y) <=> y = SectionShape(node)
  BY <1>5 DEF InSection
<1>12. \A y : y \in ShapesOf(q) <=> y \in ShapesOf(p) \/ y = SectionShape(node)
  <2>1. \A y : y \in ShapesOf(q) <=> \E n \in ToSet(nodes) : InSection(n, y)
    BY <1>10, PageShapesIn
  <2>2. \A y : y \in ShapesOf(p) <=> \E n \in ToSet(p.nodes) : InSection(n, y)
    BY PageShapesIn
  <2> QED BY <1>3, <1>11, <2>1, <2>2
<1> QED BY <1>3, <1>10, <1>12

\* A section of a page in the place of one of its name, with blocks of this section or new ones.
Instead(p, n, m) ==
    /\ m \in Node /\ m.id = n.id /\ SameSection(n, m) /\ SectionFits(m)
    /\ \A b \in ToSet(m.blocks) :
          (\E c \in ToSet(n.blocks) : c.id = b.id) \/ b.id \notin AllIds(p)

\* A page with another section in the place of one.
LEMMA SectionInstead ==
    ASSUME profile = "page", NEW p, PageDocument(p), NEW n \in ToSet(p.nodes), NEW m, Instead(p, n, m),
           NEW q, q = [nodes |-> Swapped(p.nodes, n, m), overlays |-> p.overlays]
    PROVE  /\ PageDocument(q) /\ q.overlays = p.overlays /\ ToSet(q.nodes) = (ToSet(p.nodes) \ {n}) \cup {m}
           /\ \A y : y \in ShapesOf(q) <=> (\E k \in ToSet(p.nodes) : k # n /\ InSection(k, y)) \/ InSection(m, y)
<1>1. p.nodes \in Seq(Node) /\ DistinctIds(p.nodes) /\ m \in Node /\ m.id = n.id
  BY PageFacts DEF Instead
<1> DEFINE nodes == Swapped(p.nodes, n, m)
<1>2. nodes \in Seq(Node) /\ ToSet(nodes) = (ToSet(p.nodes) \ {n}) \cup {m} /\ DistinctIds(nodes)
  BY <1>1, Replaced
<1>3. q = [nodes |-> nodes, overlays |-> p.overlays]
  OBVIOUS
<1> HIDE DEF nodes
<1>4. Apart(ToSet(nodes))
  <2>1. ASSUME NEW b \in ToSet(m.blocks)
        PROVE  \/ \E c \in ToSet(n.blocks) : c.id = b.id
               \/ \A k \in ToSet(p.nodes) : b.id # k.id /\ \A c \in ToSet(k.blocks) : b.id # c.id
    <3>1. CASE b.id \notin AllIds(p)
      BY <3>1, OutsidePage
    <3> QED BY <3>1 DEF Instead
  <2> QED BY <1>1, <1>2, <2>1, ApartReplaced, PageFacts
<1>5. \A k : SameSection(k, k)
  BY DEF SameSection
<1>6. PageArranged(p, nodes)
  <2>1. \A k \in ToSet(nodes) : SectionFits(k)
    BY <1>2, PageFacts DEF Instead
  <2>2. \A k \in ToSet(p.nodes) : \E j \in ToSet(nodes) : SameSection(k, j)
    BY <1>2, <1>5 DEF Instead
  <2> QED BY <1>2, <1>4, <2>1, <2>2 DEF PageArranged
<1>7. PageDocument(q) /\ q.nodes = nodes /\ q.overlays = p.overlays
  BY <1>3, <1>6, PageRearranged
<1>8. \A y : y \in ShapesOf(q) <=> \E k \in ToSet(nodes) : InSection(k, y)
  BY <1>7, PageShapesIn
<1> QED BY <1>2, <1>7, <1>8

\* A page with a new block and no value of it yet.
LEMMA BlockPlaced1 ==
    ASSUME profile = "page", NEW p, PageDocument(p), NEW n \in ToSet(p.nodes), HasBlocks(n),
           NEW node \in Block, node.id \in Uuid, node.id \notin AllIds(p),
           NEW q, q = WithLevel(p, n.id, Append(Level(p, n.id), node)),
           NEW m, m = WithBlocks(n, Append(n.blocks, node))
    PROVE  /\ PageDocument(q) /\ q.overlays = p.overlays /\ ToSet(q.nodes) = (ToSet(p.nodes) \ {n}) \cup {m}
           /\ m.id = n.id /\ m.shared = n.shared /\ ToSet(m.blocks) = ToSet(n.blocks) \cup {node}
           /\ \A y : y \in ShapesOf(q) <=> y \in ShapesOf(p) \/ y = BlockShape(n.id, node)
<1> DEFINE blocks == Append(n.blocks, node)
<1>1. n.blocks \in Seq(Block) /\ DistinctIds(n.blocks) /\ n.id \in Uuid /\ n.id # 0 /\ SectionFits(n)
      /\ \A b \in ToSet(n.blocks) : b.id \in Uuid
  BY PageFacts
<1>2. Level(p, n.id) = n.blocks
  BY <1>1, RankOf DEF Level, PageDocument
<1>3. \A b \in ToSet(n.blocks) : b.id # node.id
  BY OutsidePage
<1>4. blocks \in Seq(Block) /\ ToSet(blocks) = ToSet(n.blocks) \cup {node} /\ DistinctIds(blocks)
  BY <1>1, <1>3, Appended
<1>5. q = WithLevel(p, n.id, blocks) /\ m = WithBlocks(n, blocks)
  BY <1>2
<1> HIDE DEF blocks
<1>6. /\ q = [nodes |-> Swapped(p.nodes, n, m), overlays |-> p.overlays]
      /\ m \in Node /\ m.id = n.id /\ m.shared = n.shared /\ m.blocks = blocks /\ SectionShape(m) = SectionShape(n)
  BY <1>4, <1>5, BlocksReplaced
<1>7. Instead(p, n, m)
  <2>1. SameSection(n, m)
    BY <1>4, <1>6 DEF SameSection
  <2>2. SectionFits(m)
    BY <1>1, <1>4, <1>6 DEF SectionFits, HasBlocks
  <2> QED BY <1>4, <1>6, <2>1, <2>2 DEF Instead
<1>8. /\ PageDocument(q) /\ q.overlays = p.overlays /\ ToSet(q.nodes) = (ToSet(p.nodes) \ {n}) \cup {m}
      /\ \A y : y \in ShapesOf(q) <=> (\E k \in ToSet(p.nodes) : k # n /\ InSection(k, y)) \/ InSection(m, y)
  BY <1>6, <1>7, SectionInstead
<1>9. \A y : InSection(m, y) <=> InSection(n, y) \/ y = BlockShape(n.id, node)
  BY <1>4, <1>6 DEF InSection
<1>10. \A y : y \in ShapesOf(p) <=> \E k \in ToSet(p.nodes) : InSection(k, y)
  BY PageShapesIn
<1> QED BY <1>4, <1>6, <1>8, <1>9, <1>10

\* Where the shape id is, in the shapes that are left of p with it at another place.
ShapeMoved(p, q, id, place) ==
    \A y : y \in ShapesOf(q) <=> \/ y \in ShapesOf(p) /\ y.id # id
                                 \/ \E x \in ShapesOf(p) : x.id = id /\ y = At(x, place)

\* A page with a section at another place.
LEMMA SectionMoved ==
    ASSUME profile = "page", NEW p, PageDocument(p), NEW n \in ToSet(p.nodes),
           NEW m \in Node, m.id = n.id, m.shared = n.shared, m.blocks = n.blocks,
           NEW q, q = WithLevel(p, 0, Swapped(p.nodes, n, m))
    PROVE  /\ PageDocument(q) /\ q.overlays = p.overlays /\ ToSet(q.nodes) = (ToSet(p.nodes) \ {n}) \cup {m}
           /\ ShapeMoved(p, q, n.id, SectionShape(m))
<1>1. SectionFits(n)
  BY PageFacts
<1>2. Instead(p, n, m)
  <2>1. SameSection(n, m)
    BY DEF SameSection
  <2>2. SectionFits(m)
    BY <1>1 DEF SectionFits, HasBlocks
  <2> QED BY <2>1, <2>2 DEF Instead
<1>3. q = [nodes |-> Swapped(p.nodes, n, m), overlays |-> p.overlays]
  BY DEF WithLevel, PageDocument, Page
<1>4. /\ PageDocument(q) /\ q.overlays = p.overlays /\ ToSet(q.nodes) = (ToSet(p.nodes) \ {n}) \cup {m}
      /\ \A y : y \in ShapesOf(q) <=> (\E k \in ToSet(p.nodes) : k # n /\ InSection(k, y)) \/ InSection(m, y)
  BY <1>2, <1>3, SectionInstead
<1>5. \A y : y \in ShapesOf(p) <=> \E k \in ToSet(p.nodes) : InSection(k, y)
  BY PageShapesIn
<1>6. SectionShape(m) = At(SectionShape(n), SectionShape(m))
  BY ShapeElsewhere
<1>7. \A b \in ToSet(n.blocks) : b.id # n.id
  BY PageFacts DEF Apart
<1>8. \A y : InSection(m, y) <=> y = SectionShape(m) \/ (InSection(n, y) /\ y.id # n.id)
  BY <1>7, ShapeIds DEF InSection
<1>9. \A x : (x \in ShapesOf(p) /\ x.id = n.id) <=> x = SectionShape(n)
  <2>1. ASSUME NEW x, x \in ShapesOf(p), x.id = n.id PROVE x = SectionShape(n)
    <3>1. PICK k \in ToSet(p.nodes) : InSection(k, x)
      BY <1>5, <2>1
    <3>2. k = n
      BY <2>1, <3>1, ShapesApart
    <3> QED BY <2>1, <3>1, <3>2, ShapesWithin
  <2> QED BY <1>5, <2>1, ShapeIds DEF InSection
<1>10. \A k \in ToSet(p.nodes) : k # n => \A y : InSection(k, y) => y.id # n.id
  BY ShapesApart
<1>11. \A y : (y \in ShapesOf(p) /\ y.id # n.id)
               <=> (\E k \in ToSet(p.nodes) : k # n /\ InSection(k, y)) \/ (InSection(n, y) /\ y.id # n.id)
  BY <1>5, <1>10
<1>12. ShapeMoved(p, q, n.id, SectionShape(m))
  BY <1>4, <1>6, <1>8, <1>9, <1>11 DEF ShapeMoved
<1> QED BY <1>4, <1>12

\* A page with a block at another place in its section.
LEMMA BlockMoved ==
    ASSUME profile = "page", NEW p, PageDocument(p), NEW n \in ToSet(p.nodes), NEW b \in ToSet(n.blocks),
           NEW c \in Block, c.id = b.id, c.shared = b.shared,
           NEW q, q = WithLevel(p, n.id, Swapped(n.blocks, b, c)),
           NEW m, m = WithBlocks(n, Swapped(n.blocks, b, c))
    PROVE  /\ PageDocument(q) /\ q.overlays = p.overlays /\ ToSet(q.nodes) = (ToSet(p.nodes) \ {n}) \cup {m}
           /\ m.id = n.id /\ m.shared = n.shared /\ ToSet(m.blocks) = (ToSet(n.blocks) \ {b}) \cup {c}
           /\ ShapeMoved(p, q, b.id, BlockShape(n.id, c))
<1> DEFINE blocks == Swapped(n.blocks, b, c)
<1>1. /\ n.blocks \in Seq(Block) /\ DistinctIds(n.blocks) /\ n.id \in Uuid /\ n.id # 0 /\ SectionFits(n)
      /\ \A x, y \in ToSet(n.blocks) : x.id = y.id => x = y
      /\ \A x \in ToSet(n.blocks) : x.id \in Uuid
  BY PageFacts
<1>2. blocks \in Seq(Block) /\ ToSet(blocks) = (ToSet(n.blocks) \ {b}) \cup {c} /\ DistinctIds(blocks)
  BY <1>1, Replaced
<1> HIDE DEF blocks
<1>3. q = WithLevel(p, n.id, blocks) /\ m = WithBlocks(n, blocks)
  BY DEF blocks
<1>4. /\ q = [nodes |-> Swapped(p.nodes, n, m), overlays |-> p.overlays]
      /\ m \in Node /\ m.id = n.id /\ m.shared = n.shared /\ m.blocks = blocks /\ SectionShape(m) = SectionShape(n)
  BY <1>2, <1>3, BlocksReplaced
<1>5. n.blocks # <<>>
  BY <1>1, SequenceElements
<1>6. Instead(p, n, m)
  <2>1. SameSection(n, m)
    BY <1>2, <1>4 DEF SameSection
  <2>2. SectionFits(m)
    BY <1>1, <1>2, <1>4, <1>5 DEF SectionFits, HasBlocks
  <2> QED BY <1>2, <1>4, <2>1, <2>2 DEF Instead
<1>7. /\ PageDocument(q) /\ q.overlays = p.overlays /\ ToSet(q.nodes) = (ToSet(p.nodes) \ {n}) \cup {m}
      /\ \A y : y \in ShapesOf(q) <=> (\E k \in ToSet(p.nodes) : k # n /\ InSection(k, y)) \/ InSection(m, y)
  BY <1>4, <1>6, SectionInstead
<1>8. \A y : y \in ShapesOf(p) <=> \E k \in ToSet(p.nodes) : InSection(k, y)
  BY PageShapesIn
<1>9. BlockShape(n.id, c) = At(BlockShape(n.id, b), BlockShape(n.id, c))
  BY ShapeElsewhere
<1>10. \A y : InSection(m, y) <=> y = BlockShape(n.id, c) \/ (InSection(n, y) /\ y.id # b.id)
  <2>1. \A x \in ToSet(n.blocks) : x # b => x.id # b.id
    BY <1>1
  <2>2. n.id # b.id
    BY PageFacts DEF Apart
  <2> QED BY <1>2, <1>4, <2>1, <2>2, ShapeIds DEF InSection
<1>11. \A x : (x \in ShapesOf(p) /\ x.id = b.id) <=> x = BlockShape(n.id, b)
  <2>1. ASSUME NEW x, x \in ShapesOf(p), x.id = b.id PROVE x = BlockShape(n.id, b)
    <3>1. PICK k \in ToSet(p.nodes) : InSection(k, x)
      BY <1>8, <2>1
    <3>2. k = n
      BY <2>1, <3>1, ShapesApart
    <3> QED BY <2>1, <3>1, <3>2, ShapesWithin
  <2> QED BY <1>8, <2>1, ShapeIds DEF InSection
<1>12. \A k \in ToSet(p.nodes) : k # n => \A y : InSection(k, y) => y.id # b.id
  BY ShapesApart
<1>13. \A y : (y \in ShapesOf(p) /\ y.id # b.id)
               <=> (\E k \in ToSet(p.nodes) : k # n /\ InSection(k, y)) \/ (InSection(n, y) /\ y.id # b.id)
  BY <1>8, <1>12
<1>14. ShapeMoved(p, q, b.id, BlockShape(n.id, c))
  BY <1>7, <1>9, <1>10, <1>11, <1>13 DEF ShapeMoved
<1> QED BY <1>2, <1>4, <1>7, <1>14

(***************************************************************************)
(* What the values of a locale say, section by section.                    *)
(***************************************************************************)
Holds(w, s, id, v) ==
    \/ id = s /\ v = [case |-> w.case, text |-> w.text]
    \/ id \in DOMAIN w.blocks /\ v = w.blocks[id]
EntrySays(f, s, id, v) == s \in DOMAIN f /\ Holds(f[s], s, id, v)

\* What a page says is what its sections' entries say.
LEMMA SaysByEntry ==
    ASSUME profile = "page", NEW p
    PROVE  \A l, id, v : SaysOf(p, l, id, v) <=> l \in Locales /\ Says(l, v) /\ \E s : EntrySays(p.overlays[l], s, id, v)
<1> SUFFICES ASSUME NEW l, NEW id, NEW v
             PROVE  PageSays(p, l, id, v) <=> l \in Locales /\ Says(l, v) /\ \E s : EntrySays(p.overlays[l], s, id, v)
  BY DEF SaysOf
<1> QED BY DEF PageSays, EntrySays, Holds

\* An entry is of a section of the page, and of this section or one of its blocks.
LEMMA EntryOf ==
    ASSUME NEW p, PageDocument(p), NEW l \in Locales, NEW s, NEW id, NEW v, EntrySays(p.overlays[l], s, id, v)
    PROVE  \E n \in ToSet(p.nodes) : n.id = s /\ (id = s \/ \E b \in ToSet(n.blocks) : b.id = id)
<1>1. PICK n \in ToSet(p.nodes) : n.id = s /\ ValueFits(n, p.overlays[l][s])
  BY DEF PageDocument, EntrySays
<1> QED BY <1>1 DEF ValueFits, EntrySays, Holds

\* What is said of a section, or of a block of it, is said in its own entry.
LEMMA EntryOwner ==
    ASSUME NEW p, PageDocument(p), NEW l \in Locales, NEW n \in ToSet(p.nodes),
           NEW s, NEW id, NEW v, EntrySays(p.overlays[l], s, id, v),
           id = n.id \/ \E b \in ToSet(n.blocks) : b.id = id
    PROVE  s = n.id
<1>1. PICK k \in ToSet(p.nodes) : k.id = s /\ (id = s \/ \E b \in ToSet(k.blocks) : b.id = id)
  BY EntryOf
<1>2. Apart(ToSet(p.nodes)) /\ \A x, y \in ToSet(p.nodes) : x.id = y.id => x = y
  BY PageFacts
<1> QED BY <1>1, <1>2 DEF Apart

(***************************************************************************)
(* Values of a page.                                                       *)
(***************************************************************************)

\* The entry of a section in a locale is w; the other entries stay.
PagePut(p, q, l, s, w) ==
    /\ q.nodes = p.nodes
    /\ Put1(p.overlays[l], q.overlays[l], s, w)
    /\ \A k \in Locales : k # l => q.overlays[k] = p.overlays[k]

\* The overlays of a page, by locale.
LEMMA PageOverlays ==
    ASSUME NEW p, PageDocument(p)
    PROVE  /\ p = [nodes |-> p.nodes, overlays |-> p.overlays]
           /\ p.overlays = [l \in Locales |-> p.overlays[l]]
           /\ \A l \in Locales : p.overlays[l] \in PageValues
<1>1. p \in Page /\ DOMAIN p.overlays = Locales
  BY DEF PageDocument
<1>2. p = [nodes |-> p.nodes, overlays |-> p.overlays] /\ p.overlays \in PartialFunctions(Locales, PageValues)
  BY <1>1 DEF Page
<1>3. p.overlays = [l \in DOMAIN p.overlays |-> p.overlays[l]] /\ \A l \in DOMAIN p.overlays : p.overlays[l] \in PageValues
  BY <1>2, PartialFunctionOf
<1> QED BY <1>1, <1>2, <1>3

\* A page with other values, that fit its sections.
LEMMA PageRevalued ==
    ASSUME NEW p, PageDocument(p), NEW overlays, NEW q, q = [nodes |-> p.nodes, overlays |-> overlays],
           overlays = [l \in Locales |-> overlays[l]],
           \A l \in Locales : overlays[l] \in PageValues,
           \A l \in Locales : \A id \in DOMAIN overlays[l] :
              \E n \in ToSet(p.nodes) : n.id = id /\ ValueFits(n, overlays[l][id])
    PROVE  PageDocument(q)
<1>1. q.nodes = p.nodes /\ q.overlays = overlays /\ DOMAIN overlays = Locales
  OBVIOUS
<1>2. overlays \in PartialFunctions(Locales, PageValues)
  BY <1>1, PartialFunctionOf
<1>3. q \in Page
  BY <1>2 DEF PageDocument, Page
<1> QED BY <1>1, <1>3 DEF PageDocument

\* A page with an entry put.
LEMMA EntryPut ==
    ASSUME NEW p, PageDocument(p), NEW l \in Locales, NEW n \in ToSet(p.nodes), NEW w \in SectionValues, ValueFits(n, w),
           NEW q, q = [p EXCEPT !.overlays[l] = With(@, n.id, w)]
    PROVE  PageDocument(q) /\ PagePut(p, q, l, n.id, w)
<1> DEFINE f == p.overlays[l]
           g == With(f, n.id, w)
           overlays == [p.overlays EXCEPT ![l] = g]
<1>1. /\ p = [nodes |-> p.nodes, overlays |-> p.overlays]
      /\ p.overlays = [k \in Locales |-> p.overlays[k]]
      /\ \A k \in Locales : p.overlays[k] \in PageValues
  BY PageOverlays
<1>2. q = [nodes |-> p.nodes, overlays |-> overlays]
  BY <1>1
<1>3. n.id \in Spellings
  BY PageFacts DEF Spellings
<1>4. f \in PageValues
  BY <1>1
<1> HIDE DEF f
<1>5. g \in PageValues /\ DOMAIN g = DOMAIN f \cup {n.id} /\ g[n.id] = w /\ \A x \in DOMAIN f : x # n.id => g[x] = f[x]
  BY <1>3, <1>4, WithPageValue
<1> HIDE DEF g
<1>6. Put1(f, g, n.id, w)
  BY <1>5 DEF Put1
<1>7. overlays = [k \in Locales |-> overlays[k]] /\ overlays[l] = g /\ \A k \in Locales : k # l => overlays[k] = p.overlays[k]
  BY <1>1
<1> HIDE DEF overlays
<1>8. \A k \in Locales : overlays[k] \in PageValues
  BY <1>1, <1>5, <1>7
<1>9. ASSUME NEW k \in Locales, NEW id \in DOMAIN overlays[k]
      PROVE  \E m \in ToSet(p.nodes) : m.id = id /\ ValueFits(m, overlays[k][id])
  <2>1. CASE k = l /\ id = n.id
    BY <1>5, <1>7, <2>1
  <2>2. CASE k = l /\ id # n.id
    <3>1. id \in DOMAIN p.overlays[k] /\ overlays[k][id] = p.overlays[k][id]
      BY <1>5, <1>7, <1>9, <2>2 DEF f
    <3> QED BY <3>1 DEF PageDocument
  <2>3. CASE k # l
    BY <1>7, <1>9, <2>3 DEF PageDocument
  <2> QED BY <2>1, <2>2, <2>3
<1>10. PageDocument(q)
  BY <1>2, <1>7, <1>8, <1>9, PageRevalued
<1>11. q.nodes = p.nodes /\ q.overlays = overlays
  BY <1>2
<1>12. PagePut(p, q, l, n.id, w)
  BY <1>6, <1>7, <1>11 DEF PagePut, f
<1> QED BY <1>10, <1>12

\* A page with an entry put has a value wherever it had one.
LEMMA EntryKeepsSource ==
    ASSUME NEW p, PageDocument(p), PageSource(p), NEW l \in Locales, NEW n \in ToSet(p.nodes), NEW w, NEW q,
           PagePut(p, q, l, n.id, w),
           l = Source => \A b \in ToSet(n.blocks) : b.id \in DOMAIN w.blocks
    PROVE  PageSource(q)
<1> SUFFICES ASSUME NEW m \in ToSet(p.nodes)
             PROVE  m.id \in DOMAIN q.overlays[Source]
                    /\ \A b \in ToSet(m.blocks) : b.id \in DOMAIN q.overlays[Source][m.id].blocks
  BY DEF PageSource, PagePut
<1>1. m.id \in DOMAIN p.overlays[Source] /\ \A b \in ToSet(m.blocks) : b.id \in DOMAIN p.overlays[Source][m.id].blocks
  BY DEF PageSource
<1>2. Source \in Locales
  BY DEF Locales
<1>3. CASE l # Source
  BY <1>1, <1>2, <1>3 DEF PagePut
<1>4. CASE l = Source /\ m = n
  BY <1>4 DEF PagePut, Put1
<1>5. CASE l = Source /\ m # n
  <2>1. m.id # n.id
    BY <1>5, PageFacts
  <2> QED BY <1>1, <1>5, <2>1 DEF PagePut, Put1
<1> QED BY <1>3, <1>4, <1>5

\* In a locale the entry of a section is w, and all else is said as before.
SaysWith(p, q, l, s, w) ==
    /\ SameShapes(p, q)
    /\ \A k, a, v : k # l => (SaysOf(q, k, a, v) <=> SaysOf(p, k, a, v))
    /\ \A a, v : SaysOf(q, l, a, v) <=>
         Says(l, v) /\ ((\E t : t # s /\ EntrySays(p.overlays[l], t, a, v)) \/ Holds(w, s, a, v))

\* What the entry of a section says when it is put.
LEMMA EntryPutSays ==
    ASSUME profile = "page", NEW p, PageDocument(p), NEW l \in Locales, NEW n \in ToSet(p.nodes), NEW w, NEW q, PagePut(p, q, l, n.id, w)
    PROVE  SaysWith(p, q, l, n.id, w)
<1>1. SameShapes(p, q)
  BY DEF PagePut, SameShapes, ShapesOf, PageShapes
<1>2. ASSUME NEW k, NEW a, NEW v, k # l
      PROVE  SaysOf(q, k, a, v) <=> SaysOf(p, k, a, v)
  <2>1. SaysOf(q, k, a, v) <=> k \in Locales /\ Says(k, v) /\ \E s : EntrySays(q.overlays[k], s, a, v)
    BY SaysByEntry
  <2>2. SaysOf(p, k, a, v) <=> k \in Locales /\ Says(k, v) /\ \E s : EntrySays(p.overlays[k], s, a, v)
    BY SaysByEntry
  <2>3. k \in Locales => q.overlays[k] = p.overlays[k]
    BY <1>2 DEF PagePut
  <2> QED BY <2>1, <2>2, <2>3
<1>3. ASSUME NEW a, NEW v
      PROVE  SaysOf(q, l, a, v) <=>
                Says(l, v) /\ ((\E s : s # n.id /\ EntrySays(p.overlays[l], s, a, v)) \/ Holds(w, n.id, a, v))
  <2>1. SaysOf(q, l, a, v) <=> Says(l, v) /\ \E s : EntrySays(q.overlays[l], s, a, v)
    BY SaysByEntry
  <2>2. Put1(p.overlays[l], q.overlays[l], n.id, w)
    BY DEF PagePut
  <2>3. \A s : s # n.id => (EntrySays(q.overlays[l], s, a, v) <=> EntrySays(p.overlays[l], s, a, v))
    BY <2>2 DEF EntrySays, Put1
  <2>4. EntrySays(q.overlays[l], n.id, a, v) <=> Holds(w, n.id, a, v)
    BY <2>2 DEF EntrySays, Put1
  <2> QED BY <2>1, <2>3, <2>4
<1> QED BY <1>1, <1>2, <1>3 DEF SaysWith

\* The entry of a section, or an empty one.
LEMMA OwnEntry ==
    ASSUME NEW p, PageDocument(p), NEW l \in Locales, NEW n \in ToSet(p.nodes)
    PROVE  LET o == OwnValue(p, l, n.id)
           IN /\ o \in SectionValues /\ ValueFits(n, o) /\ o.case = n.shared.case
              /\ n.id \in DOMAIN p.overlays[l] => o = p.overlays[l][n.id]
              /\ n.id \notin DOMAIN p.overlays[l] => o.text = "" /\ o.blocks = NoValues
<1> DEFINE o == OwnValue(p, l, n.id)
<1>1. p.overlays[l] \in PageValues
  BY PageOverlays
<1>2. CASE n.id \in DOMAIN p.overlays[l]
  <2>1. o = p.overlays[l][n.id]
    BY <1>2 DEF OwnValue
  <2>2. PICK m \in ToSet(p.nodes) : m.id = n.id /\ ValueFits(m, p.overlays[l][n.id])
    BY <1>2 DEF PageDocument
  <2>3. m = n
    BY <2>2, PageFacts
  <2>4. o \in SectionValues
    BY <1>1, <1>2, <2>1, ValuesTyped
  <2> HIDE DEF o
  <2>5. ValueFits(n, o)
    BY <2>1, <2>2, <2>3
  <2>6. o.case = n.shared.case
    BY <2>5 DEF ValueFits
  <2> QED BY <1>2, <2>1, <2>4, <2>5, <2>6 DEF o
<1>3. CASE n.id \notin DOMAIN p.overlays[l]
  <2>1. p.nodes[Rank(p, n.id)] = n
    BY RankOf DEF PageDocument
  <2>2. o = [case |-> n.shared.case, text |-> "", blocks |-> NoValues]
    BY <1>3, <2>1 DEF OwnValue
  <2> HIDE DEF o
  <2>3. n \in Node
    BY PageFacts
  <2>4. n.shared.case \in PageKinds \cup RichKinds
    BY <2>3 DEF Node, Payloads, AnyKind
  <2>5. NoValues \in BlockValues /\ DOMAIN NoValues = {}
    BY NoValuesTyped DEF NoValues
  <2>6. o \in SectionValues
    BY <2>2, <2>4, <2>5 DEF SectionValues, Texts
  <2>7. ValueFits(n, o)
    BY <2>2, <2>5 DEF ValueFits
  <2>8. o.case = n.shared.case /\ o.text = "" /\ o.blocks = NoValues
    BY <2>2
  <2> QED BY <1>3, <2>6, <2>7, <2>8 DEF o
<1> QED BY <1>2, <1>3

\* What is said by no entry that is not there.
LEMMA NoEntry ==
    ASSUME NEW p, PageDocument(p), NEW l \in Locales, NEW n \in ToSet(p.nodes)
    PROVE  LET o == OwnValue(p, l, n.id)
           IN \A a, v : Says(l, v) /\ (l = Source => n.id \in DOMAIN p.overlays[l]) /\ HasBlocks(n)
                => (EntrySays(p.overlays[l], n.id, a, v) <=> Holds(o, n.id, a, v))
<1> DEFINE o == OwnValue(p, l, n.id)
<1>1. /\ o.case = n.shared.case
      /\ n.id \in DOMAIN p.overlays[l] => o = p.overlays[l][n.id]
      /\ n.id \notin DOMAIN p.overlays[l] => o.text = "" /\ o.blocks = NoValues
  BY OwnEntry
<1> HIDE DEF o
<1>2. CASE n.id \in DOMAIN p.overlays[l]
  BY <1>1, <1>2 DEF EntrySays, o
<1>3. CASE n.id \notin DOMAIN p.overlays[l]
  <2>1. DOMAIN o.blocks = {} /\ o.text = ""
    BY <1>1, <1>3 DEF NoValues
  <2>2. ASSUME NEW a, NEW v, Says(l, v), l = Source => n.id \in DOMAIN p.overlays[l], HasBlocks(n)
        PROVE  ~(a = n.id /\ v = [case |-> o.case, text |-> o.text])
    <3>1. o.case = "rich-text" /\ l # Source
      BY <1>1, <1>3, <2>2 DEF HasBlocks
    <3>2. ASSUME v = [case |-> o.case, text |-> o.text] PROVE FALSE
      <4>1. v.case = o.case /\ v.text = o.text
        BY <3>2
      <4> QED BY <2>1, <2>2, <3>1, <4>1 DEF Says
    <3> QED BY <3>2
  <2> QED BY <1>3, <2>1, <2>2 DEF EntrySays, Holds, o
<1> QED BY <1>2, <1>3

\* A section gets a value.
LEMMA SectionGiven ==
    ASSUME profile = "page", NEW p, PageDocument(p), NEW l \in Locales, NEW n \in ToSet(p.nodes),
           NEW value \in Values, value.case = n.shared.case, Says(l, value),
           NEW q, q = WithValue(p, l, 0, n.id, value)
    PROVE  /\ PageDocument(q) /\ Given(p, q, l, n.id, value)
           /\ \E w : PagePut(p, q, l, n.id, w) /\ (n.id \in DOMAIN p.overlays[l] => w.blocks = p.overlays[l][n.id].blocks)
<1> DEFINE o == OwnValue(p, l, n.id)
           w == [case |-> value.case, text |-> value.text, blocks |-> o.blocks]
<1>1. /\ o \in SectionValues /\ ValueFits(n, o)
      /\ n.id \in DOMAIN p.overlays[l] => o = p.overlays[l][n.id]
      /\ n.id \notin DOMAIN p.overlays[l] => o.text = "" /\ o.blocks = NoValues
  BY OwnEntry
<1>2. q = [p EXCEPT !.overlays[l] = With(@, n.id, w)]
  BY DEF WithValue
<1> HIDE DEF o
<1>3. w \in SectionValues
  BY <1>1 DEF SectionValues, Values
<1>4. ValueFits(n, w) /\ w.blocks = o.blocks /\ [case |-> w.case, text |-> w.text] = value
  BY <1>1 DEF ValueFits, Values
<1> HIDE DEF w
<1>5. PageDocument(q) /\ PagePut(p, q, l, n.id, w)
  BY <1>2, <1>3, <1>4, EntryPut
<1>6. SaysWith(p, q, l, n.id, w)
  BY <1>5, EntryPutSays
<1>7. DOMAIN o.blocks \subseteq {b.id : b \in ToSet(n.blocks)}
  BY <1>1 DEF ValueFits
<1>8. n.id \notin DOMAIN o.blocks
  BY <1>7, PageFacts DEF Apart
<1>9. \A s, v : EntrySays(p.overlays[l], s, n.id, v) => s = n.id
  BY EntryOwner
<1>10. ASSUME NEW v PROVE SaysOf(q, l, n.id, v) <=> v = value
  BY <1>4, <1>6, <1>8, <1>9 DEF SaysWith, Holds
<1>11. ASSUME NEW a, NEW v, a # n.id PROVE SaysOf(q, l, a, v) <=> SaysOf(p, l, a, v)
  <2>1. SaysOf(p, l, a, v) <=> Says(l, v) /\ \E s : EntrySays(p.overlays[l], s, a, v)
    BY SaysByEntry
  <2>2. EntrySays(p.overlays[l], n.id, a, v) <=> a \in DOMAIN o.blocks /\ v = o.blocks[a]
    BY <1>1, <1>11 DEF EntrySays, Holds, NoValues
  <2> QED BY <1>4, <1>6, <1>11, <2>1, <2>2 DEF SaysWith, Holds
<1>12. Given(p, q, l, n.id, value)
  BY <1>6, <1>10, <1>11 DEF Given, SaysWith
<1> QED BY <1>1, <1>4, <1>5, <1>12

\* A block of a section gets a value.
LEMMA BlockGiven ==
    ASSUME profile = "page", NEW p, PageDocument(p), NEW l \in Locales, NEW n \in ToSet(p.nodes), NEW b \in ToSet(n.blocks),
           l = Source => n.id \in DOMAIN p.overlays[l],
           NEW value \in Values, value.case = b.shared.case, Says(l, value),
           NEW q, q = WithValue(p, l, n.id, b.id, value)
    PROVE  /\ PageDocument(q) /\ Given(p, q, l, b.id, value)
           /\ \E w : /\ PagePut(p, q, l, n.id, w) /\ b.id \in DOMAIN w.blocks
                     /\ n.id \in DOMAIN p.overlays[l] => DOMAIN p.overlays[l][n.id].blocks \subseteq DOMAIN w.blocks
<1> DEFINE o == OwnValue(p, l, n.id)
           f == o.blocks
           g == With(f, b.id, value)
           w == [o EXCEPT !.blocks = With(@, b.id, value)]
<1>1. /\ o \in SectionValues /\ ValueFits(n, o) /\ o.case = n.shared.case
      /\ n.id \in DOMAIN p.overlays[l] => o = p.overlays[l][n.id]
      /\ n.id \notin DOMAIN p.overlays[l] => o.text = "" /\ o.blocks = NoValues
  BY OwnEntry
<1>2. /\ n.id # 0 /\ b.id \in Uuid /\ b.id # n.id /\ HasBlocks(n)
      /\ \A c \in ToSet(n.blocks) : c.id = b.id => c = b
  <2>1. n.id # 0 /\ b.id \in Uuid /\ SectionFits(n) /\ Apart(ToSet(p.nodes)) /\ n.blocks \in Seq(Block)
        /\ \A c \in ToSet(n.blocks) : c.id = b.id => c = b
    BY PageFacts
  <2>2. n.blocks # <<>>
    BY <2>1, SequenceElements
  <2> QED BY <2>1, <2>2 DEF SectionFits, Apart
<1>3. q = [p EXCEPT !.overlays[l] = With(@, n.id, w)]
  BY <1>2 DEF WithValue
<1>4. f \in BlockValues /\ w = [o EXCEPT !.blocks = g]
  BY <1>1 DEF SectionValues
<1>5. \A a, v : Says(l, v)
         => (EntrySays(p.overlays[l], n.id, a, v) <=> Holds(o, n.id, a, v))
  BY <1>2, NoEntry
<1> HIDE DEF o, w
<1>6. b.id \in Spellings
  BY <1>2 DEF Spellings
<1> HIDE DEF f
<1>7. g \in BlockValues /\ Put1(f, g, b.id, value)
  BY <1>4, <1>6, WithBlockValue
<1> HIDE DEF g
<1>8. w \in SectionValues /\ w.case = o.case /\ w.text = o.text /\ w.blocks = g
  BY <1>1, <1>4, <1>7 DEF SectionValues
<1>9. ValueFits(n, w)
  <2>1. ASSUME NEW id \in DOMAIN g
        PROVE  \E c \in ToSet(n.blocks) : c.id = id /\ g[id].case = c.shared.case
    <3>1. CASE id = b.id
      BY <1>7, <3>1 DEF Put1
    <3>2. CASE id # b.id
      <4>1. id \in DOMAIN f /\ g[id] = f[id]
        BY <1>7, <2>1, <3>2 DEF Put1
      <4> QED BY <1>1, <4>1 DEF ValueFits, f
    <3> QED BY <3>1, <3>2
  <2> QED BY <1>1, <1>8, <2>1 DEF ValueFits
<1>10. PageDocument(q) /\ PagePut(p, q, l, n.id, w)
  BY <1>3, <1>8, <1>9, EntryPut
<1>11. SaysWith(p, q, l, n.id, w)
  BY <1>10, EntryPutSays
<1>12. \A s, v : EntrySays(p.overlays[l], s, b.id, v) => s = n.id
  BY EntryOwner
<1>13. ASSUME NEW v PROVE SaysOf(q, l, b.id, v) <=> v = value
  BY <1>2, <1>7, <1>8, <1>11, <1>12 DEF Put1, SaysWith, Holds
<1>14. ASSUME NEW a, NEW v, a # b.id PROVE SaysOf(q, l, a, v) <=> SaysOf(p, l, a, v)
  <2>1. SaysOf(p, l, a, v) <=> Says(l, v) /\ \E s : EntrySays(p.overlays[l], s, a, v)
    BY SaysByEntry
  <2>2. (a \in DOMAIN g /\ v = g[a]) <=> (a \in DOMAIN f /\ v = f[a])
    BY <1>7, <1>14 DEF Put1
  <2> QED BY <1>5, <1>8, <1>11, <1>14, <2>1, <2>2 DEF f, SaysWith, Holds
<1>15. Given(p, q, l, b.id, value)
  BY <1>11, <1>13, <1>14 DEF Given, SaysWith
<1>16. b.id \in DOMAIN w.blocks /\ (n.id \in DOMAIN p.overlays[l] => DOMAIN p.overlays[l][n.id].blocks \subseteq DOMAIN w.blocks)
  BY <1>1, <1>7, <1>8 DEF Put1, f
<1> QED BY <1>10, <1>15, <1>16

PutEntry(p, l, s, w) == [p EXCEPT !.overlays[l] = With(@, s, w)]
ReplaceEntry(p, l, s, w) == [p EXCEPT !.overlays[l] = [@ EXCEPT ![s] = w]]
WithoutBlock(w, id) == [w EXCEPT !.blocks = Without(@, id)]

\* An entry that is there is put by replacing it.
LEMMA EntryEmptied ==
    ASSUME NEW p, PageDocument(p), NEW l \in Locales, NEW n \in ToSet(p.nodes), n.id \in DOMAIN p.overlays[l],
           NEW w \in SectionValues
    PROVE  PutEntry(p, l, n.id, w) = ReplaceEntry(p, l, n.id, w)
<1> DEFINE f == p.overlays[l]
<1>1. f \in PageValues
  BY PageOverlays
<1>2. f = [x \in DOMAIN f |-> f[x]]
  BY <1>1, PartialFunctionOf DEF PageValues
<1>3. With(f, n.id, w) = [f EXCEPT ![n.id] = w]
  BY <1>2 DEF With
<1>4. /\ p = [nodes |-> p.nodes, overlays |-> p.overlays]
      /\ p.overlays = [k \in Locales |-> p.overlays[k]]
  BY PageOverlays
<1> QED BY <1>3, <1>4 DEF PutEntry, ReplaceEntry

\* The entry of a section is put in the place of the one it has.
LEMMA EntryReplaced ==
    ASSUME NEW p, PageDocument(p), NEW l \in Locales, NEW n \in ToSet(p.nodes), n.id \in DOMAIN p.overlays[l],
           NEW w \in SectionValues, ValueFits(n, w), NEW q, q = ReplaceEntry(p, l, n.id, w)
    PROVE  PageDocument(q) /\ PagePut(p, q, l, n.id, w)
<1>1. q = PutEntry(p, l, n.id, w)
  BY EntryEmptied
<1>2. q = [p EXCEPT !.overlays[l] = With(@, n.id, w)]
  BY <1>1 DEF PutEntry
<1> QED BY <1>2, EntryPut

\* The values of a locale with one entry less.
LEMMA WithoutPageValue ==
    ASSUME NEW f \in PageValues, NEW a
    PROVE  Without(f, a) \in PageValues /\ Left1(f, Without(f, a), a)
<1>1. f \in PartialFunctions(Spellings, SectionValues)
  BY DEF PageValues
<1>2. Without(f, a) \in PartialFunctions(Spellings, SectionValues) /\ Left1(f, Without(f, a), a)
  BY <1>1, WithoutEntry
<1> QED BY <1>2 DEF PageValues

\* A section loses a value of another locale, and keeps an empty one for its blocks' values.
LEMMA SectionTaken ==
    ASSUME profile = "page", NEW p, PageDocument(p), NEW l \in Locales \ {Source}, NEW n \in ToSet(p.nodes),
           NEW q, q = WithoutValue(p, l, 0, n.id)
    PROVE  PageDocument(q) /\ Taken(p, q, l, n.id) /\ q.nodes = p.nodes /\ q.overlays[Source] = p.overlays[Source]
<1> DEFINE f == p.overlays[l]
<1>1. f \in PageValues /\ Source \in Locales
  BY PageOverlays DEF Locales
<1>2. \A s, a, v : EntrySays(f, s, a, v) /\ s # n.id => a # n.id
  BY EntryOwner
<1>3. \A a, v : SaysOf(p, l, a, v) <=> Says(l, v) /\ \E s : EntrySays(f, s, a, v)
  BY SaysByEntry
<1>4. CASE n.id \in DOMAIN f /\ f[n.id].blocks # NoValues
  <2> DEFINE w == [f[n.id] EXCEPT !.text = ""]
  <2>1. f[n.id] \in SectionValues
    BY <1>1, <1>4, ValuesTyped
  <2>2. /\ w \in SectionValues /\ w.case = f[n.id].case /\ w.text = "" /\ w.blocks = f[n.id].blocks
    BY <2>1 DEF SectionValues, Texts
  <2>3. ValueFits(n, f[n.id])
    BY <1>4, PageFacts DEF PageDocument
  <2>4. f[n.id].blocks \in BlockValues
    BY <2>1 DEF SectionValues
  <2>5. DOMAIN f[n.id].blocks # {}
    <3>1. f[n.id].blocks = [x \in DOMAIN f[n.id].blocks |-> f[n.id].blocks[x]]
      BY <2>4, PartialFunctionOf DEF BlockValues
    <3> QED BY <1>4, <3>1 DEF NoValues
  <2>6. PICK b \in ToSet(n.blocks) : TRUE
    BY <2>3, <2>5 DEF ValueFits
  <2>7. HasBlocks(n) /\ b.id # n.id
    <3>1. SectionFits(n) /\ n.blocks \in Seq(Block) /\ Apart(ToSet(p.nodes))
      BY PageFacts
    <3>2. n.blocks # <<>>
      BY <2>6, <3>1, SequenceElements
    <3> QED BY <3>1, <3>2 DEF SectionFits, Apart
  <2>8. q = ReplaceEntry(p, l, n.id, w)
    <3>1. q = [p EXCEPT !.overlays[l][n.id].text = ""]
      BY <1>4 DEF WithoutValue
    <3> QED BY <3>1, PageOverlays DEF ReplaceEntry
  <2> HIDE DEF w
  <2>9. ValueFits(n, w)
    <3>1. \A x, y : x.case = y.case /\ x.blocks = y.blocks /\ ValueFits(n, x) => ValueFits(n, y)
      BY DEF ValueFits
    <3> HIDE DEF f
    <3> QED BY <2>2, <2>3, <3>1
  <2>10. w.case = "rich-text"
    BY <2>2, <2>3, <2>7 DEF ValueFits, HasBlocks
  <2>12. PageDocument(q) /\ PagePut(p, q, l, n.id, w)
    BY <1>4, <2>2, <2>8, <2>9, EntryReplaced
  <2>13. SaysWith(p, q, l, n.id, w)
    BY <2>12, EntryPutSays
  <2>14. ASSUME NEW v PROVE ~SaysOf(q, l, n.id, v)
    <3>1. \A c \in DOMAIN w.blocks : c # n.id
      BY <2>9, PageFacts DEF ValueFits, Apart
    <3>2. ~(Says(l, v) /\ Holds(w, n.id, n.id, v))
      <4> SUFFICES ASSUME Says(l, v), v = [case |-> w.case, text |-> w.text] PROVE FALSE
        BY <3>1 DEF Holds
      <4>1. v.case = "rich-text" /\ v.text = ""
        BY <2>2, <2>10
      <4> QED BY <4>1 DEF Says
    <3> QED BY <1>2, <2>13, <3>2 DEF SaysWith
  <2>15. ASSUME NEW a, NEW v, a # n.id PROVE SaysOf(q, l, a, v) <=> SaysOf(p, l, a, v)
    <3>1. EntrySays(f, n.id, a, v) <=> Holds(w, n.id, a, v)
      BY <1>4, <2>2, <2>15 DEF EntrySays, Holds
    <3> QED BY <1>3, <2>13, <3>1 DEF SaysWith
  <2>16. Taken(p, q, l, n.id)
    BY <2>13, <2>14, <2>15 DEF Taken, SaysWith
  <2> QED BY <1>1, <2>12, <2>16 DEF PagePut
<1>5. CASE ~(n.id \in DOMAIN f /\ f[n.id].blocks # NoValues)
  <2> DEFINE g == Without(f, n.id)
             overlays == [p.overlays EXCEPT ![l] = g]
  <2>1. /\ p = [nodes |-> p.nodes, overlays |-> p.overlays]
        /\ p.overlays = [k \in Locales |-> p.overlays[k]]
        /\ \A k \in Locales : p.overlays[k] \in PageValues
    BY PageOverlays
  <2>2. q = [nodes |-> p.nodes, overlays |-> overlays]
    BY <1>5, <2>1 DEF WithoutValue
  <2>3. g \in PageValues /\ DOMAIN g = DOMAIN f \ {n.id} /\ \A x \in DOMAIN f : x # n.id => g[x] = f[x]
    <3>1. g \in PageValues /\ Left1(f, g, n.id)
      BY <1>1, WithoutPageValue
    <3> QED BY <3>1 DEF Left1
  <2> HIDE DEF g
  <2>4. overlays = [k \in Locales |-> overlays[k]] /\ overlays[l] = g /\ \A k \in Locales : k # l => overlays[k] = p.overlays[k]
    BY <2>1
  <2> HIDE DEF overlays
  <2>5. \A k \in Locales : overlays[k] \in PageValues
    BY <2>1, <2>3, <2>4
  <2>6. ASSUME NEW k \in Locales, NEW id \in DOMAIN overlays[k]
        PROVE  \E m \in ToSet(p.nodes) : m.id = id /\ ValueFits(m, overlays[k][id])
    <3>1. id \in DOMAIN p.overlays[k] /\ overlays[k][id] = p.overlays[k][id]
      BY <2>3, <2>4, <2>6
    <3> QED BY <3>1 DEF PageDocument
  <2>7. PageDocument(q)
    BY <2>2, <2>4, <2>5, <2>6, PageRevalued
  <2>8. q.nodes = p.nodes /\ q.overlays = overlays
    BY <2>2
  <2>9. SameShapes(p, q)
    BY <2>8 DEF SameShapes, ShapesOf, PageShapes
  <2>10. ASSUME NEW k, NEW a, NEW v, k # l PROVE SaysOf(q, k, a, v) <=> SaysOf(p, k, a, v)
    <3>1. SaysOf(q, k, a, v) <=> k \in Locales /\ Says(k, v) /\ \E s : EntrySays(q.overlays[k], s, a, v)
      BY SaysByEntry
    <3>2. SaysOf(p, k, a, v) <=> k \in Locales /\ Says(k, v) /\ \E s : EntrySays(p.overlays[k], s, a, v)
      BY SaysByEntry
    <3> QED BY <2>4, <2>8, <2>10, <3>1, <3>2
  <2>11. ASSUME NEW a, NEW v PROVE SaysOf(q, l, a, v) <=> SaysOf(p, l, a, v) /\ a # n.id
    <3>1. SaysOf(q, l, a, v) <=> Says(l, v) /\ \E s : EntrySays(g, s, a, v)
      BY <2>4, <2>8, SaysByEntry
    <3>2. \A s : EntrySays(g, s, a, v) <=> EntrySays(f, s, a, v) /\ s # n.id
      BY <2>3 DEF EntrySays
    <3>3. EntrySays(f, n.id, a, v) => a = n.id
      BY <1>5 DEF EntrySays, Holds, NoValues
    <3>4. \A s : EntrySays(f, s, a, v) => ((s # n.id) <=> (a # n.id))
      BY <1>2, <3>3
    <3> QED BY <1>3, <3>1, <3>2, <3>4
  <2>12. Taken(p, q, l, n.id)
    BY <2>9, <2>10, <2>11 DEF Taken
  <2> QED BY <1>1, <2>4, <2>7, <2>8, <2>12
<1> QED BY <1>4, <1>5

\* The entry of a section without the value of a block.
LEMMA BlockLeft ==
    ASSUME NEW w \in SectionValues, NEW n, ValueFits(n, w), NEW id, NEW u, u = WithoutBlock(w, id)
    PROVE  /\ u \in SectionValues /\ u.case = w.case /\ u.text = w.text /\ Left1(w.blocks, u.blocks, id)
           /\ ValueFits(n, u)
           /\ \A s, a, v : s # id => (Holds(u, s, a, v) <=> Holds(w, s, a, v) /\ a # id)
<1> DEFINE g == Without(w.blocks, id)
<1>1. w.blocks \in BlockValues /\ u = [w EXCEPT !.blocks = g]
  BY DEF SectionValues, WithoutBlock
<1>2. g \in BlockValues /\ Left1(w.blocks, g, id)
  BY <1>1, WithBlockValue
<1> HIDE DEF g
<1>3. u \in SectionValues /\ u.case = w.case /\ u.text = w.text /\ u.blocks = g
  BY <1>1, <1>2 DEF SectionValues
<1>4. \A a : (a \in DOMAIN u.blocks <=> a \in DOMAIN w.blocks /\ a # id) /\ (a \in DOMAIN u.blocks => u.blocks[a] = w.blocks[a])
  BY <1>2, <1>3 DEF Left1
<1>5. ValueFits(n, u)
  BY <1>3, <1>4 DEF ValueFits
<1>6. \A s, a, v : s # id => (Holds(u, s, a, v) <=> Holds(w, s, a, v) /\ a # id)
  BY <1>3, <1>4 DEF Holds
<1> QED BY <1>2, <1>3, <1>5, <1>6

\* A block of a section loses a value of another locale.
LEMMA BlockTaken ==
    ASSUME profile = "page", NEW p, PageDocument(p), NEW l \in Locales \ {Source}, NEW n \in ToSet(p.nodes),
           NEW b \in ToSet(n.blocks), NEW q, q = WithoutValue(p, l, n.id, b.id)
    PROVE  PageDocument(q) /\ Taken(p, q, l, b.id) /\ q.nodes = p.nodes /\ q.overlays[Source] = p.overlays[Source]
<1> DEFINE f == p.overlays[l]
<1>1. f \in PageValues /\ Source \in Locales /\ n.id # 0 /\ n.id # b.id
  BY PageOverlays, PageFacts DEF Locales, Apart
<1>2. \A s, v : EntrySays(f, s, b.id, v) => s = n.id
  BY EntryOwner
<1>3. \A a, v : SaysOf(p, l, a, v) <=> Says(l, v) /\ \E s : EntrySays(f, s, a, v)
  BY SaysByEntry
<1>4. CASE n.id \in DOMAIN f
  <2> DEFINE w == WithoutBlock(f[n.id], b.id)
  <2>1. f[n.id] \in SectionValues
    BY <1>1, <1>4, ValuesTyped
  <2>2. ValueFits(n, f[n.id])
    BY <1>4, PageFacts DEF PageDocument
  <2>3. q = ReplaceEntry(p, l, n.id, w)
    <3>1. q = [p EXCEPT !.overlays[l][n.id].blocks = Without(@, b.id)]
      BY <1>1, <1>4 DEF WithoutValue
    <3> QED BY <3>1, PageOverlays DEF ReplaceEntry, WithoutBlock
  <2>4. /\ w \in SectionValues /\ ValueFits(n, w)
        /\ \A a, v : Holds(w, n.id, a, v) <=> Holds(f[n.id], n.id, a, v) /\ a # b.id
    <3> HIDE DEF f
    <3> QED BY <1>1, <2>1, <2>2, BlockLeft
  <2> HIDE DEF w
  <2>6. PageDocument(q) /\ PagePut(p, q, l, n.id, w)
    BY <1>4, <2>3, <2>4, EntryReplaced
  <2>7. SaysWith(p, q, l, n.id, w)
    BY <2>6, EntryPutSays
  <2>8. ASSUME NEW a, NEW v PROVE SaysOf(q, l, a, v) <=> SaysOf(p, l, a, v) /\ a # b.id
    <3>1. EntrySays(f, n.id, a, v) <=> Holds(f[n.id], n.id, a, v)
      BY <1>4 DEF EntrySays
    <3> QED BY <1>2, <1>3, <2>4, <2>7, <3>1 DEF SaysWith
  <2>9. Taken(p, q, l, b.id)
    BY <2>7, <2>8 DEF Taken, SaysWith
  <2> QED BY <1>1, <2>6, <2>9 DEF PagePut
<1>5. CASE n.id \notin DOMAIN f
  <2>1. q = p
    BY <1>1, <1>5 DEF WithoutValue
  <2>2. \A v : ~SaysOf(p, l, b.id, v)
    BY <1>2, <1>3, <1>5 DEF EntrySays
  <2> QED BY <2>1, <2>2 DEF Taken, SameShapes
<1> QED BY <1>4, <1>5

\* What is said when entries and values of one id are gone, in every locale.
SaysLess(p, q, id) == \A l, a, v : SaysOf(q, l, a, v) <=> SaysOf(p, l, a, v) /\ a # id
ShapesLess(p, q, id) == \A y : y \in ShapesOf(q) <=> y \in ShapesOf(p) /\ y.id # id

\* Sections, and values by locale that fit them.
Fitting(nodes, overlays) ==
    /\ nodes \in Seq(Node) /\ DistinctIds(nodes) /\ Apart(ToSet(nodes))
    /\ \A n \in ToSet(nodes) : SectionFits(n)
    /\ overlays = [l \in Locales |-> overlays[l]]
    /\ \A l \in Locales : overlays[l] \in PageValues
    /\ \A l \in Locales : \A id \in DOMAIN overlays[l] :
          \E n \in ToSet(nodes) : n.id = id /\ ValueFits(n, overlays[l][id])

\* Sections with values that fit make a page.
LEMMA PageBuilt ==
    ASSUME NEW nodes, NEW overlays, Fitting(nodes, overlays),
           NEW q, q = [nodes |-> nodes, overlays |-> overlays]
    PROVE  PageDocument(q) /\ q.nodes = nodes /\ q.overlays = overlays
<1>1. q.nodes = nodes /\ q.overlays = overlays /\ DOMAIN overlays = Locales
  BY DEF Fitting
<1>2. overlays \in PartialFunctions(Locales, PageValues)
  BY <1>1, PartialFunctionOf DEF Fitting
<1>3. q \in Page
  BY <1>2 DEF Page, Fitting
<1> QED BY <1>1, <1>3 DEF PageDocument, Fitting

\* A section without blocks is deleted, with its values.
LEMMA SectionRemoved ==
    ASSUME profile = "page", NEW p, Document(p), NEW n \in ToSet(p.nodes), n.blocks = <<>>,
           NEW nodes \in Seq(Node), DistinctIds(nodes), \A x : x \in ToSet(nodes) <=> x \in ToSet(p.nodes) /\ x.id # n.id,
           NEW left, left = WithLevel(p, 0, nodes),
           NEW q, q = Cleared(left, 0, n.id)
    PROVE  Document(q) /\ Removed(p, q, n.id)
<1> DEFINE g == [l \in Locales |-> Without(p.overlays[l], n.id)]
<1>1. PageDocument(p) /\ PageSource(p)
  BY DEF Document
<1>2. /\ p = [nodes |-> p.nodes, overlays |-> p.overlays]
      /\ p.overlays = [k \in Locales |-> p.overlays[k]]
      /\ \A k \in Locales : p.overlays[k] \in PageValues
  BY <1>1, PageOverlays
<1>3. left = [nodes |-> nodes, overlays |-> p.overlays]
  BY <1>2 DEF WithLevel
<1>4. ToSet(n.blocks) = {}
  BY DEF ToSet
<1>5. ASSUME NEW l \in Locales, n.id \in DOMAIN p.overlays[l] PROVE p.overlays[l][n.id].blocks = NoValues
  <2>1. PICK m \in ToSet(p.nodes) : m.id = n.id /\ ValueFits(m, p.overlays[l][n.id])
    BY <1>1, <1>5 DEF PageDocument
  <2>2. m = n
    BY <1>1, <2>1, PageFacts
  <2>3. DOMAIN p.overlays[l][n.id].blocks = {}
    BY <1>4, <2>1, <2>2 DEF ValueFits
  <2>4. p.overlays[l][n.id] \in SectionValues
    BY <1>2, <1>5, ValuesTyped
  <2>5. p.overlays[l][n.id].blocks \in PartialFunctions(Spellings, Values)
    BY <2>4 DEF SectionValues, BlockValues
  <2>6. p.overlays[l][n.id].blocks = [x \in DOMAIN p.overlays[l][n.id].blocks |-> p.overlays[l][n.id].blocks[x]]
    BY <2>5, PartialFunctionOf
  <2> QED BY <2>3, <2>6 DEF NoValues
<1>6. ASSUME NEW l \in Locales PROVE WithoutValue(left, l, 0, n.id).overlays[l] = Without(p.overlays[l], n.id)
  <2>1. left.overlays[l] = p.overlays[l]
    BY <1>3
  <2>2. WithoutValue(left, l, 0, n.id) = [left EXCEPT !.overlays[l] = Without(@, n.id)]
    BY <1>5, <2>1 DEF WithoutValue
  <2>3. WithoutValue(left, l, 0, n.id)
          = [nodes |-> nodes, overlays |-> [p.overlays EXCEPT ![l] = Without(p.overlays[l], n.id)]]
    <3>1. \A w : [left EXCEPT !.overlays[l] = w] = [nodes |-> nodes, overlays |-> [p.overlays EXCEPT ![l] = w]]
      BY <1>3
    <3> QED BY <2>1, <2>2, <3>1
  <2> QED BY <1>2, <2>3
<1>7. q = [nodes |-> nodes, overlays |-> g]
  <2>1. q = [left EXCEPT !.overlays = [l \in DOMAIN left.overlays |-> WithoutValue(left, l, 0, n.id).overlays[l]]]
    BY DEF Cleared
  <2>2. left.overlays = p.overlays /\ DOMAIN p.overlays = Locales
    BY <1>2, <1>3
  <2>3. [l \in DOMAIN left.overlays |-> WithoutValue(left, l, 0, n.id).overlays[l]] = g
    BY <1>6, <2>2
  <2> HIDE DEF g
  <2> QED BY <1>3, <2>1, <2>3
<1>8. \A l \in Locales : g[l] \in PageValues /\ Left1(p.overlays[l], g[l], n.id)
  BY <1>2, WithoutPageValue
<1>9. g = [l \in Locales |-> g[l]]
  OBVIOUS
<1> HIDE DEF g
<1>10. p.nodes \in Seq(Node) /\ Apart(ToSet(p.nodes)) /\ \A m \in ToSet(p.nodes) : SectionFits(m)
  BY <1>1, PageFacts
<1>11. PageDocument(q) /\ q.nodes = nodes /\ q.overlays = g
  <2>1. Apart(ToSet(nodes)) /\ \A m \in ToSet(nodes) : SectionFits(m)
    BY <1>10 DEF Apart
  <2>2. ASSUME NEW l \in Locales, NEW id \in DOMAIN g[l]
        PROVE  \E m \in ToSet(nodes) : m.id = id /\ ValueFits(m, g[l][id])
    <3>1. id \in DOMAIN p.overlays[l] /\ id # n.id /\ g[l][id] = p.overlays[l][id]
      BY <1>8, <2>2 DEF Left1
    <3>2. PICK m \in ToSet(p.nodes) : m.id = id /\ ValueFits(m, p.overlays[l][id])
      BY <1>1, <3>1 DEF PageDocument
    <3> QED BY <3>1, <3>2
  <2>3. Fitting(nodes, g)
    BY <1>8, <1>9, <2>1, <2>2 DEF Fitting
  <2> QED BY <1>7, <2>3, PageBuilt
<1>12. PageSource(q)
  <2> SUFFICES ASSUME NEW m \in ToSet(nodes)
               PROVE  m.id \in DOMAIN g[Source] /\ \A b \in ToSet(m.blocks) : b.id \in DOMAIN g[Source][m.id].blocks
    BY <1>11 DEF PageSource
  <2>1. Source \in Locales /\ m.id # n.id
    BY DEF Locales
  <2>2. m.id \in DOMAIN p.overlays[Source] /\ \A b \in ToSet(m.blocks) : b.id \in DOMAIN p.overlays[Source][m.id].blocks
    BY <1>1 DEF PageSource
  <2> QED BY <1>8, <2>1, <2>2 DEF Left1
<1>13. ShapesLess(p, q, n.id)
  <2>1. \A y : y \in ShapesOf(q) <=> \E k \in ToSet(nodes) : InSection(k, y)
    BY <1>11, PageShapesIn
  <2>2. \A y : y \in ShapesOf(p) <=> \E k \in ToSet(p.nodes) : InSection(k, y)
    BY PageShapesIn
  <2>3. \A k \in ToSet(p.nodes) : k # n => \A y : InSection(k, y) => y.id # n.id
    BY <1>1, ShapesApart
  <2>4. \A y : InSection(n, y) => y.id = n.id
    BY <1>4, ShapeIds DEF InSection
  <2>5. \A k \in ToSet(p.nodes) : k.id = n.id <=> k = n
    BY <1>1, PageFacts
  <2> QED BY <2>1, <2>2, <2>3, <2>4, <2>5 DEF ShapesLess
<1>14. SaysLess(p, q, n.id)
  <2> SUFFICES ASSUME NEW l, NEW a, NEW v PROVE SaysOf(q, l, a, v) <=> SaysOf(p, l, a, v) /\ a # n.id
    BY DEF SaysLess
  <2>a. SaysOf(q, l, a, v) <=> l \in Locales /\ Says(l, v) /\ \E s : EntrySays(g[l], s, a, v)
    BY <1>11, SaysByEntry
  <2>b. SaysOf(p, l, a, v) <=> l \in Locales /\ Says(l, v) /\ \E s : EntrySays(p.overlays[l], s, a, v)
    BY SaysByEntry
  <2> SUFFICES ASSUME l \in Locales
               PROVE  (\E s : EntrySays(g[l], s, a, v)) <=> (\E s : EntrySays(p.overlays[l], s, a, v)) /\ a # n.id
    BY <2>a, <2>b
  <2>1. \A s : EntrySays(g[l], s, a, v) <=> EntrySays(p.overlays[l], s, a, v) /\ s # n.id
    BY <1>8 DEF EntrySays, Left1
  <2>2. \A s : EntrySays(p.overlays[l], s, a, v) /\ a = n.id => s = n.id
    BY <1>1, EntryOwner
  <2>3. EntrySays(p.overlays[l], n.id, a, v) => a = n.id
    BY <1>5 DEF EntrySays, Holds, NoValues
  <2> QED BY <2>1, <2>2, <2>3
<1> QED BY <1>11, <1>12, <1>13, <1>14 DEF Document, Removed, ShapesLess, SaysLess

\* The values of a locale without that of one block.
LessBlock(f, s, id) == IF s \in DOMAIN f THEN [f EXCEPT ![s] = WithoutBlock(f[s], id)] ELSE f

\* They are values of a locale, and the entries of other sections stay.
LEMMA LessBlockTyped ==
    ASSUME NEW f \in PageValues, NEW s, NEW id
    PROVE  /\ LessBlock(f, s, id) \in PageValues
           /\ DOMAIN LessBlock(f, s, id) = DOMAIN f
           /\ \A x \in DOMAIN f : LessBlock(f, s, id)[x] = IF x = s THEN WithoutBlock(f[s], id) ELSE f[x]
<1>1. f \in PartialFunctions(Spellings, SectionValues)
  BY DEF PageValues
<1>2. f = [x \in DOMAIN f |-> f[x]] /\ DOMAIN f \subseteq Spellings /\ \A x \in DOMAIN f : f[x] \in SectionValues
  BY <1>1, PartialFunctionOf
<1> DEFINE g == LessBlock(f, s, id)
<1>3. g = [x \in DOMAIN f |-> IF x = s THEN WithoutBlock(f[s], id) ELSE f[x]]
  BY <1>2 DEF LessBlock
<1>4. \A w \in SectionValues : WithoutBlock(w, id) \in SectionValues
  <2> SUFFICES ASSUME NEW w \in SectionValues PROVE WithoutBlock(w, id) \in SectionValues
    OBVIOUS
  <2>1. w.blocks \in BlockValues
    BY DEF SectionValues
  <2>2. Without(w.blocks, id) \in BlockValues
    BY <2>1, WithBlockValue
  <2>3. \A b \in BlockValues : [w EXCEPT !.blocks = b] \in SectionValues
    BY DEF SectionValues
  <2> QED BY <2>2, <2>3 DEF WithoutBlock
<1> HIDE DEF g
<1>5. DOMAIN g = DOMAIN f /\ g = [x \in DOMAIN g |-> g[x]]
      /\ \A x \in DOMAIN f : g[x] = IF x = s THEN WithoutBlock(f[s], id) ELSE f[x]
  BY <1>3
<1>6. \A x \in DOMAIN g : g[x] \in SectionValues
  BY <1>2, <1>4, <1>5
<1>7. g \in PageValues
  BY <1>2, <1>5, <1>6, PartialFunctionOf DEF PageValues
<1> QED BY <1>5, <1>7 DEF g

\* A block of a section is deleted, with its values.
LEMMA BlockRemoved ==
    ASSUME profile = "page", NEW p, Document(p), NEW n \in ToSet(p.nodes), NEW b \in ToSet(n.blocks),
           NEW blocks \in Seq(Block), DistinctIds(blocks), \A x : x \in ToSet(blocks) <=> x \in ToSet(n.blocks) /\ x.id # b.id,
           NEW left, left = WithLevel(p, n.id, blocks),
           NEW q, q = Cleared(left, n.id, b.id)
    PROVE  Document(q) /\ Removed(p, q, b.id)
<1> DEFINE m == WithBlocks(n, blocks)
           g == [l \in Locales |-> LessBlock(p.overlays[l], n.id, b.id)]
           nodes == Swapped(p.nodes, n, m)
<1>1. PageDocument(p) /\ PageSource(p)
  BY DEF Document
<1>2. /\ p = [nodes |-> p.nodes, overlays |-> p.overlays]
      /\ p.overlays = [k \in Locales |-> p.overlays[k]]
      /\ \A k \in Locales : p.overlays[k] \in PageValues
  BY <1>1, PageOverlays
<1>3. /\ left = [nodes |-> nodes, overlays |-> p.overlays]
      /\ m \in Node /\ m.id = n.id /\ m.shared = n.shared /\ m.blocks = blocks /\ SectionShape(m) = SectionShape(n)
  BY <1>1, BlocksReplaced
<1>4. /\ n.id # 0 /\ SectionFits(n) /\ p.nodes \in Seq(Node) /\ DistinctIds(p.nodes) /\ Apart(ToSet(p.nodes))
      /\ \A k \in ToSet(p.nodes) : SectionFits(k) /\ (k.id = n.id => k = n)
      /\ n.blocks \in Seq(Block) /\ b.id # n.id
  BY <1>1, PageFacts DEF Apart
<1> HIDE DEF m
<1>5. nodes \in Seq(Node) /\ ToSet(nodes) = (ToSet(p.nodes) \ {n}) \cup {m} /\ DistinctIds(nodes)
  BY <1>3, <1>4, Replaced
<1> HIDE DEF nodes
<1>6. ASSUME NEW l \in Locales PROVE WithoutValue(left, l, n.id, b.id).overlays[l] = LessBlock(p.overlays[l], n.id, b.id)
  <2>1. left.overlays[l] = p.overlays[l] /\ left.overlays = p.overlays
    BY <1>3
  <2>2. CASE n.id \in DOMAIN p.overlays[l]
    <3>1. WithoutValue(left, l, n.id, b.id) = [left EXCEPT !.overlays[l][n.id].blocks = Without(@, b.id)]
      BY <1>4, <2>1, <2>2 DEF WithoutValue
    <3>2. \A w : [left EXCEPT !.overlays[l] = w] = [nodes |-> nodes, overlays |-> [p.overlays EXCEPT ![l] = w]]
      BY <1>3
    <3>3. WithoutValue(left, l, n.id, b.id) = [left EXCEPT !.overlays[l] = LessBlock(p.overlays[l], n.id, b.id)]
      BY <2>1, <2>2, <3>1 DEF LessBlock, WithoutBlock
    <3>4. WithoutValue(left, l, n.id, b.id)
            = [nodes |-> nodes, overlays |-> [p.overlays EXCEPT ![l] = LessBlock(p.overlays[l], n.id, b.id)]]
      BY <3>2, <3>3
    <3> QED BY <1>2, <3>4
  <2>3. CASE n.id \notin DOMAIN p.overlays[l]
    <3>1. WithoutValue(left, l, n.id, b.id) = left
      BY <1>4, <2>1, <2>3 DEF WithoutValue
    <3> QED BY <2>1, <2>3, <3>1 DEF LessBlock
  <2> QED BY <2>2, <2>3
<1>7. q = [nodes |-> nodes, overlays |-> g]
  <2>1. q = [left EXCEPT !.overlays = [l \in DOMAIN left.overlays |-> WithoutValue(left, l, n.id, b.id).overlays[l]]]
    BY DEF Cleared
  <2>2. left.overlays = p.overlays /\ DOMAIN p.overlays = Locales
    BY <1>2, <1>3
  <2>3. [l \in DOMAIN left.overlays |-> WithoutValue(left, l, n.id, b.id).overlays[l]] = g
    BY <1>6, <2>2
  <2> HIDE DEF g
  <2> QED BY <1>3, <2>1, <2>3
<1>8. ASSUME NEW l \in Locales
      PROVE  /\ g[l] \in PageValues /\ DOMAIN g[l] = DOMAIN p.overlays[l]
             /\ \A x \in DOMAIN p.overlays[l] :
                   /\ x # n.id => g[l][x] = p.overlays[l][x]
                   /\ x = n.id => g[l][x] = WithoutBlock(p.overlays[l][n.id], b.id)
  <2> DEFINE f == p.overlays[l]
  <2>1. f \in PageValues /\ g[l] = LessBlock(f, n.id, b.id)
    BY <1>2
  <2> HIDE DEF f, g
  <2>2. /\ g[l] \in PageValues /\ DOMAIN g[l] = DOMAIN f
        /\ \A x \in DOMAIN f : g[l][x] = IF x = n.id THEN WithoutBlock(f[n.id], b.id) ELSE f[x]
    BY <2>1, LessBlockTyped
  <2> QED BY <2>2 DEF f
<1>9. g = [l \in Locales |-> g[l]]
  OBVIOUS
<1> HIDE DEF g
<1>11. Apart(ToSet(nodes)) /\ \A k \in ToSet(nodes) : SectionFits(k)
  <2>1. \A c \in ToSet(m.blocks) : \E d \in ToSet(n.blocks) : d.id = c.id
    BY <1>3
  <2>2. Apart((ToSet(p.nodes) \ {n}) \cup {m})
    BY <1>3, <1>4, <2>1, ApartReplaced
  <2>3. n.blocks # <<>>
    BY <1>4, SequenceElements
  <2>4. SectionFits(m)
    BY <1>3, <1>4, <2>3 DEF SectionFits, HasBlocks
  <2> QED BY <1>4, <1>5, <2>2, <2>4
<1>12. ASSUME NEW l \in Locales, n.id \in DOMAIN p.overlays[l]
       PROVE  /\ ValueFits(m, g[l][n.id])
              /\ \A a, v : Holds(g[l][n.id], n.id, a, v) <=> Holds(p.overlays[l][n.id], n.id, a, v) /\ a # b.id
              /\ Left1(p.overlays[l][n.id].blocks, g[l][n.id].blocks, b.id)
  <2> DEFINE w == p.overlays[l][n.id]
             u == WithoutBlock(w, b.id)
  <2>1. w \in SectionValues
    BY <1>2, <1>12, ValuesTyped
  <2>2. ValueFits(n, w)
    BY <1>1, <1>4, <1>12 DEF PageDocument
  <2>3. g[l][n.id] = u
    BY <1>8, <1>12
  <2> HIDE DEF w
  <2>4. /\ Left1(w.blocks, u.blocks, b.id) /\ ValueFits(n, u)
        /\ \A s, a, v : s # b.id => (Holds(u, s, a, v) <=> Holds(w, s, a, v) /\ a # b.id)
    BY <2>1, <2>2, BlockLeft
  <2> HIDE DEF u
  <2>5. ValueFits(m, u)
    <3>1. u.case = m.shared.case
      BY <1>3, <2>4 DEF ValueFits
    <3>2. ASSUME NEW id \in DOMAIN u.blocks PROVE \E c \in ToSet(m.blocks) : c.id = id /\ u.blocks[id].case = c.shared.case
      <4>1. id # b.id
        BY <2>4, <3>2 DEF Left1
      <4>2. PICK c \in ToSet(n.blocks) : c.id = id /\ u.blocks[id].case = c.shared.case
        BY <2>4, <3>2 DEF ValueFits
      <4> QED BY <1>3, <4>1, <4>2
    <3> QED BY <3>1, <3>2 DEF ValueFits
  <2> QED BY <1>4, <2>3, <2>4, <2>5 DEF w
<1>13. PageDocument(q) /\ q.nodes = nodes /\ q.overlays = g
  <2>1. ASSUME NEW l \in Locales, NEW id \in DOMAIN g[l]
        PROVE  \E k \in ToSet(nodes) : k.id = id /\ ValueFits(k, g[l][id])
    <3>1. id \in DOMAIN p.overlays[l]
      BY <1>8, <2>1
    <3>2. CASE id = n.id
      BY <1>3, <1>5, <1>12, <3>1, <3>2
    <3>3. CASE id # n.id
      <4>1. g[l][id] = p.overlays[l][id]
        BY <1>8, <3>1, <3>3
      <4>2. PICK k \in ToSet(p.nodes) : k.id = id /\ ValueFits(k, p.overlays[l][id])
        BY <1>1, <3>1 DEF PageDocument
      <4> QED BY <1>5, <3>3, <4>1, <4>2
    <3> QED BY <3>2, <3>3
  <2>2. \A l \in Locales : g[l] \in PageValues
    BY <1>8
  <2>3. \A l \in Locales : \A id \in DOMAIN g[l] : \E k \in ToSet(nodes) : k.id = id /\ ValueFits(k, g[l][id])
    BY <2>1
  <2>4. \A k \in ToSet(nodes) : SectionFits(k)
    BY <1>11
  <2>5. Fitting(nodes, g)
    BY <1>5, <1>9, <1>11, <2>2, <2>3, <2>4 DEF Fitting
  <2> QED BY <1>7, <2>5, PageBuilt
<1>14. PageSource(q)
  <2> SUFFICES ASSUME NEW k \in ToSet(nodes)
               PROVE  k.id \in DOMAIN g[Source] /\ \A c \in ToSet(k.blocks) : c.id \in DOMAIN g[Source][k.id].blocks
    BY <1>13 DEF PageSource
  <2>1. Source \in Locales
    BY DEF Locales
  <2>2. \A j \in ToSet(p.nodes) : /\ j.id \in DOMAIN p.overlays[Source]
                                  /\ \A c \in ToSet(j.blocks) : c.id \in DOMAIN p.overlays[Source][j.id].blocks
    BY <1>1 DEF PageSource
  <2>3. CASE k = m
    <3>1. n.id \in DOMAIN p.overlays[Source] /\ \A c \in ToSet(n.blocks) : c.id \in DOMAIN p.overlays[Source][n.id].blocks
      BY <2>2
    <3>2. Left1(p.overlays[Source][n.id].blocks, g[Source][n.id].blocks, b.id)
      BY <1>12, <2>1, <3>1
    <3>3. n.id \in DOMAIN g[Source]
      BY <1>8, <2>1, <3>1
    <3> QED BY <1>3, <2>3, <3>1, <3>2, <3>3 DEF Left1
  <2>4. CASE k # m
    <3>1. k \in ToSet(p.nodes) /\ k.id # n.id
      BY <1>4, <1>5, <2>4
    <3> QED BY <1>8, <2>1, <2>2, <3>1
  <2> QED BY <2>3, <2>4
<1>15. ShapesLess(p, q, b.id)
  <2>1. \A y : y \in ShapesOf(q) <=> \E k \in ToSet(nodes) : InSection(k, y)
    BY <1>13, PageShapesIn
  <2>2. \A y : y \in ShapesOf(p) <=> \E k \in ToSet(p.nodes) : InSection(k, y)
    BY PageShapesIn
  <2>3. \A k \in ToSet(p.nodes) : k # n => \A y : InSection(k, y) => y.id # b.id
    BY <1>1, ShapesApart
  <2>4. \A y : InSection(m, y) <=> InSection(n, y) /\ y.id # b.id
    BY <1>3, <1>4, ShapeIds DEF InSection
  <2> QED BY <1>5, <2>1, <2>2, <2>3, <2>4 DEF ShapesLess
<1>16. SaysLess(p, q, b.id)
  <2> SUFFICES ASSUME NEW l, NEW a, NEW v PROVE SaysOf(q, l, a, v) <=> SaysOf(p, l, a, v) /\ a # b.id
    BY DEF SaysLess
  <2>a. SaysOf(q, l, a, v) <=> l \in Locales /\ Says(l, v) /\ \E s : EntrySays(g[l], s, a, v)
    BY <1>13, SaysByEntry
  <2>b. SaysOf(p, l, a, v) <=> l \in Locales /\ Says(l, v) /\ \E s : EntrySays(p.overlays[l], s, a, v)
    BY SaysByEntry
  <2> SUFFICES ASSUME l \in Locales
               PROVE  (\E s : EntrySays(g[l], s, a, v)) <=> (\E s : EntrySays(p.overlays[l], s, a, v)) /\ a # b.id
    BY <2>a, <2>b
  <2>1. \A s : s # n.id => (EntrySays(g[l], s, a, v) <=> EntrySays(p.overlays[l], s, a, v))
    BY <1>8 DEF EntrySays
  <2>2. EntrySays(g[l], n.id, a, v) <=> EntrySays(p.overlays[l], n.id, a, v) /\ a # b.id
    BY <1>8, <1>12 DEF EntrySays
  <2>3. \A s : EntrySays(p.overlays[l], s, a, v) /\ a = b.id => s = n.id
    BY <1>1, EntryOwner
  <2> QED BY <2>1, <2>2, <2>3
<1> QED BY <1>13, <1>14, <1>15, <1>16 DEF Document, Removed, ShapesLess, SaysLess

(***************************************************************************)
(* What each edit does to the editor's document.                           *)
(***************************************************************************)

\* What an editor inserts is a section or a block.
LEMMA NewNodes ==
    ASSUME profile \in DOMAIN Forms
    PROVE  /\ profile \in {"page", "post"}
           /\ \A n \in SectionNodes : /\ n \in Node /\ n.id \in Uuid /\ n.id # 0 /\ n.blocks = <<>>
                                      /\ n.shared.case \in PageKinds /\ n.shared = Shared(n.shared.case)
                                      /\ n.column \in Columns \cup {0}
           /\ \A n \in BlockNodes : /\ n \in Block /\ n.id \in Uuid /\ n.id # 0
                                    /\ n.shared.case \in RichKinds /\ n.shared = Shared(n.shared.case)
<1>1. profile \in {"page", "post"} /\ Forms[profile].kinds \subseteq Kinds /\ Forms[profile].indexes \subseteq UInt32
  BY FormsAssumption
<1>2. \A k \in Kinds \cap (PageKinds \cup RichKinds) : Shared(k) \in Payloads /\ Shared(k).case = k
  BY DEF Shared, Payloads, AnyKind
<1>3. ASSUME NEW n \in SectionNodes
      PROVE  /\ n \in Node /\ n.id \in Uuid /\ n.id # 0 /\ n.blocks = <<>>
             /\ n.shared.case \in PageKinds /\ n.shared = Shared(n.shared.case) /\ n.column \in Columns \cup {0}
  <2>1. PICK id \in Uuid, p \in Uuid \cup {0}, c \in Columns \cup {0}, x \in Forms[profile].indexes,
             k \in Forms[profile].kinds \cap PageKinds :
                n = [id |-> id, parent |-> p, column |-> c, index |-> x, shared |-> Shared(k), blocks |-> <<>>]
    BY <1>3 DEF SectionNodes
  <2>2. Shared(k) \in Payloads /\ Shared(k).case = k
    BY <1>1, <1>2
  <2>3. <<>> \in Seq(Block) /\ id \in Spellings /\ x \in UInt32 /\ id # 0
    BY <1>1, UuidAssumption DEF Spellings
  <2>4. n \in Node
    BY <2>1, <2>2, <2>3 DEF Node
  <2> QED BY <2>1, <2>2, <2>3, <2>4
<1>4. ASSUME NEW n \in BlockNodes
      PROVE  /\ n \in Block /\ n.id \in Uuid /\ n.id # 0
             /\ n.shared.case \in RichKinds /\ n.shared = Shared(n.shared.case)
  <2>1. PICK id \in Uuid, p \in Uuid \cup {0}, x \in Forms[profile].indexes, k \in Forms[profile].kinds \cap RichKinds :
                n = [id |-> id, parent |-> p, index |-> x, shared |-> Shared(k)]
    BY <1>4 DEF BlockNodes
  <2>2. Shared(k) \in Payloads /\ Shared(k).case = k
    BY <1>1, <1>2
  <2>3. id \in Spellings /\ x \in UInt32 /\ id # 0
    BY <1>1, UuidAssumption DEF Spellings
  <2>4. n \in Block
    BY <2>1, <2>2, <2>3 DEF Block
  <2> QED BY <2>1, <2>2, <2>3, <2>4
<1> QED BY <1>1, <1>3, <1>4

\* What an edit gives a new section or block.
FirstValue(node) == [case |-> node.shared.case, text |-> "text"]

\* Nothing is said of what is not in a page.
LEMMA UnsaidOutside ==
    ASSUME profile = "page", NEW p, PageDocument(p), NEW id, id \notin AllIds(p)
    PROVE  \A l, v : ~SaysOf(p, l, id, v)
<1> SUFFICES ASSUME NEW l, NEW v, SaysOf(p, l, id, v) PROVE FALSE
  OBVIOUS
<1>1. PICK s : l \in Locales /\ EntrySays(p.overlays[l], s, id, v)
  BY SaysByEntry
<1>2. PICK n \in ToSet(p.nodes) : n.id = s /\ (id = s \/ \E b \in ToSet(n.blocks) : b.id = id)
  BY <1>1, EntryOf
<1> QED BY <1>2, OutsidePage

\* A new section of a page, with its value in the source locale.
LEMMA SectionInserted ==
    ASSUME profile = "page", profile \in DOMAIN Forms, NEW p, Document(p), NEW node \in SectionNodes, node.id \notin AllIds(p),
           NEW q, q = WithValue(WithLevel(p, 0, Append(Level(p, 0), node)), Source, 0, node.id, FirstValue(node))
    PROVE  Document(q) /\ Inserted(p, q, SectionShape(node), FirstValue(node))
<1> DEFINE t == WithLevel(p, 0, Append(Level(p, 0), node))
           value == FirstValue(node)
<1>1. PageDocument(p) /\ PageSource(p) /\ Source \in Locales
  BY DEF Document, Locales
<1>2. /\ node \in Node /\ node.id \in Uuid /\ node.blocks = <<>> /\ value \in Values /\ value.case = node.shared.case
      /\ Says(Source, value)
  BY NewNodes DEF Values, FirstValue, Texts, Says
<1>3. /\ PageDocument(t) /\ t.overlays = p.overlays /\ ToSet(t.nodes) = ToSet(p.nodes) \cup {node}
      /\ \A y : y \in ShapesOf(t) <=> y \in ShapesOf(p) \/ y = SectionShape(node)
  BY <1>1, <1>2, SectionPlaced1
<1> HIDE DEF value
<1>4. q = WithValue(t, Source, 0, node.id, value)
  BY DEF value
<1> HIDE DEF t
<1>5. /\ PageDocument(q) /\ Given(t, q, Source, node.id, value)
      /\ \E w : PagePut(t, q, Source, node.id, w) /\ (node.id \in DOMAIN t.overlays[Source] => w.blocks = t.overlays[Source][node.id].blocks)
  BY <1>1, <1>2, <1>3, <1>4, SectionGiven
<1>6. PICK w : PagePut(t, q, Source, node.id, w)
  BY <1>5
<1>7. \A n \in ToSet(p.nodes) : n.id # node.id
  BY <1>1, OutsidePage
<1>8. PageSource(q)
  <2>1. q.nodes = t.nodes /\ Put1(p.overlays[Source], q.overlays[Source], node.id, w)
    BY <1>3, <1>6 DEF PagePut
  <2>2. ASSUME NEW n \in ToSet(p.nodes)
        PROVE  n.id \in DOMAIN q.overlays[Source] /\ \A b \in ToSet(n.blocks) : b.id \in DOMAIN q.overlays[Source][n.id].blocks
    <3>1. n.id \in DOMAIN p.overlays[Source] /\ \A b \in ToSet(n.blocks) : b.id \in DOMAIN p.overlays[Source][n.id].blocks
      BY <1>1 DEF PageSource
    <3>2. n.id \in DOMAIN q.overlays[Source] /\ q.overlays[Source][n.id] = p.overlays[Source][n.id]
      BY <1>7, <2>1, <3>1 DEF Put1
    <3> QED BY <3>1, <3>2
  <2>3. node.id \in DOMAIN q.overlays[Source] /\ ToSet(node.blocks) = {}
    BY <1>2, <2>1 DEF Put1, ToSet
  <2> QED BY <1>3, <2>1, <2>2, <2>3 DEF PageSource
<1>9. \A l, id, v : SaysOf(t, l, id, v) <=> SaysOf(p, l, id, v)
  BY <1>3 DEF SaysOf, PageSays
<1>10. \A l, v : ~SaysOf(p, l, node.id, v)
  BY <1>1, UnsaidOutside
<1>11. SectionShape(node).id = node.id
  BY ShapeIds
<1>12. Inserted(p, q, SectionShape(node), value)
  <2>1. \A y : y \in ShapesOf(q) <=> y \in ShapesOf(p) \/ y = SectionShape(node)
    BY <1>3, <1>5 DEF Given, SameShapes
  <2>2. \A l, id, v : SaysOf(q, l, id, v) <=> SaysOf(p, l, id, v) \/ (l = Source /\ id = node.id /\ v = value)
    BY <1>5, <1>9, <1>10 DEF Given
  <2> QED BY <1>11, <2>1, <2>2 DEF Inserted
<1> QED BY <1>5, <1>8, <1>12 DEF Document, value

\* A new block of a section of rich text, with its value in the source locale.
LEMMA BlockInserted ==
    ASSUME profile = "page", profile \in DOMAIN Forms, NEW p, Document(p), NEW n \in ToSet(p.nodes), HasBlocks(n),
           NEW node \in BlockNodes, node.id \notin AllIds(p),
           NEW q, q = WithValue(WithLevel(p, n.id, Append(Level(p, n.id), node)), Source, n.id, node.id, FirstValue(node))
    PROVE  Document(q) /\ Inserted(p, q, BlockShape(n.id, node), FirstValue(node))
<1> DEFINE t == WithLevel(p, n.id, Append(Level(p, n.id), node))
           value == FirstValue(node)
           m == WithBlocks(n, Append(n.blocks, node))
<1>1. PageDocument(p) /\ PageSource(p) /\ Source \in Locales
  BY DEF Document, Locales
<1>2. /\ node \in Block /\ node.id \in Uuid /\ value \in Values /\ value.case = node.shared.case
      /\ Says(Source, value)
  BY NewNodes DEF Values, FirstValue, Texts, Says
<1>3. /\ PageDocument(t) /\ t.overlays = p.overlays /\ ToSet(t.nodes) = (ToSet(p.nodes) \ {n}) \cup {m}
      /\ m.id = n.id /\ m.shared = n.shared /\ ToSet(m.blocks) = ToSet(n.blocks) \cup {node}
      /\ \A y : y \in ShapesOf(t) <=> y \in ShapesOf(p) \/ y = BlockShape(n.id, node)
  BY <1>1, <1>2, BlockPlaced1
<1> HIDE DEF value
<1>4. q = WithValue(t, Source, n.id, node.id, value)
  BY DEF value
<1> HIDE DEF t, m
<1>5. n.id \in DOMAIN t.overlays[Source] /\ m \in ToSet(t.nodes) /\ node \in ToSet(m.blocks)
  BY <1>1, <1>3 DEF PageSource
<1>6. /\ PageDocument(q) /\ Given(t, q, Source, node.id, value)
      /\ \E w : /\ PagePut(t, q, Source, n.id, w) /\ node.id \in DOMAIN w.blocks
                /\ n.id \in DOMAIN t.overlays[Source] => DOMAIN t.overlays[Source][n.id].blocks \subseteq DOMAIN w.blocks
  <2>1. /\ PageDocument(q) /\ Given(t, q, Source, node.id, value)
        /\ \E w : /\ PagePut(t, q, Source, m.id, w) /\ node.id \in DOMAIN w.blocks
                  /\ m.id \in DOMAIN t.overlays[Source] => DOMAIN t.overlays[Source][m.id].blocks \subseteq DOMAIN w.blocks
    <3>1. q = WithValue(t, Source, m.id, node.id, value)
      BY <1>3, <1>4
    <3> QED BY <1>1, <1>2, <1>3, <1>5, <3>1, BlockGiven
  <2> QED BY <1>3, <2>1
<1>7. PICK w : /\ PagePut(t, q, Source, n.id, w) /\ node.id \in DOMAIN w.blocks
               /\ DOMAIN t.overlays[Source][n.id].blocks \subseteq DOMAIN w.blocks
  BY <1>5, <1>6
<1>8. PageSource(q)
  <2>1. q.nodes = t.nodes /\ Put1(p.overlays[Source], q.overlays[Source], n.id, w)
    BY <1>3, <1>7 DEF PagePut
  <2>2. ASSUME NEW k \in ToSet(p.nodes), k # n
        PROVE  k.id \in DOMAIN q.overlays[Source] /\ \A b \in ToSet(k.blocks) : b.id \in DOMAIN q.overlays[Source][k.id].blocks
    <3>1. k.id \in DOMAIN p.overlays[Source] /\ \A b \in ToSet(k.blocks) : b.id \in DOMAIN p.overlays[Source][k.id].blocks
      BY <1>1 DEF PageSource
    <3>2. k.id # n.id
      BY <1>1, <2>2, PageFacts
    <3>3. k.id \in DOMAIN q.overlays[Source] /\ q.overlays[Source][k.id] = p.overlays[Source][k.id]
      BY <2>1, <3>1, <3>2 DEF Put1
    <3> QED BY <3>1, <3>3
  <2>3. m.id \in DOMAIN q.overlays[Source] /\ \A b \in ToSet(m.blocks) : b.id \in DOMAIN q.overlays[Source][m.id].blocks
    <3>1. \A b \in ToSet(n.blocks) : b.id \in DOMAIN p.overlays[Source][n.id].blocks
      BY <1>1 DEF PageSource
    <3>2. n.id \in DOMAIN q.overlays[Source] /\ q.overlays[Source][n.id] = w
      BY <2>1 DEF Put1
    <3> QED BY <1>3, <1>7, <3>1, <3>2
  <2> QED BY <1>3, <2>1, <2>2, <2>3 DEF PageSource
<1>9. \A l, id, v : SaysOf(t, l, id, v) <=> SaysOf(p, l, id, v)
  BY <1>3 DEF SaysOf, PageSays
<1>10. \A l, v : ~SaysOf(p, l, node.id, v)
  BY <1>1, UnsaidOutside
<1>11. BlockShape(n.id, node).id = node.id
  BY ShapeIds
<1>12. Inserted(p, q, BlockShape(n.id, node), value)
  <2>1. \A y : y \in ShapesOf(q) <=> y \in ShapesOf(p) \/ y = BlockShape(n.id, node)
    BY <1>3, <1>6 DEF Given, SameShapes
  <2>2. \A l, id, v : SaysOf(q, l, id, v) <=> SaysOf(p, l, id, v) \/ (l = Source /\ id = node.id /\ v = value)
    BY <1>6, <1>9, <1>10 DEF Given
  <2> QED BY <1>11, <2>1, <2>2 DEF Inserted
<1> QED BY <1>6, <1>8, <1>12 DEF Document, value

\* What is upserted, as a shape.
ShapeAt(section, node) == IF profile = "page" /\ section = 0 THEN SectionShape(node) ELSE BlockShape(section, node)

\* An insertion brings a shape and its value.
LEMMA InsertEffect ==
    ASSUME profile \in DOMAIN Forms, NEW p, Document(p), NEW section, NEW node,
           node \in IF profile = "page" /\ section = 0 THEN SectionNodes ELSE BlockNodes,
           section # 0 => \E i \in Ranks(p, section) : p.nodes[i].shared.case = "rich-text",
           node.id \notin AllIds(p),
           NEW q, q = WithValue(WithLevel(p, section, Append(Level(p, section), node)), Source, section, node.id, FirstValue(node))
    PROVE  /\ Document(q) /\ Inserted(p, q, ShapeAt(section, node), FirstValue(node))
           /\ section \in Uuid \cup {0} /\ (profile = "post" => section = 0)
<1>1. profile \in {"page", "post"}
  BY NewNodes
<1>2. CASE profile = "page" /\ section = 0
  BY <1>2, SectionInserted DEF ShapeAt
<1>3. CASE profile = "page" /\ section # 0
  <2>1. PICK i \in Ranks(p, section) : p.nodes[i].shared.case = "rich-text"
    BY <1>3
  <2> DEFINE n == p.nodes[i]
  <2>2. n \in ToSet(p.nodes) /\ n.id = section /\ HasBlocks(n)
    BY <2>1 DEF Ranks, ToSet, HasBlocks
  <2> HIDE DEF n
  <2>3. n.id \in Uuid
    BY <1>3, <2>2, PageFacts DEF Document
  <2>4. node \in BlockNodes
    BY <1>3
  <2>5. Document(q) /\ Inserted(p, q, BlockShape(n.id, node), FirstValue(node))
    BY <1>3, <2>2, <2>4, BlockInserted
  <2> QED BY <1>3, <2>2, <2>3, <2>5 DEF ShapeAt
<1>4. CASE profile = "post"
  <2>1. PostDocument(p)
    BY <1>4 DEF Document
  <2>2. section = 0
    <3> SUFFICES ASSUME section # 0 PROVE FALSE
      OBVIOUS
    <3>1. PICK i \in Ranks(p, section) : p.nodes[i].shared.case = "rich-text"
      OBVIOUS
    <3>2. p.nodes[i] \in ToSet(p.nodes)
      BY <3>1 DEF Ranks, ToSet
    <3> QED BY <2>1, <3>1, <3>2 DEF PostDocument, RichKinds
  <2>3. node \in BlockNodes
    BY <1>4
  <2>4. /\ node \in Block /\ node.id \in Uuid /\ node.shared.case \in RichKinds
        /\ FirstValue(node) \in Values /\ FirstValue(node).case = node.shared.case
    BY <2>3, NewNodes DEF Values, FirstValue, Texts
  <2> DEFINE value == FirstValue(node)
  <2> HIDE DEF value
  <2>5. q = WithValue(WithLevel(p, 0, Append(Level(p, 0), node)), Source, 0, node.id, value)
    BY <2>2 DEF value
  <2>6. Document(q) /\ Inserted(p, q, BlockShape(0, node), value)
    BY <1>4, <2>4, <2>5, InsertedInPost DEF value
  <2> QED BY <1>4, <2>2, <2>6 DEF ShapeAt, value
<1> QED BY <1>1, <1>2, <1>3, <1>4

-------------------------------------------------------------------------------
\* A section or block of a level at another place, and the level with it there.
MovedTo(node, section, parent, column, index) ==
    IF profile = "page" /\ section = 0
    THEN [node EXCEPT !.parent = parent, !.column = column, !.index = index]
    ELSE [node EXCEPT !.parent = parent, !.index = index]
MovedOn(s, section, id, parent, column, index) ==
    [i \in DOMAIN s |-> IF s[i].id = id THEN MovedTo(s[i], section, parent, column, index) ELSE s[i]]

\* Where a move puts a section or block.
PlaceAt(section, parent, column, index) ==
    [parent |-> IF section # 0 /\ parent = 0 THEN section ELSE parent,
     slot |-> IF profile = "page" /\ section = 0 THEN (IF column = 0 THEN Sections ELSE Column(column)) ELSE Content,
     pos |-> int32(index)]

\* Only one of a level is moved.
LEMMA MovedOne ==
    ASSUME NEW s, DistinctIds(s), NEW x \in ToSet(s), NEW section, NEW parent, NEW column, NEW index
    PROVE  MovedOn(s, section, x.id, parent, column, index) = Swapped(s, x, MovedTo(x, section, parent, column, index))
<1>1. PICK j \in DOMAIN s : s[j] = x
  BY DEF ToSet
<1>2. \A i \in DOMAIN s : s[i].id = x.id => s[i] = x
  BY <1>1 DEF DistinctIds
<1> QED BY <1>2 DEF MovedOn, Swapped

\* A section or block that is moved is what it was.
LEMMA MovedTyped ==
    ASSUME NEW section, NEW parent \in Uuid \cup {0}, NEW column \in Columns \cup {0}, NEW index \in UInt32
    PROVE  /\ profile = "page" /\ section = 0 =>
                \A n \in Node : LET m == MovedTo(n, section, parent, column, index)
                                IN /\ m \in Node /\ m.id = n.id /\ m.shared = n.shared /\ m.blocks = n.blocks
                                   /\ m.parent = parent /\ m.column = column /\ m.index = index
           /\ ~(profile = "page" /\ section = 0) =>
                \A n \in Block : LET m == MovedTo(n, section, parent, column, index)
                                 IN /\ m \in Block /\ m.id = n.id /\ m.shared = n.shared
                                    /\ m.parent = parent /\ m.index = index
<1>1. CASE profile = "page" /\ section = 0
  <2> SUFFICES ASSUME NEW n \in Node
               PROVE  LET m == MovedTo(n, section, parent, column, index)
                      IN /\ m \in Node /\ m.id = n.id /\ m.shared = n.shared /\ m.blocks = n.blocks
                         /\ m.parent = parent /\ m.column = column /\ m.index = index
    BY <1>1
  <2>1. MovedTo(n, section, parent, column, index) = [n EXCEPT !.parent = parent, !.column = column, !.index = index]
    BY <1>1 DEF MovedTo
  <2> QED BY <2>1 DEF Node
<1>2. CASE ~(profile = "page" /\ section = 0)
  <2> SUFFICES ASSUME NEW n \in Block
               PROVE  LET m == MovedTo(n, section, parent, column, index)
                      IN m \in Block /\ m.id = n.id /\ m.shared = n.shared /\ m.parent = parent /\ m.index = index
    BY <1>2
  <2>1. MovedTo(n, section, parent, column, index) = [n EXCEPT !.parent = parent, !.index = index]
    BY <1>2 DEF MovedTo
  <2> QED BY <2>1 DEF Block
<1> QED BY <1>1, <1>2

\* Relocating depends on the parent, the slot and the position only.
LEMMA RelocatedTo ==
    ASSUME NEW p, NEW q, NEW id, NEW x, NEW y, y.parent = x.parent, y.slot = x.slot, y.pos = x.pos, Relocated(p, q, id, x)
    PROVE  Relocated(p, q, id, y)
<1>1. \A s : At(s, y) = At(s, x)
  BY DEF At
<1> QED BY <1>1 DEF Relocated

\* A move puts a section or block where it says.
LEMMA MoveEffect ==
    ASSUME profile \in DOMAIN Forms, NEW p, Document(p), NEW section, NEW id, Placed(p, section, id),
           NEW parent \in Uuid \cup {0}, NEW column \in Columns \cup {0}, NEW index \in UInt32,
           NEW q, q = WithLevel(p, section, MovedOn(Level(p, section), section, id, parent, column, index))
    PROVE  /\ Document(q) /\ Relocated(p, q, id, PlaceAt(section, parent, column, index))
           /\ profile = "post" => section = 0
<1> DEFINE place == PlaceAt(section, parent, column, index)
<1>1. profile \in {"page", "post"}
  BY NewNodes
<1>2. CASE profile = "page" /\ section = 0
  <2>1. PageDocument(p) /\ PageSource(p)
    BY <1>2 DEF Document
  <2>2. PICK n \in ToSet(p.nodes) : n.id = id
    BY <1>2, <2>1, PlacedOnPage
  <2> DEFINE m == MovedTo(n, section, parent, column, index)
  <2>3. n \in Node /\ DistinctIds(p.nodes)
    BY <2>1, PageFacts
  <2>4. /\ m \in Node /\ m.id = n.id /\ m.shared = n.shared /\ m.blocks = n.blocks
        /\ m.parent = parent /\ m.column = column /\ m.index = index
    BY <1>2, <2>3, MovedTyped
  <2>5. q = WithLevel(p, 0, Swapped(p.nodes, n, m))
    BY <1>2, <2>2, <2>3, MovedOne DEF Level
  <2> HIDE DEF m
  <2>6. /\ PageDocument(q) /\ q.overlays = p.overlays /\ ToSet(q.nodes) = (ToSet(p.nodes) \ {n}) \cup {m}
        /\ ShapeMoved(p, q, n.id, SectionShape(m))
    BY <1>2, <2>1, <2>4, <2>5, SectionMoved
  <2>7. PageSource(q)
    BY <2>1, <2>4, <2>6 DEF PageSource
  <2>8. Relocated(p, q, n.id, SectionShape(m))
    <3>1. SameSays(p, q)
      BY <2>6 DEF SameSays, SaysOf, PageSays, PostSays
    <3> QED BY <2>6, <3>1 DEF Relocated, ShapeMoved
  <2>9. place.parent = SectionShape(m).parent /\ place.slot = SectionShape(m).slot /\ place.pos = SectionShape(m).pos
    BY <1>2, <2>4 DEF PlaceAt, SectionShape
  <2> HIDE DEF place
  <2>10. Relocated(p, q, n.id, place)
    BY <2>8, <2>9, RelocatedTo
  <2> QED BY <1>2, <2>2, <2>6, <2>7, <2>10 DEF Document, place
<1>3. CASE profile = "page" /\ section # 0
  <2>1. PageDocument(p) /\ PageSource(p)
    BY <1>3 DEF Document
  <2>2. PICK n \in ToSet(p.nodes) : n.id = section /\ \E b \in ToSet(n.blocks) : b.id = id
    BY <1>3, <2>1, PlacedOnPage
  <2>3. PICK b \in ToSet(n.blocks) : b.id = id
    BY <2>2
  <2> DEFINE c == MovedTo(b, section, parent, column, index)
             m == WithBlocks(n, Swapped(n.blocks, b, c))
  <2>4. DistinctIds(p.nodes) /\ DistinctIds(n.blocks) /\ b \in Block
    BY <2>1, PageFacts
  <2>5. c \in Block /\ c.id = b.id /\ c.shared = b.shared /\ c.parent = parent /\ c.index = index
    BY <1>3, <2>4, MovedTyped
  <2>6. q = WithLevel(p, n.id, Swapped(n.blocks, b, c))
    <3>1. Level(p, section) = n.blocks
      BY <1>3, <2>2, <2>4, RankOf DEF Level
    <3>2. MovedOn(n.blocks, section, b.id, parent, column, index) = Swapped(n.blocks, b, c)
      BY <2>4, MovedOne
    <3> QED BY <2>2, <2>3, <3>1, <3>2
  <2> HIDE DEF c
  <2>7. /\ PageDocument(q) /\ q.overlays = p.overlays /\ ToSet(q.nodes) = (ToSet(p.nodes) \ {n}) \cup {m}
        /\ m.id = n.id /\ m.shared = n.shared /\ ToSet(m.blocks) = (ToSet(n.blocks) \ {b}) \cup {c}
        /\ ShapeMoved(p, q, b.id, BlockShape(n.id, c))
    BY <1>3, <2>1, <2>5, <2>6, BlockMoved
  <2> HIDE DEF m
  <2>8. PageSource(q)
    <3> SUFFICES ASSUME NEW k \in ToSet(q.nodes)
                 PROVE  k.id \in DOMAIN p.overlays[Source] /\ \A d \in ToSet(k.blocks) : d.id \in DOMAIN p.overlays[Source][k.id].blocks
      BY <2>7 DEF PageSource
    <3>1. \A j \in ToSet(p.nodes) : /\ j.id \in DOMAIN p.overlays[Source]
                                    /\ \A d \in ToSet(j.blocks) : d.id \in DOMAIN p.overlays[Source][j.id].blocks
      BY <2>1 DEF PageSource
    <3>2. CASE k = m
      BY <2>5, <2>7, <3>1, <3>2
    <3>3. CASE k # m
      BY <2>7, <3>1, <3>3
    <3> QED BY <3>2, <3>3
  <2>9. Relocated(p, q, b.id, BlockShape(n.id, c))
    <3>1. SameSays(p, q)
      BY <2>7 DEF SameSays, SaysOf, PageSays, PostSays
    <3> QED BY <2>7, <3>1 DEF Relocated, ShapeMoved
  <2>10. place.parent = BlockShape(n.id, c).parent /\ place.slot = BlockShape(n.id, c).slot /\ place.pos = BlockShape(n.id, c).pos
    BY <1>3, <2>2, <2>5 DEF PlaceAt, BlockShape
  <2> HIDE DEF place
  <2>11. Relocated(p, q, b.id, place)
    BY <2>9, <2>10, RelocatedTo
  <2> QED BY <1>3, <2>3, <2>7, <2>8, <2>11 DEF Document, place
<1>4. CASE profile = "post"
  <2>1. PostDocument(p)
    BY <1>4 DEF Document
  <2>2. section = 0 /\ \E n \in ToSet(p.nodes) : n.id = id
    BY <1>4, PlacedInPost
  <2>3. PICK n \in ToSet(p.nodes) : n.id = id
    BY <2>2
  <2> DEFINE m == MovedTo(n, section, parent, column, index)
             nodes == Swapped(p.nodes, n, m)
  <2>4. n \in Block /\ p.nodes \in Seq(Block) /\ DistinctIds(p.nodes)
    BY <2>1, SequenceElements DEF PostDocument
  <2>5. m \in Block /\ m.id = n.id /\ m.shared = n.shared /\ m.parent = parent /\ m.index = index
    BY <1>4, <2>4, MovedTyped
  <2>6. q = WithLevel(p, 0, nodes)
    BY <2>2, <2>3, <2>4, MovedOne DEF Level
  <2> HIDE DEF m
  <2>7. nodes \in Seq(Block) /\ DistinctIds(nodes) /\ ToSet(nodes) = (ToSet(p.nodes) \ {n}) \cup {m}
    BY <2>4, <2>5, Replaced
  <2> HIDE DEF nodes
  <2>8. Document(q) /\ Relocated(p, q, n.id, BlockShape(0, m))
    BY <1>4, <2>5, <2>6, <2>7, RelocatedInPost
  <2>9. place.parent = BlockShape(0, m).parent /\ place.slot = BlockShape(0, m).slot /\ place.pos = BlockShape(0, m).pos
    BY <1>4, <2>2, <2>5 DEF PlaceAt, BlockShape
  <2> HIDE DEF place
  <2>10. Relocated(p, q, n.id, place)
    BY <2>8, <2>9, RelocatedTo
  <2> QED BY <2>2, <2>3, <2>8, <2>10 DEF place
<1> QED BY <1>1, <1>2, <1>3, <1>4

\* A delete takes a section or block with its values.
LEMMA DeleteEffect ==
    ASSUME profile \in DOMAIN Forms, NEW p, Document(p), NEW section, NEW id, Placed(p, section, id),
           section = 0 => Blocks(p, id) = <<>>,
           NEW q, q = Cleared(WithLevel(p, section, LeftOf(Level(p, section), id)), section, id)
    PROVE  /\ Document(q) /\ Removed(p, q, id)
           /\ profile = "post" => section = 0
<1>1. profile \in {"page", "post"}
  BY NewNodes
<1>2. CASE profile = "page"
  <2>1. PageDocument(p)
    BY <1>2 DEF Document
  <2>2. CASE section = 0
    <3>1. PICK n \in ToSet(p.nodes) : n.id = id
      BY <1>2, <2>1, <2>2, PlacedOnPage
    <3> DEFINE nodes == LeftOf(p.nodes, id)
               left == WithLevel(p, 0, nodes)
    <3>2. p.nodes \in Seq(Node) /\ DistinctIds(p.nodes)
      BY <2>1, PageFacts
    <3>3. /\ nodes \in Seq(Node) /\ DistinctIds(nodes)
          /\ \A x : x \in ToSet(nodes) <=> x \in ToSet(p.nodes) /\ x.id # id
      BY <3>2, Others
    <3>4. n.blocks = <<>>
      BY <1>2, <2>2, <3>1, <3>2, RankOf
    <3>5. q = Cleared(left, 0, n.id)
      BY <2>2, <3>1 DEF Level
    <3> HIDE DEF left
    <3>6. left = WithLevel(p, 0, nodes)
      BY DEF left
    <3> HIDE DEF nodes
    <3> QED BY <1>2, <3>1, <3>3, <3>4, <3>5, <3>6, SectionRemoved
  <2>3. CASE section # 0
    <3>1. PICK n \in ToSet(p.nodes) : n.id = section /\ \E b \in ToSet(n.blocks) : b.id = id
      BY <1>2, <2>1, <2>3, PlacedOnPage
    <3>2. PICK b \in ToSet(n.blocks) : b.id = id
      BY <3>1
    <3> DEFINE blocks == LeftOf(n.blocks, id)
               left == WithLevel(p, n.id, blocks)
    <3>3. DistinctIds(p.nodes) /\ n.blocks \in Seq(Block) /\ DistinctIds(n.blocks)
      BY <2>1, PageFacts
    <3>4. /\ blocks \in Seq(Block) /\ DistinctIds(blocks)
          /\ \A x : x \in ToSet(blocks) <=> x \in ToSet(n.blocks) /\ x.id # id
      BY <3>3, Others
    <3>5. q = Cleared(left, n.id, b.id)
      <4>1. Level(p, section) = n.blocks
        BY <1>2, <2>3, <3>1, <3>3, RankOf DEF Level
      <4> QED BY <3>1, <3>2, <4>1
    <3> HIDE DEF left
    <3>6. left = WithLevel(p, n.id, blocks)
      BY DEF left
    <3> HIDE DEF blocks
    <3> QED BY <1>2, <3>2, <3>4, <3>5, <3>6, BlockRemoved
  <2> QED BY <1>2, <2>2, <2>3
<1>3. CASE profile = "post"
  <2>1. section = 0 /\ \E n \in ToSet(p.nodes) : n.id = id
    BY <1>3, PlacedInPost
  <2>2. PICK n \in ToSet(p.nodes) : n.id = id
    BY <2>1
  <2> DEFINE nodes == LeftOf(p.nodes, id)
             left == WithLevel(p, 0, nodes)
  <2>3. p.nodes \in Seq(Block) /\ DistinctIds(p.nodes)
    BY <1>3 DEF Document, PostDocument
  <2>4. /\ nodes \in Seq(Block) /\ DistinctIds(nodes)
        /\ \A x : x \in ToSet(nodes) <=> x \in ToSet(p.nodes) /\ x.id # id
    BY <2>3, Others
  <2>5. q = Cleared(left, 0, n.id)
    BY <2>1, <2>2 DEF Level
  <2> HIDE DEF left
  <2>6. left = WithLevel(p, 0, nodes)
    BY DEF left
  <2> HIDE DEF nodes
  <2>7. Document(q) /\ Removed(p, q, n.id)
    BY <1>3, <2>2, <2>4, <2>5, <2>6, RemovedInPost
  <2> QED BY <2>1, <2>2, <2>7
<1> QED BY <1>1, <1>2, <1>3

\* The kind of what is placed on a level.
LEMMA KindOnLevel ==
    ASSUME NEW p, NEW section, NEW x \in ToSet(Level(p, section)), DistinctIds(Level(p, section))
    PROVE  KindAt(p, section, x.id) = x.shared.case
<1> DEFINE s == Level(p, section)
<1>1. PICK j \in DOMAIN s : s[j] = x
  BY DEF ToSet
<1>2. \A i \in DOMAIN s : s[i].id = x.id => i = j
  BY <1>1 DEF DistinctIds
<1>3. (CHOOSE i \in DOMAIN s : s[i].id = x.id) = j
  BY <1>1, <1>2
<1> QED BY <1>1, <1>3 DEF KindAt

\* A new translation gives a value.
LEMMA TranslateEffect ==
    ASSUME profile \in DOMAIN Forms, NEW p, Document(p), NEW section, NEW id, Placed(p, section, id), NEW l \in Locales,
           NEW value, value = [case |-> KindAt(p, section, id), text |-> "new"],
           NEW q, q = WithValue(p, l, section, id, value)
    PROVE  /\ Document(q) /\ Given(p, q, l, id, value) /\ value \in Values
           /\ \E x \in ShapesOf(p) : x.id = id /\ x.kind = value.case
           /\ profile = "post" => section = 0 /\ value.case \in RichKinds
<1>1. profile \in {"page", "post"}
  BY NewNodes
<1>2. CASE profile = "page"
  <2>1. PageDocument(p) /\ PageSource(p)
    BY <1>2 DEF Document
  <2>2. CASE section = 0
    <3>1. PICK n \in ToSet(p.nodes) : n.id = id
      BY <1>2, <2>1, <2>2, PlacedOnPage
    <3>2. DistinctIds(p.nodes) /\ n \in Node
      BY <2>1, PageFacts
    <3>3. KindAt(p, section, id) = n.shared.case
      BY <2>2, <3>1, <3>2, KindOnLevel DEF Level
    <3>4. value \in Values /\ value.case = n.shared.case /\ Says(l, value)
      BY <3>2, <3>3 DEF Values, Texts, Says, Node, Payloads, AnyKind
    <3>5. /\ PageDocument(q) /\ Given(p, q, l, n.id, value)
          /\ \E w : PagePut(p, q, l, n.id, w) /\ (n.id \in DOMAIN p.overlays[l] => w.blocks = p.overlays[l][n.id].blocks)
      BY <1>2, <2>1, <2>2, <3>1, <3>4, SectionGiven
    <3>6. PICK w : PagePut(p, q, l, n.id, w) /\ (n.id \in DOMAIN p.overlays[l] => w.blocks = p.overlays[l][n.id].blocks)
      BY <3>5
    <3>7. l = Source => \A b \in ToSet(n.blocks) : b.id \in DOMAIN w.blocks
      BY <2>1, <3>6 DEF PageSource
    <3>8. PageSource(q)
      BY <2>1, <3>6, <3>7, EntryKeepsSource
    <3>9. SectionShape(n) \in ShapesOf(p) /\ SectionShape(n).id = id /\ SectionShape(n).kind = value.case
      BY <1>2, <3>1, <3>4, ShapesElements DEF ShapesOf, SectionShape
    <3> QED BY <1>2, <3>1, <3>4, <3>5, <3>8, <3>9 DEF Document
  <2>3. CASE section # 0
    <3>1. PICK n \in ToSet(p.nodes) : n.id = section /\ \E b \in ToSet(n.blocks) : b.id = id
      BY <1>2, <2>1, <2>3, PlacedOnPage
    <3>2. PICK b \in ToSet(n.blocks) : b.id = id
      BY <3>1
    <3>3. DistinctIds(p.nodes) /\ DistinctIds(n.blocks) /\ b \in Block
      BY <2>1, PageFacts
    <3>4. Level(p, section) = n.blocks
      BY <1>2, <2>3, <3>1, <3>3, RankOf DEF Level
    <3>5. KindAt(p, section, id) = b.shared.case
      BY <3>2, <3>3, <3>4, KindOnLevel
    <3>6. value \in Values /\ value.case = b.shared.case /\ Says(l, value)
      BY <3>3, <3>5 DEF Values, Texts, Says, Block, Payloads, AnyKind
    <3>7. l = Source => n.id \in DOMAIN p.overlays[l]
      BY <2>1 DEF PageSource
    <3>8. q = WithValue(p, l, n.id, b.id, value)
      BY <3>1, <3>2
    <3>9. /\ PageDocument(q) /\ Given(p, q, l, b.id, value)
          /\ \E w : /\ PagePut(p, q, l, n.id, w) /\ b.id \in DOMAIN w.blocks
                    /\ n.id \in DOMAIN p.overlays[l] => DOMAIN p.overlays[l][n.id].blocks \subseteq DOMAIN w.blocks
      BY <1>2, <2>1, <3>6, <3>7, <3>8, BlockGiven
    <3>10. PICK w : /\ PagePut(p, q, l, n.id, w)
                    /\ n.id \in DOMAIN p.overlays[l] => DOMAIN p.overlays[l][n.id].blocks \subseteq DOMAIN w.blocks
      BY <3>9
    <3>11. l = Source => \A c \in ToSet(n.blocks) : c.id \in DOMAIN w.blocks
      BY <2>1, <3>10 DEF PageSource
    <3>12. PageSource(q)
      BY <2>1, <3>10, <3>11, EntryKeepsSource
    <3>13. BlockShape(n.id, b) \in ShapesOf(p) /\ BlockShape(n.id, b).id = id /\ BlockShape(n.id, b).kind = value.case
      BY <1>2, <3>2, <3>6, ShapesElements DEF ShapesOf, BlockShape
    <3> QED BY <1>2, <3>2, <3>6, <3>9, <3>12, <3>13 DEF Document
  <2> QED BY <1>2, <2>2, <2>3
<1>3. CASE profile = "post"
  <2>1. section = 0 /\ \E n \in ToSet(p.nodes) : n.id = id
    BY <1>3, PlacedInPost
  <2>2. PICK n \in ToSet(p.nodes) : n.id = id
    BY <2>1
  <2>3. DistinctIds(p.nodes) /\ n.shared.case \in RichKinds
    BY <1>3 DEF Document, PostDocument
  <2>4. KindAt(p, section, id) = n.shared.case
    BY <2>1, <2>2, <2>3, KindOnLevel DEF Level
  <2>5. value \in Values /\ value.case = n.shared.case /\ Says(l, value) /\ value.case \in RichKinds
    BY <2>3, <2>4 DEF Values, Texts, Says
  <2>6. Document(q) /\ Given(p, q, l, n.id, value)
    BY <1>3, <2>1, <2>2, <2>5, GivenInPost
  <2>7. BlockShape(0, n) \in ShapesOf(p) /\ BlockShape(0, n).id = id /\ BlockShape(0, n).kind = value.case
    BY <1>3, <2>2, <2>5, ShapesElements DEF ShapesOf, BlockShape
  <2> QED BY <2>1, <2>2, <2>5, <2>6, <2>7
<1> QED BY <1>1, <1>2, <1>3

\* A translation that is removed takes a value of another locale.
LEMMA RemoveEffect ==
    ASSUME profile \in DOMAIN Forms, NEW p, Document(p), NEW section, NEW id, Placed(p, section, id),
           NEW l \in Locales \ {Source}, NEW q, q = WithoutValue(p, l, section, id)
    PROVE  /\ Document(q) /\ Taken(p, q, l, id)
           /\ \E x \in ShapesOf(p) : x.id = id
           /\ profile = "post" => section = 0
<1>1. profile \in {"page", "post"}
  BY NewNodes
<1>2. CASE profile = "page"
  <2>1. PageDocument(p) /\ PageSource(p)
    BY <1>2 DEF Document
  <2>2. CASE section = 0
    <3>1. PICK n \in ToSet(p.nodes) : n.id = id
      BY <1>2, <2>1, <2>2, PlacedOnPage
    <3>2. PageDocument(q) /\ Taken(p, q, l, n.id) /\ q.nodes = p.nodes /\ q.overlays[Source] = p.overlays[Source]
      BY <1>2, <2>1, <2>2, <3>1, SectionTaken
    <3>3. PageSource(q)
      BY <2>1, <3>2 DEF PageSource
    <3>4. SectionShape(n) \in ShapesOf(p) /\ SectionShape(n).id = id
      BY <1>2, <3>1, ShapesElements DEF ShapesOf, SectionShape
    <3> QED BY <1>2, <3>1, <3>2, <3>3, <3>4 DEF Document
  <2>3. CASE section # 0
    <3>1. PICK n \in ToSet(p.nodes) : n.id = section /\ \E b \in ToSet(n.blocks) : b.id = id
      BY <1>2, <2>1, <2>3, PlacedOnPage
    <3>2. PICK b \in ToSet(n.blocks) : b.id = id
      BY <3>1
    <3>3. PageDocument(q) /\ Taken(p, q, l, b.id) /\ q.nodes = p.nodes /\ q.overlays[Source] = p.overlays[Source]
      BY <1>2, <2>1, <3>1, <3>2, BlockTaken
    <3>4. PageSource(q)
      BY <2>1, <3>3 DEF PageSource
    <3>5. BlockShape(n.id, b) \in ShapesOf(p) /\ BlockShape(n.id, b).id = id
      BY <1>2, <3>2, ShapesElements DEF ShapesOf, BlockShape
    <3> QED BY <1>2, <3>2, <3>3, <3>4, <3>5 DEF Document
  <2> QED BY <1>2, <2>2, <2>3
<1>3. CASE profile = "post"
  <2>1. section = 0 /\ \E n \in ToSet(p.nodes) : n.id = id
    BY <1>3, PlacedInPost
  <2>2. Document(q) /\ Taken(p, q, l, id)
    BY <1>3, <2>1, TakenInPost
  <2>3. PICK n \in ToSet(p.nodes) : n.id = id
    BY <2>1
  <2>4. BlockShape(0, n) \in ShapesOf(p) /\ BlockShape(0, n).id = id
    BY <1>3, <2>3, ShapesElements DEF ShapesOf, BlockShape
  <2> QED BY <2>1, <2>2, <2>4
<1> QED BY <1>1, <1>2, <1>3

(***************************************************************************)
(* What editors have made, and what the store receives of it.              *)
(***************************************************************************)
Places == IF profile = "page" THEN Uuid \cup {0} ELSE {0}

NodesAt(section) == IF profile = "page" /\ section = 0 THEN SectionNodes ELSE BlockNodes

UpsertMutations == UNION {[op : {"upsert"}, section : {section}, node : NodesAt(section)] : section \in Places}
DeleteMutations == [op : {"delete"}, section : Places, id : Uuid]
MoveMutations ==
    [op : {"move"}, section : Places, id : Uuid, parent : Uuid \cup {0}, column : Columns \cup {0}, index : UInt32]
BaseMutations == UpsertMutations \cup DeleteMutations \cup MoveMutations

ValueMutations == [op : {"upsert"}, id : Uuid, value : Values] \cup [op : {"delete"}, id : Uuid]

MadeGroups == [locale : Locales, mutations : Seq(ValueMutations)]

\* The rows of a batch: what is new, what is moved and what is translated.
NewRows == [id : Uuid, parent : Uuid \cup {0}, slot : RowSlots, pos : Int32, kind : AnyKind, shared : Payloads]
MoveRows == [id : Uuid, parent : Uuid \cup {0}, slot : RowSlots, pos : Int32]
RowGroups == [locale : Locales, upserts : Seq([id : Uuid, value : Values]), deletes : Seq(Uuid)]

\* Whatever an id is spelled like, it is the same id.
LEMMA Respelled ==
    ASSUME NEW spelling \in {1, -1}
    PROVE  /\ \A id \in Uuid \cup {0} : normalizeUUID(spelling * id) = id /\ (spelling * id = 0 <=> id = 0)
           /\ \A c \in Columns \cup {0} : normalizeUUID(spelling * c) = c /\ (spelling * c = 0 <=> c = 0)
<1>1. Uuid \cup {0} \subseteq Nat /\ Columns \cup {0} \subseteq Nat
  BY UuidAssumption, ColumnsAssumption
<1>2. \A n \in Nat : normalizeUUID(n) = n /\ normalizeUUID(-n) = n
  BY DEF normalizeUUID
<1>3. CASE spelling = 1
  <2>1. \A n \in Nat : spelling * n = n
    BY <1>3
  <2> QED BY <1>1, <1>2, <2>1
<1>4. CASE spelling = -1
  <2>1. \A n \in Nat : spelling * n = -n /\ (-n = 0 <=> n = 0)
    BY <1>4
  <2> QED BY <1>1, <1>2, <2>1
<1> QED BY <1>3, <1>4

\* The sorts of base mutations.
LEMMA BaseMutationSorts ==
    ASSUME NEW m \in BaseMutations
    PROVE  /\ m.op = "upsert" \/ m.op = "delete" \/ m.op = "move"
           /\ m.section \in Places
           /\ m.op = "upsert" => m = [op |-> "upsert", section |-> m.section, node |-> m.node] /\ m.node \in NodesAt(m.section)
           /\ m.op = "delete" => m = [op |-> "delete", section |-> m.section, id |-> m.id] /\ m.id \in Uuid
           /\ m.op = "move" => /\ m = [op |-> "move", section |-> m.section, id |-> m.id, parent |-> m.parent,
                                       column |-> m.column, index |-> m.index]
                               /\ m.id \in Uuid /\ m.parent \in Uuid \cup {0} /\ m.column \in Columns \cup {0} /\ m.index \in UInt32
<1>1. CASE m \in UpsertMutations
  <2>1. PICK section \in Places : m \in [op : {"upsert"}, section : {section}, node : NodesAt(section)]
    BY <1>1 DEF UpsertMutations
  <2> QED BY <2>1
<1>2. CASE m \in DeleteMutations
  BY <1>2 DEF DeleteMutations
<1>3. CASE m \in MoveMutations
  BY <1>3 DEF MoveMutations
<1> QED BY <1>1, <1>2, <1>3 DEF BaseMutations

\* The shape of what is upserted is a row without values.
LEMMA ShapeTyped ==
    ASSUME profile \in DOMAIN Forms, NEW section \in Places, NEW node \in NodesAt(section)
    PROVE  /\ ShapeAt(section, node) \in NewRows
           /\ ShapeAt(section, node).id = node.id /\ ShapeAt(section, node).kind = node.shared.case
           /\ ShapeAt(section, node).shared = Shared(node.shared.case)
           /\ ShapeAt(section, node).slot = Content => node \in BlockNodes
           /\ ShapeAt(section, node).slot = Content /\ profile = "page" => ShapeAt(section, node).parent # 0
<1>1. CASE profile = "page" /\ section = 0
  <2>1. /\ node \in Node /\ node.id \in Uuid /\ node.shared = Shared(node.shared.case) /\ node.column \in Columns \cup {0}
    BY <1>1, NewNodes DEF NodesAt
  <2>2. node.shared \in Payloads /\ node.shared.case \in AnyKind /\ node.parent \in Uuid \cup {0} /\ node.index \in UInt32
    BY <2>1 DEF Node, Payloads
  <2>p. int32(node.index) \in Int32
    BY <2>2, Conversions
  <2>3. ShapeAt(section, node) = SectionShape(node)
    BY <1>1 DEF ShapeAt
  <2>4. (IF node.column = 0 THEN Sections ELSE Column(node.column)) \in RowSlots
    BY <2>1 DEF RowSlots
  <2>5. SectionShape(node).slot # Content
    BY SlotsDiffer DEF SectionShape
  <2> QED BY <2>p, <2>1, <2>2, <2>3, <2>4, <2>5 DEF SectionShape, NewRows
<1>2. CASE ~(profile = "page" /\ section = 0)
  <2>1. node \in BlockNodes
    BY <1>2 DEF NodesAt
  <2>2. /\ node \in Block /\ node.id \in Uuid /\ node.shared = Shared(node.shared.case)
    BY <2>1, NewNodes
  <2>3. node.shared \in Payloads /\ node.shared.case \in AnyKind /\ node.parent \in Uuid \cup {0} /\ node.index \in UInt32
    BY <2>2 DEF Block, Payloads
  <2>p. int32(node.index) \in Int32
    BY <2>3, Conversions
  <2>4. ShapeAt(section, node) = BlockShape(section, node)
    BY <1>2 DEF ShapeAt
  <2>5. Content \in RowSlots /\ section \in Uuid \cup {0} /\ (profile = "page" => section # 0)
    BY <1>2 DEF RowSlots, Places
  <2> QED BY <2>p, <2>1, <2>2, <2>3, <2>4, <2>5 DEF BlockShape, NewRows
<1> QED BY <1>1, <1>2

\* A node as it is sent.
LEMMA NodeSent ==
    ASSUME NEW m, NEW spelling, NEW k, k = SpelledNode(m, spelling)
    PROVE  /\ profile = "page" /\ m.section = 0 /\ m.node \in Node =>
                /\ k.id = spelling * m.node.id /\ k.parent = spelling * m.node.parent
                /\ k.column = spelling * m.node.column /\ k.index = m.node.index /\ k.shared = m.node.shared
           /\ ~(profile = "page" /\ m.section = 0) /\ m.node \in Block =>
                /\ k.id = spelling * m.node.id /\ k.parent = spelling * m.node.parent
                /\ k.index = m.node.index /\ k.shared = m.node.shared
<1>1. ASSUME profile = "page", m.section = 0, m.node \in Node
      PROVE  /\ k.id = spelling * m.node.id /\ k.parent = spelling * m.node.parent
             /\ k.column = spelling * m.node.column /\ k.index = m.node.index /\ k.shared = m.node.shared
  BY <1>1 DEF SpelledNode, Node
<1>2. ASSUME ~(profile = "page" /\ m.section = 0), m.node \in Block
      PROVE  /\ k.id = spelling * m.node.id /\ k.parent = spelling * m.node.parent
             /\ k.index = m.node.index /\ k.shared = m.node.shared
  BY <1>2 DEF SpelledNode, Block
<1> QED BY <1>1, <1>2

\* An upsert as it is sent.
LEMMA UpsertSent ==
    ASSUME NEW m, m = [op |-> "upsert", section |-> m.section, node |-> m.node], NEW spelling,
           NEW w, w = Spelled(m, spelling)
    PROVE  w.op = "upsert" /\ w.section = spelling * m.section /\ w.node = SpelledNode(m, spelling)
BY DEF Spelled

UpsertOf(m) == IF profile = "page" THEN UpsertRow(m) ELSE RichUpsertRow(m)

\* The row of an upsert is its shape, in any spelling.
LEMMA UpsertRows ==
    ASSUME profile \in DOMAIN Forms, NEW m \in BaseMutations, m.op = "upsert", NEW spelling \in {1, -1}
    PROVE  Spelled(m, spelling).op = "upsert" /\ UpsertOf(Spelled(m, spelling)) = ShapeAt(m.section, m.node)
<1> DEFINE n == m.node
           w == Spelled(m, spelling)
<1>1. m = [op |-> "upsert", section |-> m.section, node |-> m.node] /\ m.section \in Places /\ n \in NodesAt(m.section)
  BY BaseMutationSorts
<1>2. m.section \in Uuid \cup {0}
  BY <1>1 DEF Places
<1> HIDE DEF w
<1>w. w.op = "upsert" /\ w.section = spelling * m.section /\ w.node = SpelledNode(m, spelling)
  BY <1>1, UpsertSent DEF w
<1>3. CASE profile = "page" /\ m.section = 0
  <2>1. /\ n \in Node /\ n.id \in Uuid /\ n.column \in Columns \cup {0} /\ n.parent \in Uuid \cup {0}
    BY <1>1, <1>3, NewNodes DEF NodesAt, Node
  <2>4. /\ w.node.id = spelling * n.id /\ w.node.parent = spelling * n.parent /\ w.node.column = spelling * n.column
        /\ w.node.index = n.index /\ w.node.shared = n.shared
    BY <1>w, <1>3, <2>1, NodeSent
  <2>5. /\ spelling * m.section = 0 /\ normalizeUUID(spelling * n.id) = n.id /\ normalizeUUID(spelling * n.parent) = n.parent
        /\ normalizeUUID(spelling * n.column) = n.column /\ (spelling * n.column = 0 <=> n.column = 0)
    BY <1>3, <2>1, Respelled
  <2>6. UpsertRow(w) = [id |-> n.id, parent |-> n.parent, slot |-> IF n.column = 0 THEN Sections ELSE Column(n.column),
                        pos |-> int32(n.index), kind |-> n.shared.case, shared |-> n.shared]
    BY <1>w, <2>4, <2>5 DEF UpsertRow, SectionSlot
  <2> QED BY <1>3, <1>w, <2>6 DEF UpsertOf, ShapeAt, SectionShape, w
<1>4. CASE ~(profile = "page" /\ m.section = 0)
  <2>1. /\ n \in Block /\ n.id \in Uuid /\ n.parent \in Uuid \cup {0}
    BY <1>1, <1>4, NewNodes DEF NodesAt, Block
  <2>4. /\ w.node.id = spelling * n.id /\ w.node.parent = spelling * n.parent
        /\ w.node.index = n.index /\ w.node.shared = n.shared
    BY <1>w, <1>4, <2>1, NodeSent
  <2>5. /\ spelling * m.section = 0 <=> m.section = 0
        /\ normalizeUUID(spelling * m.section) = m.section
        /\ normalizeUUID(spelling * n.id) = n.id /\ normalizeUUID(spelling * n.parent) = n.parent
    BY <1>2, <2>1, Respelled
  <2>6. profile = "post" => m.section = 0
    BY <1>1, NewNodes DEF Places
  <2>7. profile = "page" => UpsertRow(w) = [id |-> n.id, parent |-> IF n.parent = 0 THEN m.section ELSE n.parent, slot |-> Content,
                                            pos |-> int32(n.index), kind |-> n.shared.case, shared |-> n.shared]
    BY <1>w, <1>4, <2>4, <2>5 DEF UpsertRow, RichParent
  <2>8. RichUpsertRow(w) = [id |-> n.id, parent |-> n.parent, slot |-> Content,
                            pos |-> int32(n.index), kind |-> n.shared.case, shared |-> n.shared]
    BY <1>w, <2>4, <2>5 DEF RichUpsertRow
  <2>9. profile = "page" \/ profile = "post"
    BY NewNodes
  <2> QED BY <1>4, <1>w, <2>6, <2>7, <2>8, <2>9 DEF UpsertOf, ShapeAt, BlockShape, w
<1> QED BY <1>3, <1>4

\* The row of a delete is its id, in any spelling.
LEMMA DeleteRows ==
    ASSUME NEW m \in BaseMutations, m.op = "delete", NEW spelling \in {1, -1}
    PROVE  Spelled(m, spelling).op = "delete" /\ normalizeUUID(Spelled(m, spelling).id) = m.id
<1>1. m = [op |-> "delete", section |-> m.section, id |-> m.id] /\ m.id \in Uuid
  BY BaseMutationSorts
<1>2. Spelled(m, spelling) = [op |-> "delete", section |-> spelling * m.section, id |-> spelling * m.id]
  BY <1>1 DEF Spelled
<1> QED BY <1>1, <1>2, Respelled

MoveOf(m) == IF profile = "page" THEN MoveRow(m) ELSE RichMoveRow(m)
PlaceRow(m) ==
    LET place == PlaceAt(m.section, m.parent, m.column, m.index)
    IN [id |-> m.id, parent |-> place.parent, slot |-> place.slot, pos |-> place.pos]

\* The row of a move is its place, in any spelling.
LEMMA MoveRowsOf ==
    ASSUME profile \in DOMAIN Forms, NEW m \in BaseMutations, m.op = "move", NEW spelling \in {1, -1}
    PROVE  Spelled(m, spelling).op = "move" /\ MoveOf(Spelled(m, spelling)) = PlaceRow(m)
<1> DEFINE w == Spelled(m, spelling)
<1>1. /\ m = [op |-> "move", section |-> m.section, id |-> m.id, parent |-> m.parent, column |-> m.column, index |-> m.index]
      /\ m.id \in Uuid /\ m.parent \in Uuid \cup {0} /\ m.column \in Columns \cup {0} /\ m.section \in Places
  BY BaseMutationSorts
<1>2. m.section \in Uuid \cup {0}
  BY <1>1 DEF Places
<1>3. w = [op |-> "move", section |-> spelling * m.section, id |-> spelling * m.id,
           parent |-> spelling * m.parent, column |-> spelling * m.column, index |-> m.index]
  BY <1>1 DEF Spelled
<1>4. /\ w.op = "move" /\ w.section = spelling * m.section /\ w.id = spelling * m.id
      /\ w.parent = spelling * m.parent /\ w.column = spelling * m.column /\ w.index = m.index
  BY <1>3
<1> HIDE DEF w
<1>5. /\ normalizeUUID(w.section) = m.section /\ (w.section = 0 <=> m.section = 0)
      /\ normalizeUUID(w.id) = m.id /\ normalizeUUID(w.parent) = m.parent
      /\ normalizeUUID(w.column) = m.column /\ (w.column = 0 <=> m.column = 0)
  BY <1>1, <1>2, <1>4, Respelled
<1>6. CASE profile = "page"
  <2>1. MoveRow(w) = [id |-> m.id, parent |-> IF m.section = 0 THEN m.parent ELSE IF m.parent = 0 THEN m.section ELSE m.parent,
                      slot |-> IF m.section # 0 THEN Content ELSE IF m.column = 0 THEN Sections ELSE Column(m.column),
                      pos |-> int32(m.index)]
    BY <1>4, <1>5 DEF MoveRow, MoveSlot, RichParent, SectionSlot
  <2> QED BY <1>4, <1>6, <2>1 DEF MoveOf, PlaceRow, PlaceAt, w
<1>7. CASE profile = "post"
  <2>1. m.section = 0
    BY <1>1, <1>7 DEF Places
  <2>2. RichMoveRow(w) = [id |-> m.id, parent |-> m.parent, slot |-> Content, pos |-> int32(m.index)]
    BY <1>4, <1>5 DEF RichMoveRow
  <2> QED BY <1>4, <1>7, <2>1, <2>2 DEF MoveOf, PlaceRow, PlaceAt, w
<1>8. profile \in {"page", "post"}
  BY NewNodes
<1> QED BY <1>6, <1>7, <1>8

\* Where a move puts a row.
LEMMA PlaceTyped ==
    ASSUME NEW m \in BaseMutations, m.op = "move"
    PROVE  /\ PlaceRow(m) \in MoveRows /\ PlaceRow(m).id = m.id
           /\ PlaceRow(m).slot = Content /\ profile = "page" => PlaceRow(m).parent # 0
<1>1. /\ m.id \in Uuid /\ m.parent \in Uuid \cup {0} /\ m.column \in Columns \cup {0} /\ m.section \in Places /\ m.index \in UInt32
  BY BaseMutationSorts
<1>2. m.section \in Uuid \cup {0}
  BY <1>1 DEF Places
<1>3. PlaceAt(m.section, m.parent, m.column, m.index).parent \in Uuid \cup {0}
  BY <1>1, <1>2 DEF PlaceAt
<1>4. PlaceAt(m.section, m.parent, m.column, m.index).slot \in RowSlots
  BY <1>1 DEF PlaceAt, RowSlots
<1>5. PlaceAt(m.section, m.parent, m.column, m.index).pos \in Int32
  <2>1. int32(m.index) \in Int32
    BY <1>1, Conversions
  <2> QED BY <2>1 DEF PlaceAt
<1>6. /\ profile = "page" /\ PlaceAt(m.section, m.parent, m.column, m.index).slot = Content
      => PlaceAt(m.section, m.parent, m.column, m.index).parent # 0
  BY <1>1, SlotsDiffer DEF PlaceAt
<1> QED BY <1>1, <1>3, <1>4, <1>5, <1>6 DEF PlaceRow, MoveRows

\* The elements of one sort.
LEMMA SortElements ==
    ASSUME NEW S, NEW s \in Seq(S), NEW op
    PROVE  /\ Sort(s, op) \in Seq(S)
           /\ \A x : x \in ToSet(Sort(s, op)) <=> x \in ToSet(s) /\ x.op = op
<1> DEFINE T == {x \in ToSet(s) : x.op = op}
           parts == [i \in DOMAIN s |-> IF s[i] \in T THEN <<s[i]>> ELSE <<>>]
           t == Sort(s, op)
<1>1. \A i \in DOMAIN s : s[i] \in T <=> s[i].op = op
  BY DEF ToSet
<1>2. parts = [i \in DOMAIN s |-> IF s[i].op = op THEN <<s[i]>> ELSE <<>>]
  BY <1>1
<1>3. t = FlattenSeq(parts)
  BY <1>2 DEF Sort, Where
<1>4. /\ FlattenSeq(parts) \in Seq(S)
      /\ \A x : x \in ToSet(FlattenSeq(parts)) <=> x \in ToSet(s) /\ x \in T
      /\ DistinctIds(s) => DistinctIds(FlattenSeq(parts))
  <2> HIDE DEF T
  <2> QED BY Filtered
<1> HIDE DEF parts, t
<1> QED BY <1>3, <1>4 DEF t

Mapped(s, t, T) == t = [i \in DOMAIN s |-> t[i]] /\ \A i \in DOMAIN s : t[i] \in T

\* A sequence made element by element from another.
LEMMA MappedElements ==
    ASSUME NEW S, NEW s \in Seq(S), NEW T, NEW t, Mapped(s, t, T)
    PROVE  /\ t \in Seq(T) /\ DOMAIN t = DOMAIN s /\ Len(t) = Len(s)
           /\ \A y : y \in ToSet(t) <=> \E i \in DOMAIN s : y = t[i]
<1>1. Len(s) \in Nat /\ DOMAIN s = 1..Len(s)
  BY SequenceElements
<1>2. t \in [1..Len(s) -> T]
  BY <1>1 DEF Mapped
<1>3. t \in Seq(T)
  BY <1>1, <1>2
<1>4. Len(t) = Len(s)
  BY <1>1, <1>2, <1>3
<1> QED BY <1>1, <1>2, <1>3, <1>4 DEF ToSet

(***************************************************************************)
(* What an editor has made, and a batch it is sent as.                     *)
(***************************************************************************)
FirstValued(m, groups) ==
    \E g \in ToSet(groups) : g.locale = Source /\ [op |-> "upsert", id |-> m.node.id, value |-> FirstValue(m.node)] \in ToSet(g.mutations)

EditsTyped(edits) ==
    /\ edits = [base |-> edits.base, groups |-> edits.groups]
    /\ edits.base \in Seq(BaseMutations)
    /\ edits.groups \in Seq(MadeGroups)
    /\ \A i, j \in DOMAIN edits.groups : edits.groups[i].locale = edits.groups[j].locale => i = j
    /\ \A m \in ToSet(edits.base) : m.op = "upsert" => FirstValued(m, edits.groups)

MutationSent(v, w) ==
    /\ w.op = v.op /\ normalizeUUID(w.id) = v.id
    /\ v.op = "upsert" => w = [op |-> "upsert", id |-> w.id, value |-> v.value]
    /\ v.op = "delete" => w = [op |-> "delete", id |-> w.id]

GroupSent(g, h) ==
    /\ h = [locale |-> g.locale, mutations |-> h.mutations]
    /\ h.mutations = [k \in DOMAIN g.mutations |-> h.mutations[k]]
    /\ \A k \in DOMAIN g.mutations : MutationSent(g.mutations[k], h.mutations[k])

SentAs(edits, spelling, batch) ==
    /\ batch.base = [i \in DOMAIN edits.base |-> batch.base[i]]
    /\ \A i \in DOMAIN edits.base : batch.base[i] = Spelled(edits.base[i], spelling)
    /\ batch.groups = [i \in DOMAIN edits.groups |-> batch.groups[i]]
    /\ \A i \in DOMAIN edits.groups : GroupSent(edits.groups[i], batch.groups[i])

\* A value mutation is an upsert or a delete.
LEMMA ValueMutationSorts ==
    ASSUME NEW v \in ValueMutations
    PROVE  /\ v.id \in Uuid
           /\ \/ v = [op |-> "upsert", id |-> v.id, value |-> v.value] /\ v.op = "upsert" /\ v.value \in Values
              \/ v = [op |-> "delete", id |-> v.id] /\ v.op = "delete"
BY DEF ValueMutations

\* A value mutation as it is sent.
LEMMA MutationIsSent ==
    ASSUME NEW v \in ValueMutations, NEW spelling \in {1, -1}, NEW w, w = [v EXCEPT !.id = spelling * @]
    PROVE  MutationSent(v, w)
<1>1. v.id \in Uuid
  BY ValueMutationSorts
<1>2. normalizeUUID(spelling * v.id) = v.id
  BY <1>1, Respelled
<1>3. CASE v = [op |-> "upsert", id |-> v.id, value |-> v.value] /\ v.op = "upsert"
  <2>1. w = [op |-> "upsert", id |-> spelling * v.id, value |-> v.value]
    BY <1>3
  <2> QED BY <1>2, <1>3, <2>1 DEF MutationSent
<1>4. CASE v = [op |-> "delete", id |-> v.id] /\ v.op = "delete"
  <2>1. w = [op |-> "delete", id |-> spelling * v.id]
    BY <1>4
  <2> QED BY <1>2, <1>4, <2>1 DEF MutationSent
<1> QED BY <1>3, <1>4, ValueMutationSorts

\* A batch is what the editor has made, in the spelling it is sent in.
LEMMA BatchSent ==
    ASSUME NEW e, EditsTyped(made[e]), NEW system, NEW members, NEW spelling \in {1, -1},
           NEW batch, batch = Batch(e, system, members, spelling)
    PROVE  /\ SentAs(made[e], spelling, batch)
           /\ batch.expectedRevision = base[e] /\ batch.system = system /\ batch.members = members
<1> DEFINE b == made[e].base
           g == made[e].groups
           h == [i \in DOMAIN g |-> [g[i] EXCEPT !.mutations = [k \in DOMAIN g[i].mutations |-> [g[i].mutations[k] EXCEPT !.id = spelling * @]]]]
<1>1. /\ batch.expectedRevision = base[e] /\ batch.system = system /\ batch.members = members
      /\ batch.base = [i \in DOMAIN b |-> Spelled(b[i], spelling)]
      /\ batch.groups = h
  BY DEF Batch, Each
<1>2. g \in Seq(MadeGroups)
  BY DEF EditsTyped
<1>3. ASSUME NEW i \in DOMAIN g PROVE GroupSent(g[i], h[i])
  <2>1. g[i] \in MadeGroups
    BY <1>2, <1>3, SequenceElements
  <2> DEFINE t == [k \in DOMAIN g[i].mutations |-> [g[i].mutations[k] EXCEPT !.id = spelling * @]]
             r == h[i]
  <2>2. r = [g[i] EXCEPT !.mutations = t]
    OBVIOUS
  <2>3. ASSUME NEW k \in DOMAIN g[i].mutations PROVE MutationSent(g[i].mutations[k], t[k])
    <3>1. g[i].mutations[k] \in ValueMutations
      BY <2>1, <2>3, SequenceElements DEF MadeGroups
    <3>2. t[k] = [g[i].mutations[k] EXCEPT !.id = spelling * @]
      OBVIOUS
    <3> HIDE DEF t
    <3> QED BY <3>1, <3>2, MutationIsSent
  <2>4. t = [k \in DOMAIN g[i].mutations |-> t[k]]
    OBVIOUS
  <2> HIDE DEF r, t
  <2>5. r = [locale |-> g[i].locale, mutations |-> t]
    BY <2>1, <2>2 DEF MadeGroups
  <2>6. r.mutations = t /\ r.locale = g[i].locale
    BY <2>5
  <2>7. GroupSent(g[i], r)
    BY <2>3, <2>4, <2>5, <2>6 DEF GroupSent
  <2> QED BY <2>7 DEF r
<1>4. h = [i \in DOMAIN g |-> h[i]]
  OBVIOUS
<1> HIDE DEF h
<1> QED BY <1>1, <1>3, <1>4 DEF SentAs

\* The rows of what is sent, by what was made.
FlatUpserts(edits, flat) ==
    /\ flat.upserts \in Seq(NewRows)
    /\ \A x : x \in ToSet(flat.upserts) <=> \E m \in ToSet(edits.base) : m.op = "upsert" /\ x = ShapeAt(m.section, m.node)
FlatDeletes(edits, flat) ==
    /\ flat.deletes \in Seq(Uuid)
    /\ \A x : x \in ToSet(flat.deletes) <=> \E m \in ToSet(edits.base) : m.op = "delete" /\ x = m.id
FlatMoves(edits, flat) ==
    /\ flat.moves \in Seq(MoveRows)
    /\ \A x : x \in ToSet(flat.moves) <=> \E m \in ToSet(edits.base) : m.op = "move" /\ x = PlaceRow(m)

GroupFlat(g, f) ==
    /\ f \in RowGroups /\ f.locale = g.locale
    /\ \A u : u \in ToSet(f.upserts) <=>
          \E v \in ToSet(g.mutations) : v.op = "upsert" /\ u = [id |-> v.id, value |-> v.value]
    /\ \A u : u \in ToSet(f.deletes) <=> \E v \in ToSet(g.mutations) : v.op = "delete" /\ u = v.id

FlatGroups(edits, flat) ==
    /\ flat.groups \in Seq(RowGroups) /\ DOMAIN flat.groups = DOMAIN edits.groups
    /\ \A i \in DOMAIN edits.groups : GroupFlat(edits.groups[i], flat.groups[i])

FlatOf(edits, flat) ==
    FlatUpserts(edits, flat) /\ FlatDeletes(edits, flat) /\ FlatMoves(edits, flat) /\ FlatGroups(edits, flat)

\* Spelling keeps the sort of a mutation.
LEMMA SortsKept ==
    ASSUME profile \in DOMAIN Forms, NEW spelling \in {1, -1}
    PROVE  \A m \in BaseMutations : Spelled(m, spelling).op = m.op
BY BaseMutationSorts, UpsertRows, DeleteRows, MoveRowsOf

AllSpelled(edits, spelling, op, s) ==
    \A w : w \in ToSet(s) <=> \E m \in ToSet(edits.base) : m.op = op /\ w = Spelled(m, spelling)

\* The base mutations that are sent, of one sort.
LEMMA SortSent ==
    ASSUME profile \in DOMAIN Forms, NEW edits, EditsTyped(edits), NEW spelling \in {1, -1}, NEW batch, SentAs(edits, spelling, batch), NEW op
    PROVE  /\ batch.base \in Seq(ToSet(batch.base))
           /\ Sort(batch.base, op) \in Seq(ToSet(batch.base))
           /\ AllSpelled(edits, spelling, op, Sort(batch.base, op))
<1> DEFINE b == edits.base
           s == batch.base
           S == ToSet(s)
<1>0. \A m \in BaseMutations : Spelled(m, spelling).op = m.op
  BY SortsKept
<1>1. b \in Seq(BaseMutations) /\ s = [i \in DOMAIN b |-> s[i]] /\ \A i \in DOMAIN b : s[i] = Spelled(b[i], spelling)
  BY DEF EditsTyped, SentAs
<1> HIDE DEF s
<1>2. \A i \in DOMAIN b : s[i] \in S
  BY <1>1 DEF ToSet
<1> HIDE DEF S
<1>m. Mapped(b, s, S)
  BY <1>1, <1>2 DEF Mapped
<1>3. s \in Seq(S) /\ \A y : y \in ToSet(s) <=> \E i \in DOMAIN b : y = s[i]
  BY <1>1, <1>m, MappedElements
<1>4. Sort(s, op) \in Seq(S) /\ \A w : w \in ToSet(Sort(s, op)) <=> w \in ToSet(s) /\ w.op = op
  BY <1>3, SortElements
<1>5. \A i \in DOMAIN b : b[i] \in BaseMutations /\ b[i] \in ToSet(b)
  BY <1>1, SequenceElements DEF ToSet
<1>6. \A m \in ToSet(b) : \E i \in DOMAIN b : m = b[i]
  BY DEF ToSet
<1>7. ASSUME NEW w PROVE w \in ToSet(Sort(s, op)) <=> \E m \in ToSet(b) : m.op = op /\ w = Spelled(m, spelling)
  <2>1. ASSUME w \in ToSet(Sort(s, op)) PROVE \E m \in ToSet(b) : m.op = op /\ w = Spelled(m, spelling)
    <3>1. w.op = op /\ \E i \in DOMAIN b : w = s[i]
      BY <1>3, <1>4, <2>1
    <3>2. PICK i \in DOMAIN b : w = s[i]
      BY <3>1
    <3>3. w = Spelled(b[i], spelling) /\ b[i] \in BaseMutations /\ b[i] \in ToSet(b)
      BY <1>1, <1>5, <3>2
    <3>4. b[i].op = op
      BY <1>0, <3>1, <3>3
    <3> QED BY <3>3, <3>4
  <2>2. ASSUME NEW m \in ToSet(b), m.op = op, w = Spelled(m, spelling) PROVE w \in ToSet(Sort(s, op))
    <3>1. PICK i \in DOMAIN b : m = b[i]
      BY <1>6
    <3>2. w = s[i] /\ w.op = op
      BY <1>0, <1>1, <1>5, <2>2, <3>1
    <3> QED BY <1>3, <1>4, <3>2
  <2> QED BY <2>1, <2>2
<1> QED BY <1>3, <1>4, <1>7 DEF s, S, AllSpelled

\* The upserts of a batch.
LEMMA UpsertsFlat ==
    ASSUME profile \in DOMAIN Forms, NEW edits, EditsTyped(edits), NEW spelling \in {1, -1}, NEW batch, SentAs(edits, spelling, batch),
           NEW flat, flat = FlattenBatch(profile, batch)
    PROVE  FlatUpserts(edits, flat) /\ flat.expectedRevision = batch.expectedRevision
<1> DEFINE s == Sort(batch.base, "upsert")
           t == [i \in DOMAIN s |-> UpsertOf(s[i])]
<1>1. flat.upserts = t /\ flat.expectedRevision = batch.expectedRevision
  <2>1. profile = "page" \/ profile = "post"
    BY NewNodes
  <2> HIDE DEF s
  <2>2. CASE profile = "page"
    BY <2>2 DEF FlattenBatch, FlattenPageMutationBatchStorage, Each, UpsertOf, s
  <2>3. CASE profile = "post"
    BY <2>3 DEF FlattenBatch, FlattenRichTextMutationBatchStorage, Each, UpsertOf, s
  <2> QED BY <2>1, <2>2, <2>3
<1>a. s \in Seq(ToSet(batch.base)) /\ AllSpelled(edits, spelling, "upsert", s)
  BY SortSent
<1>2. s \in Seq(ToSet(batch.base)) /\ \A w : w \in ToSet(s) <=> \E m \in ToSet(edits.base) : m.op = "upsert" /\ w = Spelled(m, spelling)
  BY <1>a DEF AllSpelled
<1> HIDE DEF s
<1>3. \A m \in ToSet(edits.base) : m \in BaseMutations
  BY SequenceElements DEF EditsTyped
<1>4. \A m \in ToSet(edits.base) : m.op = "upsert" => UpsertOf(Spelled(m, spelling)) = ShapeAt(m.section, m.node) /\ ShapeAt(m.section, m.node) \in NewRows
  <2> SUFFICES ASSUME NEW m \in ToSet(edits.base), m.op = "upsert"
               PROVE UpsertOf(Spelled(m, spelling)) = ShapeAt(m.section, m.node) /\ ShapeAt(m.section, m.node) \in NewRows
    OBVIOUS
  <2>1. m \in BaseMutations /\ m.section \in Places /\ m.node \in NodesAt(m.section)
    BY <1>3, BaseMutationSorts
  <2> QED BY <2>1, UpsertRows, ShapeTyped
<1>5. \A i \in DOMAIN s : s[i] \in ToSet(s)
  BY DEF ToSet
<1>6. \A i \in DOMAIN s : \E m \in ToSet(edits.base) : m.op = "upsert" /\ s[i] = Spelled(m, spelling) /\ t[i] = ShapeAt(m.section, m.node)
  BY <1>2, <1>4, <1>5
<1>7. Mapped(s, t, NewRows)
  BY <1>4, <1>6 DEF Mapped
<1>8. \A m \in ToSet(edits.base) : m.op = "upsert" => \E i \in DOMAIN s : t[i] = ShapeAt(m.section, m.node)
  <2> SUFFICES ASSUME NEW m \in ToSet(edits.base), m.op = "upsert" PROVE \E i \in DOMAIN s : t[i] = ShapeAt(m.section, m.node)
    OBVIOUS
  <2>1. Spelled(m, spelling) \in ToSet(s)
    BY <1>2
  <2>2. PICK i \in DOMAIN s : s[i] = Spelled(m, spelling)
    BY <2>1 DEF ToSet
  <2>3. t[i] = ShapeAt(m.section, m.node)
    BY <1>4, <2>2
  <2> QED BY <2>3
<1> HIDE DEF t
<1>9. t \in Seq(NewRows) /\ \A y : y \in ToSet(t) <=> \E i \in DOMAIN s : y = t[i]
  BY <1>2, <1>7, MappedElements
<1>10. \A x : x \in ToSet(t) <=> \E m \in ToSet(edits.base) : m.op = "upsert" /\ x = ShapeAt(m.section, m.node)
  BY <1>6, <1>8, <1>9
<1> QED BY <1>1, <1>9, <1>10 DEF FlatUpserts

\* The deletes of a batch.
LEMMA DeletesFlat ==
    ASSUME profile \in DOMAIN Forms, NEW edits, EditsTyped(edits), NEW spelling \in {1, -1}, NEW batch, SentAs(edits, spelling, batch),
           NEW flat, flat = FlattenBatch(profile, batch)
    PROVE  FlatDeletes(edits, flat)
<1> DEFINE s == Sort(batch.base, "delete")
           t == [i \in DOMAIN s |-> normalizeUUID(s[i].id)]
<1>1. flat.deletes = t
  <2> HIDE DEF s
  <2>2. CASE profile = "page"
    BY <2>2 DEF FlattenBatch, FlattenPageMutationBatchStorage, Each, s
  <2>3. CASE profile # "page"
    BY <2>3 DEF FlattenBatch, FlattenRichTextMutationBatchStorage, Each, s
  <2> QED BY <2>2, <2>3
<1>a. s \in Seq(ToSet(batch.base)) /\ AllSpelled(edits, spelling, "delete", s)
  BY SortSent
<1>2. s \in Seq(ToSet(batch.base)) /\ \A w : w \in ToSet(s) <=> \E m \in ToSet(edits.base) : m.op = "delete" /\ w = Spelled(m, spelling)
  BY <1>a DEF AllSpelled
<1> HIDE DEF s
<1>3. \A m \in ToSet(edits.base) : m \in BaseMutations
  BY SequenceElements DEF EditsTyped
<1>4. \A m \in ToSet(edits.base) : m.op = "delete" => normalizeUUID(Spelled(m, spelling).id) = m.id /\ m.id \in Uuid
  BY <1>3, DeleteRows, BaseMutationSorts
<1>5. \A i \in DOMAIN s : s[i] \in ToSet(s)
  BY DEF ToSet
<1>6. \A i \in DOMAIN s : \E m \in ToSet(edits.base) : m.op = "delete" /\ s[i] = Spelled(m, spelling) /\ t[i] = m.id
  BY <1>2, <1>4, <1>5
<1>7. Mapped(s, t, Uuid)
  BY <1>4, <1>6 DEF Mapped
<1>8. \A m \in ToSet(edits.base) : m.op = "delete" => \E i \in DOMAIN s : t[i] = m.id
  <2> SUFFICES ASSUME NEW m \in ToSet(edits.base), m.op = "delete" PROVE \E i \in DOMAIN s : t[i] = m.id
    OBVIOUS
  <2>1. Spelled(m, spelling) \in ToSet(s)
    BY <1>2
  <2>2. PICK i \in DOMAIN s : s[i] = Spelled(m, spelling)
    BY <2>1 DEF ToSet
  <2>3. t[i] = m.id
    BY <1>4, <2>2
  <2> QED BY <2>3
<1> HIDE DEF t
<1>9. t \in Seq(Uuid) /\ \A y : y \in ToSet(t) <=> \E i \in DOMAIN s : y = t[i]
  BY <1>2, <1>7, MappedElements
<1>10. \A x : x \in ToSet(t) <=> \E m \in ToSet(edits.base) : m.op = "delete" /\ x = m.id
  BY <1>6, <1>8, <1>9
<1> QED BY <1>1, <1>9, <1>10 DEF FlatDeletes

\* The moves of a batch.
LEMMA MovesFlat ==
    ASSUME profile \in DOMAIN Forms, NEW edits, EditsTyped(edits), NEW spelling \in {1, -1}, NEW batch, SentAs(edits, spelling, batch),
           NEW flat, flat = FlattenBatch(profile, batch)
    PROVE  FlatMoves(edits, flat)
<1> DEFINE s == Sort(batch.base, "move")
           t == [i \in DOMAIN s |-> MoveOf(s[i])]
<1>1. flat.moves = t
  <2> HIDE DEF s
  <2>2. CASE profile = "page"
    BY <2>2 DEF FlattenBatch, FlattenPageMutationBatchStorage, Each, MoveOf, s
  <2>3. CASE profile # "page"
    BY <2>3 DEF FlattenBatch, FlattenRichTextMutationBatchStorage, Each, MoveOf, s
  <2> QED BY <2>2, <2>3
<1>a. s \in Seq(ToSet(batch.base)) /\ AllSpelled(edits, spelling, "move", s)
  BY SortSent
<1>2. s \in Seq(ToSet(batch.base)) /\ \A w : w \in ToSet(s) <=> \E m \in ToSet(edits.base) : m.op = "move" /\ w = Spelled(m, spelling)
  BY <1>a DEF AllSpelled
<1> HIDE DEF s
<1>3. \A m \in ToSet(edits.base) : m \in BaseMutations
  BY SequenceElements DEF EditsTyped
<1>4. \A m \in ToSet(edits.base) : m.op = "move" => MoveOf(Spelled(m, spelling)) = PlaceRow(m) /\ PlaceRow(m) \in MoveRows
  BY <1>3, MoveRowsOf, PlaceTyped
<1>5. \A i \in DOMAIN s : s[i] \in ToSet(s)
  BY DEF ToSet
<1>6. \A i \in DOMAIN s : \E m \in ToSet(edits.base) : m.op = "move" /\ s[i] = Spelled(m, spelling) /\ t[i] = PlaceRow(m)
  BY <1>2, <1>4, <1>5
<1>7. Mapped(s, t, MoveRows)
  BY <1>4, <1>6 DEF Mapped
<1>8. \A m \in ToSet(edits.base) : m.op = "move" => \E i \in DOMAIN s : t[i] = PlaceRow(m)
  <2> SUFFICES ASSUME NEW m \in ToSet(edits.base), m.op = "move" PROVE \E i \in DOMAIN s : t[i] = PlaceRow(m)
    OBVIOUS
  <2>1. Spelled(m, spelling) \in ToSet(s)
    BY <1>2
  <2>2. PICK i \in DOMAIN s : s[i] = Spelled(m, spelling)
    BY <2>1 DEF ToSet
  <2>3. t[i] = PlaceRow(m)
    BY <1>4, <2>2
  <2> QED BY <2>3
<1> HIDE DEF t
<1>9. t \in Seq(MoveRows) /\ \A y : y \in ToSet(t) <=> \E i \in DOMAIN s : y = t[i]
  BY <1>2, <1>7, MappedElements
<1>10. \A x : x \in ToSet(t) <=> \E m \in ToSet(edits.base) : m.op = "move" /\ x = PlaceRow(m)
  BY <1>6, <1>8, <1>9
<1> QED BY <1>1, <1>9, <1>10 DEF FlatMoves

\* The mutations of a group that are sent, of one sort.
GroupSorted(g, op, s) ==
    /\ \A i \in DOMAIN s : \E v \in ToSet(g.mutations) : v.op = op /\ MutationSent(v, s[i])
    /\ \A v \in ToSet(g.mutations) : v.op = op => \E i \in DOMAIN s : MutationSent(v, s[i])

\* The mutations of a group that are sent, of one sort, are those made of that sort.
LEMMA GroupSort ==
    ASSUME NEW g \in MadeGroups, NEW h, GroupSent(g, h), NEW op, NEW s, s = Sort(h.mutations, op)
    PROVE  s \in Seq(ToSet(h.mutations)) /\ GroupSorted(g, op, s)
<1> DEFINE a == g.mutations
           b == h.mutations
           S == ToSet(b)
<1>1. a \in Seq(ValueMutations) /\ b = [k \in DOMAIN a |-> b[k]] /\ \A k \in DOMAIN a : MutationSent(a[k], b[k])
  BY DEF MadeGroups, GroupSent
<1> HIDE DEF b
<1>2. Mapped(a, b, S)
  BY <1>1 DEF Mapped, ToSet
<1> HIDE DEF S
<1>3. b \in Seq(S) /\ \A y : y \in ToSet(b) <=> \E k \in DOMAIN a : y = b[k]
  BY <1>1, <1>2, MappedElements
<1>4. s \in Seq(S) /\ \A w : w \in ToSet(s) <=> w \in ToSet(b) /\ w.op = op
  BY <1>3, SortElements DEF b
<1>5. \A i \in DOMAIN s : s[i] \in ToSet(s)
  BY DEF ToSet
<1>6. \A k \in DOMAIN a : a[k] \in ToSet(a)
  BY DEF ToSet
<1>7. ASSUME NEW i \in DOMAIN s PROVE \E v \in ToSet(a) : v.op = op /\ MutationSent(v, s[i])
  <2>1. s[i].op = op /\ \E k \in DOMAIN a : s[i] = b[k]
    BY <1>3, <1>4, <1>5, <1>7
  <2>2. PICK k \in DOMAIN a : s[i] = b[k]
    BY <2>1
  <2>3. MutationSent(a[k], s[i]) /\ a[k].op = op
    BY <1>1, <2>1, <2>2 DEF MutationSent
  <2> QED BY <1>6, <2>3
<1>8. ASSUME NEW v \in ToSet(a), v.op = op PROVE \E i \in DOMAIN s : MutationSent(v, s[i])
  <2>1. PICK k \in DOMAIN a : v = a[k]
    BY DEF ToSet
  <2>2. MutationSent(v, b[k]) /\ b[k].op = op /\ b[k] \in ToSet(b)
    BY <1>1, <1>3, <1>8, <2>1 DEF MutationSent
  <2>3. b[k] \in ToSet(s)
    BY <1>4, <2>2
  <2>4. PICK i \in DOMAIN s : s[i] = b[k]
    BY <2>3 DEF ToSet
  <2> QED BY <2>2, <2>4
<1>9. GroupSorted(g, op, s)
  BY <1>7, <1>8 DEF GroupSorted
<1> QED BY <1>4, <1>9 DEF S, b

\* A group as a store receives it.
LEMMA GroupIsFlat ==
    ASSUME NEW g \in MadeGroups, NEW h, GroupSent(g, h), NEW f, f = LocaleGroup(h)
    PROVE  GroupFlat(g, f)
<1> DEFINE s == Sort(h.mutations, "upsert")
           d == Sort(h.mutations, "delete")
           t == [i \in DOMAIN s |-> [id |-> normalizeUUID(s[i].id), value |-> s[i].value]]
           u == [i \in DOMAIN d |-> normalizeUUID(d[i].id)]
           Value == [id : Uuid, value : Values]
<1>1. f = [locale |-> h.locale, upserts |-> t, deletes |-> u]
  <2> HIDE DEF s, d
  <2> QED BY DEF LocaleGroup, Each, s, d
<1>2. h.locale = g.locale /\ g.locale \in Locales /\ g.mutations \in Seq(ValueMutations)
  BY DEF GroupSent, MadeGroups
<1>3. s \in Seq(ToSet(h.mutations)) /\ GroupSorted(g, "upsert", s)
  BY GroupSort
<1>4. d \in Seq(ToSet(h.mutations)) /\ GroupSorted(g, "delete", d)
  BY GroupSort
<1> HIDE DEF s, d
<1>5. \A v \in ToSet(g.mutations) : v \in ValueMutations
  BY <1>2, SequenceElements
<1>6. \A i \in DOMAIN s : \A v \in ToSet(g.mutations) :
         v.op = "upsert" /\ MutationSent(v, s[i]) => t[i] = [id |-> v.id, value |-> v.value] /\ t[i] \in Value
  <2> SUFFICES ASSUME NEW i \in DOMAIN s, NEW v \in ToSet(g.mutations), v.op = "upsert", MutationSent(v, s[i])
               PROVE  t[i] = [id |-> v.id, value |-> v.value] /\ t[i] \in Value
    OBVIOUS
  <2>1. v.id \in Uuid /\ v.value \in Values
    BY <1>5, ValueMutationSorts
  <2>2. normalizeUUID(s[i].id) = v.id /\ s[i].value = v.value
    BY DEF MutationSent
  <2> QED BY <2>1, <2>2
<1>7. \A i \in DOMAIN d : \A v \in ToSet(g.mutations) : v.op = "delete" /\ MutationSent(v, d[i]) => u[i] = v.id /\ u[i] \in Uuid
  BY <1>5, ValueMutationSorts DEF MutationSent
<1>8. Mapped(s, t, Value)
  BY <1>3, <1>6 DEF GroupSorted, Mapped
<1>9. Mapped(d, u, Uuid)
  BY <1>4, <1>7 DEF GroupSorted, Mapped
<1> HIDE DEF t, u, Value
<1>10. t \in Seq(Value) /\ \A y : y \in ToSet(t) <=> \E i \in DOMAIN s : y = t[i]
  BY <1>3, <1>8, MappedElements
<1>11. u \in Seq(Uuid) /\ \A y : y \in ToSet(u) <=> \E i \in DOMAIN d : y = u[i]
  BY <1>4, <1>9, MappedElements
<1>12. \A y : y \in ToSet(t) <=> \E v \in ToSet(g.mutations) : v.op = "upsert" /\ y = [id |-> v.id, value |-> v.value]
  <2> SUFFICES ASSUME NEW y PROVE y \in ToSet(t) <=> \E v \in ToSet(g.mutations) : v.op = "upsert" /\ y = [id |-> v.id, value |-> v.value]
    OBVIOUS
  <2>1. ASSUME y \in ToSet(t) PROVE \E v \in ToSet(g.mutations) : v.op = "upsert" /\ y = [id |-> v.id, value |-> v.value]
    <3>1. PICK i \in DOMAIN s : y = t[i]
      BY <1>10, <2>1
    <3>2. PICK v \in ToSet(g.mutations) : v.op = "upsert" /\ MutationSent(v, s[i])
      BY <1>3 DEF GroupSorted
    <3> QED BY <1>6, <3>1, <3>2
  <2>2. ASSUME NEW v \in ToSet(g.mutations), v.op = "upsert", y = [id |-> v.id, value |-> v.value] PROVE y \in ToSet(t)
    <3>1. PICK i \in DOMAIN s : MutationSent(v, s[i])
      BY <1>3, <2>2 DEF GroupSorted
    <3>2. t[i] = y
      BY <1>6, <2>2, <3>1
    <3> QED BY <1>10, <3>2
  <2> QED BY <2>1, <2>2
<1>13. \A y : y \in ToSet(u) <=> \E v \in ToSet(g.mutations) : v.op = "delete" /\ y = v.id
  BY <1>4, <1>7, <1>11 DEF GroupSorted
<1>14. f \in RowGroups /\ f.locale = g.locale /\ f.upserts = t /\ f.deletes = u
  BY <1>1, <1>2, <1>10, <1>11 DEF RowGroups, Value
<1> QED BY <1>12, <1>13, <1>14 DEF GroupFlat

\* The groups of a batch.
LEMMA GroupsFlat ==
    ASSUME NEW edits, EditsTyped(edits), NEW spelling, NEW batch, SentAs(edits, spelling, batch),
           NEW flat, flat = FlattenBatch(profile, batch)
    PROVE  FlatGroups(edits, flat)
<1> DEFINE g == edits.groups
           h == batch.groups
           f == [i \in DOMAIN h |-> LocaleGroup(h[i])]
<1>1. flat.groups = f
  <2>1. CASE profile = "page"
    BY <2>1 DEF FlattenBatch, FlattenPageMutationBatchStorage, Each
  <2>2. CASE profile # "page"
    BY <2>2 DEF FlattenBatch, FlattenRichTextMutationBatchStorage, Each
  <2> QED BY <2>1, <2>2
<1>2. g \in Seq(MadeGroups) /\ h = [i \in DOMAIN g |-> h[i]] /\ \A i \in DOMAIN g : GroupSent(g[i], h[i])
  BY DEF EditsTyped, SentAs
<1> HIDE DEF h
<1>3. DOMAIN h = DOMAIN g /\ \A i \in DOMAIN g : g[i] \in MadeGroups
  BY <1>2, SequenceElements
<1>4. \A i \in DOMAIN g : GroupFlat(g[i], f[i])
  <2> SUFFICES ASSUME NEW i \in DOMAIN g PROVE GroupFlat(g[i], f[i])
    OBVIOUS
  <2>1. g[i] \in MadeGroups /\ GroupSent(g[i], h[i])
    BY <1>2, <1>3
  <2>2. f[i] = LocaleGroup(h[i])
    BY <1>3
  <2> QED BY <2>1, <2>2, GroupIsFlat
<1>5. f = [i \in DOMAIN g |-> f[i]]
  BY <1>3
<1> HIDE DEF f
<1>6. Mapped(g, f, RowGroups)
  BY <1>4, <1>5 DEF Mapped, GroupFlat
<1>7. f \in Seq(RowGroups) /\ DOMAIN f = DOMAIN g
  BY <1>2, <1>6, MappedElements
<1> QED BY <1>1, <1>4, <1>7 DEF FlatGroups

\* A batch as the store receives it.
LEMMA BatchFlat ==
    ASSUME profile \in DOMAIN Forms, NEW e, EditsTyped(made[e]), NEW system, NEW members, NEW spelling \in {1, -1},
           NEW flat, flat = FlattenBatch(profile, Batch(e, system, members, spelling))
    PROVE  FlatOf(made[e], flat) /\ flat.expectedRevision = base[e]
<1> DEFINE batch == Batch(e, system, members, spelling)
<1> HIDE DEF batch
<1>1. SentAs(made[e], spelling, batch) /\ batch.expectedRevision = base[e]
  BY BatchSent DEF batch
<1>2. flat = FlattenBatch(profile, batch)
  BY DEF batch
<1> QED BY <1>1, <1>2, UpsertsFlat, DeletesFlat, MovesFlat, GroupsFlat DEF FlatOf

(***************************************************************************)
(* What the store makes of a batch: the rows by the sorts of mutations.    *)
(***************************************************************************)
RowShape(r) == [id |-> r.id, parent |-> r.parent, slot |-> r.slot, pos |-> r.pos, kind |-> r.kind, shared |-> r.shared]

\* In a page what is in content is below something.
InPage(r) == profile = "page" /\ r.slot = Content => r.parent # 0

PageRow  == {r \in Row : InPage(r)}
PutRow   == {u \in NewRows : InPage(u)}
MovedRow == {u \in MoveRows : InPage(u)}

NewRow(u) == Merged(u, [locales |-> NoValues])

\* A record merged into another, field by field.
LEMMA MergedFields ==
    /\ \A u \in NewRows : NewRow(u) =
         [id |-> u.id, parent |-> u.parent, slot |-> u.slot, pos |-> u.pos, kind |-> u.kind, shared |-> u.shared,
          locales |-> NoValues]
    /\ \A u \in NewRows, r \in Row : Merged(u, r) =
         [id |-> u.id, parent |-> u.parent, slot |-> u.slot, pos |-> u.pos, kind |-> u.kind, shared |-> u.shared,
          locales |-> r.locales]
    /\ \A u \in MoveRows, r \in Row : Merged(u, r) =
         [id |-> u.id, parent |-> u.parent, slot |-> u.slot, pos |-> u.pos, kind |-> r.kind, shared |-> r.shared,
          locales |-> r.locales]
<1>1. ASSUME NEW u \in NewRows PROVE NewRow(u) =
         [id |-> u.id, parent |-> u.parent, slot |-> u.slot, pos |-> u.pos, kind |-> u.kind, shared |-> u.shared,
          locales |-> NoValues]
  BY DEF NewRow, Merged, NewRows
<1>2. ASSUME NEW u \in NewRows, NEW r \in Row PROVE Merged(u, r) =
         [id |-> u.id, parent |-> u.parent, slot |-> u.slot, pos |-> u.pos, kind |-> u.kind, shared |-> u.shared,
          locales |-> r.locales]
  BY DEF Merged, NewRows, Row
<1>3. ASSUME NEW u \in MoveRows, NEW r \in Row PROVE Merged(u, r) =
         [id |-> u.id, parent |-> u.parent, slot |-> u.slot, pos |-> u.pos, kind |-> r.kind, shared |-> r.shared,
          locales |-> r.locales]
  BY DEF Merged, MoveRows, Row
<1> QED BY <1>1, <1>2, <1>3

\* What a merged row is.
LEMMA MergedRows ==
    /\ \A u \in PutRow : /\ NewRow(u) \in PageRow /\ RowShape(NewRow(u)) = u
                         /\ NewRow(u).id = u.id /\ NewRow(u).locales = NoValues
    /\ \A u \in PutRow, r \in PageRow : /\ Merged(u, r) \in PageRow /\ RowShape(Merged(u, r)) = u
                                        /\ Merged(u, r).id = u.id /\ Merged(u, r).locales = r.locales
    /\ \A u \in MovedRow, r \in PageRow :
          u.id = r.id => /\ Merged(u, r) \in PageRow /\ RowShape(Merged(u, r)) = At(RowShape(r), u)
                         /\ Merged(u, r).id = r.id /\ Merged(u, r).locales = r.locales
<1>1. ASSUME NEW u \in PutRow
      PROVE  /\ NewRow(u) \in PageRow /\ RowShape(NewRow(u)) = u
             /\ NewRow(u).id = u.id /\ NewRow(u).locales = NoValues
  <2>1. u \in NewRows /\ InPage(u)
    BY DEF PutRow
  <2>2. NoValues \in PartialFunctions(Locales, Values)
    <3>1. NoValues \in [{} -> Values]
      BY DEF NoValues
    <3> QED BY <3>1 DEF PartialFunctions
  <2>3. NewRow(u) =
         [id |-> u.id, parent |-> u.parent, slot |-> u.slot, pos |-> u.pos, kind |-> u.kind, shared |-> u.shared,
          locales |-> NoValues]
    BY <2>1, MergedFields
  <2>4. NewRow(u) \in Row
    BY <2>1, <2>2, <2>3 DEF Row, NewRows
  <2>5. RowShape(NewRow(u)) = u
    BY <2>1, <2>3 DEF RowShape, NewRows
  <2> QED BY <2>1, <2>3, <2>4, <2>5 DEF PageRow, InPage
<1>2. ASSUME NEW u \in PutRow, NEW r \in PageRow
      PROVE  /\ Merged(u, r) \in PageRow /\ RowShape(Merged(u, r)) = u
             /\ Merged(u, r).id = u.id /\ Merged(u, r).locales = r.locales
  <2>1. u \in NewRows /\ InPage(u) /\ r \in Row
    BY DEF PutRow, PageRow
  <2>2. r.locales \in PartialFunctions(Locales, Values)
    BY <2>1 DEF Row
  <2>3. Merged(u, r) =
         [id |-> u.id, parent |-> u.parent, slot |-> u.slot, pos |-> u.pos, kind |-> u.kind, shared |-> u.shared,
          locales |-> r.locales]
    BY <2>1, MergedFields
  <2>4. Merged(u, r) \in Row
    BY <2>1, <2>2, <2>3 DEF Row, NewRows
  <2>5. RowShape(Merged(u, r)) = u
    BY <2>1, <2>3 DEF RowShape, NewRows
  <2> QED BY <2>1, <2>3, <2>4, <2>5 DEF PageRow, InPage
<1>3. ASSUME NEW u \in MovedRow, NEW r \in PageRow, u.id = r.id
      PROVE  /\ Merged(u, r) \in PageRow /\ RowShape(Merged(u, r)) = At(RowShape(r), u)
             /\ Merged(u, r).id = r.id /\ Merged(u, r).locales = r.locales
  <2>1. u \in MoveRows /\ InPage(u) /\ r \in Row
    BY DEF MovedRow, PageRow
  <2>3. Merged(u, r) =
         [id |-> u.id, parent |-> u.parent, slot |-> u.slot, pos |-> u.pos, kind |-> r.kind, shared |-> r.shared,
          locales |-> r.locales]
    BY <2>1, MergedFields
  <2>4. Merged(u, r) \in Row
    BY <2>1, <2>3 DEF Row, MoveRows
  <2>5. RowShape(Merged(u, r)) = At(RowShape(r), u)
    BY <1>3, <2>1, <2>3 DEF RowShape, At
  <2> QED BY <1>3, <2>1, <2>3, <2>4, <2>5 DEF PageRow, InPage
<1> QED BY <1>1, <1>2, <1>3

\* A sequence of elements of a smaller set.
LEMMA Narrowed ==
    ASSUME NEW S, NEW s \in Seq(S), NEW T, \A x \in ToSet(s) : x \in T
    PROVE  s \in Seq(T)
<1>1. \A i \in 1..Len(s) : s[i] \in T
  BY DEF ToSet
<1> QED BY <1>1

\* A row as upserts leave it, and as moves do.
PutOver(upserts, r) == IF r.id \in Ids(upserts) THEN Merged(RowOf(upserts, r.id), r) ELSE r
MovedBy(moves, r) == IF r.id \in Ids(moves) THEN Merged(RowOf(moves, r.id), r) ELSE r

\* The rows after the upserts.
LEMMA PutElements ==
    ASSUME NEW stored \in Seq(PageRow), NEW upserts \in Seq(PutRow), NEW t, t = PutRows(stored, upserts)
    PROVE  /\ t \in Seq(PageRow)
           /\ \A y : y \in ToSet(t) <=> \/ \E r \in ToSet(stored) : y = PutOver(upserts, r)
                                        \/ \E u \in ToSet(upserts) : u.id \notin Ids(stored) /\ y = NewRow(u)
           /\ DistinctIds(stored) /\ DistinctIds(upserts) => DistinctIds(t)
<1> DEFINE a == [i \in DOMAIN stored |-> PutOver(upserts, stored[i])]
           New == {u \in PutRow : u.id \notin Ids(stored)}
           w == Where(upserts, LAMBDA u : u.id \notin Ids(stored))
           parts == [i \in DOMAIN upserts |-> IF upserts[i] \in New THEN <<upserts[i]>> ELSE <<>>]
           b == [i \in DOMAIN w |-> NewRow(w[i])]
<1>1. t = a \o b
  BY DEF PutRows, Each, PutOver, NewRow
<1>2. \A i \in DOMAIN upserts : upserts[i] \in PutRow
  BY SequenceElements
<1>3. w = FlattenSeq(parts)
  <2>1. parts = [i \in DOMAIN upserts |-> IF upserts[i].id \notin Ids(stored) THEN <<upserts[i]>> ELSE <<>>]
    BY <1>2
  <2> QED BY <2>1 DEF Where
<1>4. /\ w \in Seq(PutRow)
      /\ \A x : x \in ToSet(w) <=> x \in ToSet(upserts) /\ x \in New
      /\ DistinctIds(upserts) => DistinctIds(w)
  <2> HIDE DEF New
  <2>1. /\ FlattenSeq(parts) \in Seq(PutRow)
        /\ \A x : x \in ToSet(FlattenSeq(parts)) <=> x \in ToSet(upserts) /\ x \in New
        /\ DistinctIds(upserts) => DistinctIds(FlattenSeq(parts))
    BY Filtered
  <2> HIDE DEF parts, w
  <2> QED BY <1>3, <2>1
<1>5. \A x : x \in ToSet(w) <=> x \in ToSet(upserts) /\ x.id \notin Ids(stored)
  <2>1. ToSet(upserts) \subseteq PutRow
    BY SequenceElements
  <2> QED BY <1>4, <2>1
<1> HIDE DEF w
<1>6. \A i \in DOMAIN stored : PutOver(upserts, stored[i]) \in PageRow
  <2> SUFFICES ASSUME NEW i \in DOMAIN stored PROVE PutOver(upserts, stored[i]) \in PageRow
    OBVIOUS
  <2>1. stored[i] \in PageRow /\ ToSet(upserts) \subseteq PutRow
    BY SequenceElements
  <2>2. CASE stored[i].id \in Ids(upserts)
    BY <2>1, <2>2, RowOfId, MergedRows DEF PutOver
  <2> QED BY <2>1, <2>2 DEF PutOver
<1>7. Mapped(stored, a, PageRow)
  BY <1>6 DEF Mapped
<1>8. \A i \in DOMAIN w : NewRow(w[i]) \in PageRow
  BY <1>4, SequenceElements, MergedRows
<1>9. Mapped(w, b, PageRow)
  BY <1>8 DEF Mapped
<1>10. a \in Seq(PageRow) /\ \A y : y \in ToSet(a) <=> \E i \in DOMAIN stored : y = a[i]
  <2> HIDE DEF a
  <2> QED BY <1>7, MappedElements
<1>11. b \in Seq(PageRow) /\ \A y : y \in ToSet(b) <=> \E i \in DOMAIN w : y = b[i]
  <2> HIDE DEF b
  <2> QED BY <1>4, <1>9, MappedElements
<1>12. t \in Seq(PageRow) /\ ToSet(t) = ToSet(a) \cup ToSet(b)
  <2> HIDE DEF a, b
  <2> QED BY <1>1, <1>10, <1>11, ConcatElements
<1>13. \A y : y \in ToSet(a) <=> \E r \in ToSet(stored) : y = PutOver(upserts, r)
  BY <1>10 DEF ToSet
<1>14. \A y : y \in ToSet(b) <=> \E u \in ToSet(upserts) : u.id \notin Ids(stored) /\ y = NewRow(u)
  <2>1. \A y : y \in ToSet(b) <=> \E u \in ToSet(w) : y = NewRow(u)
    BY <1>11 DEF ToSet
  <2> QED BY <1>5, <2>1
<1>15. ASSUME DistinctIds(stored) PROVE DistinctIds(a)
  <2>1. \A i \in DOMAIN stored : a[i].id = stored[i].id
    <3> SUFFICES ASSUME NEW i \in DOMAIN stored PROVE PutOver(upserts, stored[i]).id = stored[i].id
      OBVIOUS
    <3>1. stored[i] \in PageRow /\ ToSet(upserts) \subseteq PutRow
      BY SequenceElements
    <3>2. CASE stored[i].id \in Ids(upserts)
      BY <3>1, <3>2, RowOfId, MergedRows DEF PutOver
    <3> QED BY <3>1, <3>2 DEF PutOver
  <2> QED BY <1>15, <2>1 DEF DistinctIds
<1>16. ASSUME DistinctIds(upserts) PROVE DistinctIds(b)
  <2>1. \A i \in DOMAIN w : b[i].id = w[i].id
    BY <1>4, SequenceElements, MergedRows
  <2> QED BY <1>4, <1>16, <2>1 DEF DistinctIds
<1>17. \A x \in ToSet(a), y \in ToSet(b) : x.id # y.id
  <2> SUFFICES ASSUME NEW x \in ToSet(a), NEW y \in ToSet(b) PROVE x.id # y.id
    OBVIOUS
  <2>1. PICK r \in ToSet(stored) : x = PutOver(upserts, r)
    BY <1>13
  <2>2. PICK u \in ToSet(upserts) : u.id \notin Ids(stored) /\ y = NewRow(u)
    BY <1>14
  <2>3. r \in PageRow /\ u \in PutRow /\ ToSet(upserts) \subseteq PutRow
    BY SequenceElements
  <2>4. x.id = r.id
    <3>1. CASE r.id \in Ids(upserts)
      BY <2>1, <2>3, <3>1, RowOfId, MergedRows DEF PutOver
    <3> QED BY <2>1, <3>1 DEF PutOver
  <2>5. y.id = u.id
    BY <2>2, <2>3, MergedRows
  <2> QED BY <2>2, <2>4, <2>5, IdsOfRows
<1> HIDE DEF a, b
<1>18. DistinctIds(stored) /\ DistinctIds(upserts) => DistinctIds(t)
  BY <1>1, <1>10, <1>11, <1>15, <1>16, <1>17, DistinctConcat
<1> QED BY <1>12, <1>13, <1>14, <1>18

\* The rows after the moves.
LEMMA MovedElements ==
    ASSUME NEW stored \in Seq(PageRow), NEW moves \in Seq(MovedRow), NEW t, t = MovedRows(stored, moves)
    PROVE  /\ t \in Seq(PageRow)
           /\ \A y : y \in ToSet(t) <=> \E r \in ToSet(stored) : y = MovedBy(moves, r)
           /\ \A r \in ToSet(stored) : MovedBy(moves, r).id = r.id
           /\ DistinctIds(stored) => DistinctIds(t)
<1> DEFINE a == [i \in DOMAIN stored |-> MovedBy(moves, stored[i])]
<1>1. t = a
  BY DEF MovedRows, Each, MovedBy
<1>2. \A i \in DOMAIN stored : MovedBy(moves, stored[i]) \in PageRow /\ MovedBy(moves, stored[i]).id = stored[i].id
  <2> SUFFICES ASSUME NEW i \in DOMAIN stored
               PROVE  MovedBy(moves, stored[i]) \in PageRow /\ MovedBy(moves, stored[i]).id = stored[i].id
    OBVIOUS
  <2>1. stored[i] \in PageRow /\ ToSet(moves) \subseteq MovedRow
    BY SequenceElements
  <2>2. CASE stored[i].id \in Ids(moves)
    <3>1. RowOf(moves, stored[i].id) \in MovedRow /\ RowOf(moves, stored[i].id).id = stored[i].id
      BY <2>1, <2>2, RowOfId
    <3> QED BY <2>1, <2>2, <3>1, MergedRows DEF MovedBy
  <2> QED BY <2>1, <2>2 DEF MovedBy
<1>3. Mapped(stored, a, PageRow)
  BY <1>2 DEF Mapped
<1>4. a \in Seq(PageRow) /\ \A y : y \in ToSet(a) <=> \E i \in DOMAIN stored : y = a[i]
  <2> HIDE DEF a
  <2> QED BY <1>3, MappedElements
<1>5. \A y : y \in ToSet(a) <=> \E r \in ToSet(stored) : y = MovedBy(moves, r)
  BY <1>4 DEF ToSet
<1>6. \A r \in ToSet(stored) : MovedBy(moves, r).id = r.id
  BY <1>2 DEF ToSet
<1>7. DistinctIds(stored) => DistinctIds(a)
  BY <1>2 DEF DistinctIds
<1> QED BY <1>1, <1>4, <1>5, <1>6, <1>7

\* The rows after the deletes.
LEMMA KeptElements ==
    ASSUME NEW stored \in Seq(PageRow), NEW deletes, NEW t, t = Kept(stored, deletes)
    PROVE  /\ t \in Seq(PageRow)
           /\ \A y : y \in ToSet(t) <=> y \in ToSet(stored) /\ y.id \notin ToSet(deletes)
           /\ DistinctIds(stored) => DistinctIds(t)
<1> DEFINE T == {r \in PageRow : r.id \notin ToSet(deletes)}
           parts == [i \in DOMAIN stored |-> IF stored[i] \in T THEN <<stored[i]>> ELSE <<>>]
<1>1. \A i \in DOMAIN stored : stored[i] \in PageRow
  BY SequenceElements
<1>2. t = FlattenSeq(parts)
  <2>1. parts = [i \in DOMAIN stored |-> IF stored[i].id \notin ToSet(deletes) THEN <<stored[i]>> ELSE <<>>]
    BY <1>1
  <2> QED BY <2>1 DEF Where, Kept
<1>3. /\ t \in Seq(PageRow)
      /\ \A x : x \in ToSet(t) <=> x \in ToSet(stored) /\ x \in T
      /\ DistinctIds(stored) => DistinctIds(t)
  <2> HIDE DEF T
  <2>1. /\ FlattenSeq(parts) \in Seq(PageRow)
        /\ \A x : x \in ToSet(FlattenSeq(parts)) <=> x \in ToSet(stored) /\ x \in T
        /\ DistinctIds(stored) => DistinctIds(FlattenSeq(parts))
    BY Filtered
  <2> HIDE DEF parts
  <2> QED BY <1>2, <2>1
<1>4. ToSet(stored) \subseteq PageRow
  BY SequenceElements
<1> QED BY <1>3, <1>4

\* A batch whose upserts are new and whose mutations are of different ids.
OfDifferentIds(stored, flat) ==
    /\ flat.upserts \in Seq(PutRow) /\ flat.moves \in Seq(MovedRow)
    /\ \A u \in ToSet(flat.upserts) : u.id \notin Ids(stored) /\ u.id \notin ToSet(flat.deletes) /\ u.id \notin Ids(flat.moves)

\* The rows that are left of the stored ones, and the new ones.
LeftOrNew(stored, flat, y) ==
    \/ \E r \in ToSet(stored) : r.id \notin ToSet(flat.deletes) /\ y = MovedBy(flat.moves, r)
    \/ \E u \in ToSet(flat.upserts) : y = NewRow(u)

\* Upserts, moves and deletes.
LEMMA PutsFirst ==
    ASSUME NEW stored \in Seq(PageRow), NEW flat, OfDifferentIds(stored, flat), NEW t,
           t = Kept(MovedRows(PutRows(stored, flat.upserts), flat.moves), flat.deletes)
    PROVE  /\ t \in Seq(PageRow) /\ \A y : y \in ToSet(t) <=> LeftOrNew(stored, flat, y)
           /\ DistinctIds(stored) /\ DistinctIds(flat.upserts) => DistinctIds(t)
<1> DEFINE a == PutRows(stored, flat.upserts)
           b == MovedRows(a, flat.moves)
<1>1. flat.upserts \in Seq(PutRow) /\ flat.moves \in Seq(MovedRow)
  BY DEF OfDifferentIds
<1>2. /\ a \in Seq(PageRow)
      /\ \A y : y \in ToSet(a) <=> \/ \E r \in ToSet(stored) : y = PutOver(flat.upserts, r)
                                   \/ \E u \in ToSet(flat.upserts) : u.id \notin Ids(stored) /\ y = NewRow(u)
      /\ DistinctIds(stored) /\ DistinctIds(flat.upserts) => DistinctIds(a)
  BY <1>1, PutElements
<1>3. \A r \in ToSet(stored) : PutOver(flat.upserts, r) = r
  BY IdsOfRows DEF OfDifferentIds, PutOver
<1>4. \A y : y \in ToSet(a) <=> y \in ToSet(stored) \/ \E u \in ToSet(flat.upserts) : y = NewRow(u)
  BY <1>2, <1>3 DEF OfDifferentIds
<1> HIDE DEF a
<1>5. /\ b \in Seq(PageRow)
      /\ \A y : y \in ToSet(b) <=> \E r \in ToSet(a) : y = MovedBy(flat.moves, r)
      /\ \A r \in ToSet(a) : MovedBy(flat.moves, r).id = r.id
      /\ DistinctIds(a) => DistinctIds(b)
  BY <1>1, <1>2, MovedElements
<1> HIDE DEF b
<1>6. /\ t \in Seq(PageRow)
      /\ \A y : y \in ToSet(t) <=> y \in ToSet(b) /\ y.id \notin ToSet(flat.deletes)
      /\ DistinctIds(b) => DistinctIds(t)
  BY <1>5, KeptElements DEF a, b
<1>7. \A u \in ToSet(flat.upserts) : MovedBy(flat.moves, NewRow(u)) = NewRow(u) /\ NewRow(u).id = u.id
  <2>1. \A u \in ToSet(flat.upserts) : NewRow(u).id = u.id
    BY <1>1, SequenceElements, MergedRows
  <2> QED BY <2>1 DEF MovedBy, OfDifferentIds
<1>8. ASSUME NEW y, y \in ToSet(t) PROVE LeftOrNew(stored, flat, y)
  <2>1. y \in ToSet(b) /\ y.id \notin ToSet(flat.deletes)
    BY <1>6, <1>8
  <2>2. PICK r \in ToSet(a) : y = MovedBy(flat.moves, r) /\ y.id = r.id
    BY <1>5, <2>1
  <2>3. CASE r \in ToSet(stored)
    BY <2>1, <2>2, <2>3 DEF LeftOrNew
  <2>4. CASE \E u \in ToSet(flat.upserts) : r = NewRow(u)
    BY <1>7, <2>2, <2>4 DEF LeftOrNew
  <2> QED BY <1>4, <2>3, <2>4
<1>9. ASSUME NEW y, LeftOrNew(stored, flat, y) PROVE y \in ToSet(t)
  <2>1. CASE \E r \in ToSet(stored) : r.id \notin ToSet(flat.deletes) /\ y = MovedBy(flat.moves, r)
    <3>1. PICK r \in ToSet(stored) : r.id \notin ToSet(flat.deletes) /\ y = MovedBy(flat.moves, r)
      BY <2>1
    <3>2. r \in ToSet(a)
      BY <1>4
    <3> QED BY <1>5, <1>6, <3>1, <3>2
  <2>2. CASE \E u \in ToSet(flat.upserts) : y = NewRow(u)
    <3>1. PICK u \in ToSet(flat.upserts) : y = NewRow(u)
      BY <2>2
    <3>2. y \in ToSet(a)
      BY <1>4, <3>1
    <3>3. y \in ToSet(b)
      BY <1>5, <1>7, <3>1, <3>2
    <3>4. y.id \notin ToSet(flat.deletes)
      BY <1>7, <3>1 DEF OfDifferentIds
    <3> QED BY <1>6, <3>3, <3>4
  <2> QED BY <1>9, <2>1, <2>2 DEF LeftOrNew
<1> QED BY <1>2, <1>5, <1>6, <1>8, <1>9

\* The rows that are left, without the new ones.
LeftRows(stored, flat, b) ==
    /\ \A y : y \in ToSet(b) <=> \E r \in ToSet(stored) : r.id \notin ToSet(flat.deletes) /\ y = MovedBy(flat.moves, r)
    /\ \A r \in ToSet(stored) : MovedBy(flat.moves, r).id = r.id
    /\ DistinctIds(stored) => DistinctIds(b)

\* What is left when upserts are written last.
LEMMA PutsLast ==
    ASSUME NEW stored \in Seq(PageRow), NEW flat, OfDifferentIds(stored, flat),
           NEW b \in Seq(PageRow), LeftRows(stored, flat, b), NEW t, t = PutRows(b, flat.upserts)
    PROVE  /\ t \in Seq(PageRow) /\ \A y : y \in ToSet(t) <=> LeftOrNew(stored, flat, y)
           /\ DistinctIds(stored) /\ DistinctIds(flat.upserts) => DistinctIds(t)
<1>1. flat.upserts \in Seq(PutRow) /\ flat.moves \in Seq(MovedRow)
  BY DEF OfDifferentIds
<1>2. /\ t \in Seq(PageRow)
      /\ \A y : y \in ToSet(t) <=> \/ \E r \in ToSet(b) : y = PutOver(flat.upserts, r)
                                   \/ \E u \in ToSet(flat.upserts) : u.id \notin Ids(b) /\ y = NewRow(u)
      /\ DistinctIds(b) /\ DistinctIds(flat.upserts) => DistinctIds(t)
  <2> DEFINE upserts == flat.upserts
  <2>1. upserts \in Seq(PutRow) /\ t = PutRows(b, upserts)
    BY <1>1
  <2> HIDE DEF upserts
  <2>2. /\ t \in Seq(PageRow)
        /\ \A y : y \in ToSet(t) <=> \/ \E r \in ToSet(b) : y = PutOver(upserts, r)
                                     \/ \E u \in ToSet(upserts) : u.id \notin Ids(b) /\ y = NewRow(u)
        /\ DistinctIds(b) /\ DistinctIds(upserts) => DistinctIds(t)
    BY <2>1, PutElements
  <2> QED BY <2>2 DEF upserts
<1>3. \A r \in ToSet(b) : r.id \in Ids(stored)
  BY IdsOfRows DEF LeftRows
<1>4. \A r \in ToSet(b) : PutOver(flat.upserts, r) = r
  BY <1>3, IdsOfRows DEF OfDifferentIds, PutOver
<1>5. \A u \in ToSet(flat.upserts) : u.id \notin Ids(b)
  BY <1>3, IdsOfRows DEF OfDifferentIds
<1>6. \A y : y \in ToSet(t) <=> y \in ToSet(b) \/ \E u \in ToSet(flat.upserts) : y = NewRow(u)
  BY <1>2, <1>4, <1>5
<1>7. \A y : y \in ToSet(t) <=> LeftOrNew(stored, flat, y)
  BY <1>6 DEF LeftOrNew, LeftRows
<1> QED BY <1>2, <1>7 DEF LeftRows

\* In whatever order the sorts are written, the rows that are left are the same.
LEMMA InAnyOrder ==
    ASSUME NEW stored \in Seq(PageRow), NEW flat, OfDifferentIds(stored, flat), NEW sorts \in Sorts,
           NEW t, t = InGroupOrder(stored, flat, sorts)
    PROVE  /\ t \in Seq(PageRow) /\ \A y : y \in ToSet(t) <=> LeftOrNew(stored, flat, y)
           /\ DistinctIds(stored) /\ DistinctIds(flat.upserts) => DistinctIds(t)
<1>1. flat.upserts \in Seq(PutRow) /\ flat.moves \in Seq(MovedRow)
  BY DEF OfDifferentIds
<1>2. CASE sorts = <<"upserts", "moves", "deletes">>
  <2>1. t = Kept(MovedRows(PutRows(stored, flat.upserts), flat.moves), flat.deletes)
    BY <1>2 DEF InGroupOrder, Written
  <2> QED BY <2>1, PutsFirst
<1>3. CASE sorts = <<"deletes", "moves", "upserts">>
  <2> DEFINE a == Kept(stored, flat.deletes)
             b == MovedRows(a, flat.moves)
  <2>1. t = PutRows(b, flat.upserts)
    BY <1>3 DEF InGroupOrder, Written
  <2>2. /\ a \in Seq(PageRow)
        /\ \A y : y \in ToSet(a) <=> y \in ToSet(stored) /\ y.id \notin ToSet(flat.deletes)
        /\ DistinctIds(stored) => DistinctIds(a)
    BY KeptElements
  <2> HIDE DEF a
  <2>3. /\ b \in Seq(PageRow)
        /\ \A y : y \in ToSet(b) <=> \E r \in ToSet(a) : y = MovedBy(flat.moves, r)
        /\ \A r \in ToSet(a) : MovedBy(flat.moves, r).id = r.id
        /\ DistinctIds(a) => DistinctIds(b)
    BY <1>1, <2>2, MovedElements
  <2>4. \A r \in ToSet(stored) : MovedBy(flat.moves, r).id = r.id
    <3> DEFINE c == MovedRows(stored, flat.moves)
    <3>1. /\ c \in Seq(PageRow)
          /\ \A y : y \in ToSet(c) <=> \E r \in ToSet(stored) : y = MovedBy(flat.moves, r)
          /\ \A r \in ToSet(stored) : MovedBy(flat.moves, r).id = r.id
          /\ DistinctIds(stored) => DistinctIds(c)
      BY <1>1, MovedElements
    <3> QED BY <3>1
  <2> HIDE DEF b
  <2>5. \A y : y \in ToSet(b) <=> \E r \in ToSet(stored) : r.id \notin ToSet(flat.deletes) /\ y = MovedBy(flat.moves, r)
    BY <2>2, <2>3
  <2>6. LeftRows(stored, flat, b)
    BY <2>2, <2>3, <2>4, <2>5 DEF LeftRows
  <2> QED BY <2>1, <2>3, <2>6, PutsLast
<1>4. CASE sorts = <<"moves", "deletes", "upserts">>
  <2> DEFINE a == MovedRows(stored, flat.moves)
             b == Kept(a, flat.deletes)
  <2>1. t = PutRows(b, flat.upserts)
    BY <1>4 DEF InGroupOrder, Written
  <2>2. /\ a \in Seq(PageRow)
        /\ \A y : y \in ToSet(a) <=> \E r \in ToSet(stored) : y = MovedBy(flat.moves, r)
        /\ \A r \in ToSet(stored) : MovedBy(flat.moves, r).id = r.id
        /\ DistinctIds(stored) => DistinctIds(a)
    BY <1>1, MovedElements
  <2> HIDE DEF a
  <2>3. /\ b \in Seq(PageRow)
        /\ \A y : y \in ToSet(b) <=> y \in ToSet(a) /\ y.id \notin ToSet(flat.deletes)
        /\ DistinctIds(a) => DistinctIds(b)
    BY <2>2, KeptElements
  <2> HIDE DEF b
  <2>5. \A y : y \in ToSet(b) <=> \E r \in ToSet(stored) : r.id \notin ToSet(flat.deletes) /\ y = MovedBy(flat.moves, r)
    BY <2>2, <2>3
  <2>6. LeftRows(stored, flat, b)
    BY <2>2, <2>3, <2>5 DEF LeftRows
  <2> QED BY <2>1, <2>3, <2>6, PutsLast
<1> QED BY <1>2, <1>3, <1>4 DEF Sorts

\* Every order of the sorts leaves rows.
LEMMA InGroupOrderTyped ==
    ASSUME NEW stored \in Seq(PageRow), NEW flat, flat.upserts \in Seq(PutRow), flat.moves \in Seq(MovedRow), NEW sorts \in Sorts
    PROVE  InGroupOrder(stored, flat, sorts) \in Seq(PageRow)
<1>1. \A s \in Seq(PageRow) : PutRows(s, flat.upserts) \in Seq(PageRow)
  <2> SUFFICES ASSUME NEW s \in Seq(PageRow) PROVE PutRows(s, flat.upserts) \in Seq(PageRow)
    OBVIOUS
  <2> DEFINE t == PutRows(s, flat.upserts)
  <2>1. /\ t \in Seq(PageRow)
        /\ \A y : y \in ToSet(t) <=> \/ \E r \in ToSet(s) : y = PutOver(flat.upserts, r)
                                     \/ \E u \in ToSet(flat.upserts) : u.id \notin Ids(s) /\ y = NewRow(u)
        /\ DistinctIds(s) /\ DistinctIds(flat.upserts) => DistinctIds(t)
    BY PutElements
  <2> QED BY <2>1
<1>2. \A s \in Seq(PageRow) : MovedRows(s, flat.moves) \in Seq(PageRow)
  <2> SUFFICES ASSUME NEW s \in Seq(PageRow) PROVE MovedRows(s, flat.moves) \in Seq(PageRow)
    OBVIOUS
  <2> DEFINE t == MovedRows(s, flat.moves)
  <2>1. /\ t \in Seq(PageRow)
        /\ \A y : y \in ToSet(t) <=> \E r \in ToSet(s) : y = MovedBy(flat.moves, r)
        /\ \A r \in ToSet(s) : MovedBy(flat.moves, r).id = r.id
        /\ DistinctIds(s) => DistinctIds(t)
    BY MovedElements
  <2> QED BY <2>1
<1>3. \A s \in Seq(PageRow) : Kept(s, flat.deletes) \in Seq(PageRow)
  <2> SUFFICES ASSUME NEW s \in Seq(PageRow) PROVE Kept(s, flat.deletes) \in Seq(PageRow)
    OBVIOUS
  <2> DEFINE t == Kept(s, flat.deletes)
  <2>1. /\ t \in Seq(PageRow)
        /\ \A y : y \in ToSet(t) <=> y \in ToSet(s) /\ y.id \notin ToSet(flat.deletes)
        /\ DistinctIds(s) => DistinctIds(t)
    BY KeptElements
  <2> QED BY <2>1
<1>4. CASE sorts = <<"upserts", "moves", "deletes">>
  BY <1>1, <1>2, <1>3, <1>4 DEF InGroupOrder, Written
<1>5. CASE sorts = <<"deletes", "moves", "upserts">>
  BY <1>1, <1>2, <1>3, <1>5 DEF InGroupOrder, Written
<1>6. CASE sorts = <<"moves", "deletes", "upserts">>
  BY <1>1, <1>2, <1>3, <1>6 DEF InGroupOrder, Written
<1> QED BY <1>4, <1>5, <1>6 DEF Sorts

(***************************************************************************)
(* The values of a row after the locale groups.                            *)
(***************************************************************************)
GroupLocales(groups, r) ==
    {l \in DOMAIN r.locales \cup {k \in {g.locale : g \in ToSet(groups)} : Put(groups, k, r.id) # {}} : ~Dropped(groups, l, r.id)}
GroupValue(groups, r, l) ==
    IF Put(groups, l, r.id) # {} THEN (CHOOSE u \in Put(groups, l, r.id) : TRUE).value ELSE r.locales[l]
WithValues(groups, r) == [r EXCEPT !.locales = [l \in GroupLocales(groups, r) |-> GroupValue(groups, r, l)]]

\* What is put is of a group of the locale.
LEMMA PutElement ==
    ASSUME NEW groups, NEW l, NEW id
    PROVE  \A u : u \in Put(groups, l, id) <=>
             \E g \in ToSet(groups) : g.locale = l /\ u \in ToSet(g.upserts) /\ u.id = id
BY DEF Put

\* A row is given the values of the groups, and nothing else of it changes.
LEMMA ValuesGiven ==
    ASSUME NEW groups \in Seq(RowGroups), NEW r \in PageRow, NEW w, w = WithValues(groups, r)
    PROVE  /\ w \in PageRow /\ w.id = r.id /\ RowShape(w) = RowShape(r)
           /\ \A l : l \in DOMAIN w.locales <=> (l \in DOMAIN r.locales \/ Put(groups, l, r.id) # {}) /\ ~Dropped(groups, l, r.id)
           /\ \A l \in DOMAIN w.locales : w.locales[l] = GroupValue(groups, r, l)
<1> DEFINE v == [l \in GroupLocales(groups, r) |-> GroupValue(groups, r, l)]
<1>1. r \in Row /\ InPage(r)
  BY DEF PageRow
<1>2. ToSet(groups) \subseteq RowGroups
  BY SequenceElements
<1>3. \A l : l \in GroupLocales(groups, r) <=> (l \in DOMAIN r.locales \/ Put(groups, l, r.id) # {}) /\ ~Dropped(groups, l, r.id)
  BY PutElement DEF GroupLocales
<1>4. r.locales \in PartialFunctions(Locales, Values)
  BY <1>1 DEF Row
<1>5. DOMAIN r.locales \subseteq Locales /\ \A l \in DOMAIN r.locales : r.locales[l] \in Values
  BY <1>4, PartialFunctionOf
<1>6. \A l : Put(groups, l, r.id) # {} => l \in Locales
  BY <1>2, PutElement DEF RowGroups
<1>7. GroupLocales(groups, r) \subseteq Locales
  BY <1>3, <1>5, <1>6
<1>8. \A l \in GroupLocales(groups, r) : GroupValue(groups, r, l) \in Values
  <2> SUFFICES ASSUME NEW l \in GroupLocales(groups, r) PROVE GroupValue(groups, r, l) \in Values
    OBVIOUS
  <2>1. CASE Put(groups, l, r.id) # {}
    <3> DEFINE u == CHOOSE u \in Put(groups, l, r.id) : TRUE
    <3>1. u \in Put(groups, l, r.id)
      BY <2>1
    <3>2. PICK g \in ToSet(groups) : u \in ToSet(g.upserts)
      BY <3>1, PutElement
    <3>3. g.upserts \in Seq([id : Uuid, value : Values])
      BY <1>2 DEF RowGroups
    <3>4. u \in [id : Uuid, value : Values]
      BY <3>2, <3>3, SequenceElements
    <3> QED BY <2>1, <3>4 DEF GroupValue
  <2>2. CASE Put(groups, l, r.id) = {}
    BY <1>3, <1>5, <2>2 DEF GroupValue
  <2> QED BY <2>1, <2>2
<1>9. v \in [GroupLocales(groups, r) -> Values]
  BY <1>8
<1>10. v \in PartialFunctions(Locales, Values)
  BY <1>7, <1>9 DEF PartialFunctions
<1>11. w = [r EXCEPT !.locales = v]
  BY DEF WithValues
<1> HIDE DEF v
<1>12. w \in Row /\ w.locales = v /\ w.id = r.id /\ RowShape(w) = RowShape(r) /\ w.slot = r.slot /\ w.parent = r.parent
  BY <1>1, <1>10, <1>11 DEF Row, RowShape
<1>13. w \in PageRow
  BY <1>1, <1>12 DEF PageRow, InPage
<1>14. DOMAIN v = GroupLocales(groups, r) /\ \A l \in GroupLocales(groups, r) : v[l] = GroupValue(groups, r, l)
  BY DEF v
<1> QED BY <1>3, <1>12, <1>13, <1>14

\* The rows after the locale groups.
LEMMA GroupElements ==
    ASSUME NEW stored \in Seq(PageRow), NEW groups \in Seq(RowGroups), NEW t, t = WithGroups(stored, groups)
    PROVE  /\ t \in Seq(PageRow)
           /\ \A y : y \in ToSet(t) <=> \E r \in ToSet(stored) : y = WithValues(groups, r)
           /\ DistinctIds(stored) => DistinctIds(t)
<1> DEFINE a == [i \in DOMAIN stored |-> WithValues(groups, stored[i])]
<1>1. t = a
  BY DEF WithGroups, Each, WithValues, GroupLocales, GroupValue
<1>2. \A i \in DOMAIN stored : WithValues(groups, stored[i]) \in PageRow /\ WithValues(groups, stored[i]).id = stored[i].id
  BY SequenceElements, ValuesGiven
<1>3. Mapped(stored, a, PageRow)
  BY <1>2 DEF Mapped
<1>4. a \in Seq(PageRow) /\ \A y : y \in ToSet(a) <=> \E i \in DOMAIN stored : y = a[i]
  <2> HIDE DEF a
  <2> QED BY <1>3, MappedElements
<1>5. \A y : y \in ToSet(a) <=> \E r \in ToSet(stored) : y = WithValues(groups, r)
  BY <1>4 DEF ToSet
<1>6. DistinctIds(stored) => DistinctIds(a)
  BY <1>2 DEF DistinctIds
<1> QED BY <1>1, <1>4, <1>5, <1>6

\* The rows of a batch are rows of their profile.
LEMMA BatchRows ==
    ASSUME profile \in DOMAIN Forms, NEW edits, EditsTyped(edits), NEW flat, FlatOf(edits, flat)
    PROVE  flat.upserts \in Seq(PutRow) /\ flat.moves \in Seq(MovedRow) /\ flat.groups \in Seq(RowGroups)
<1>1. edits.base \in Seq(BaseMutations) /\ \A m \in ToSet(edits.base) : m \in BaseMutations
  BY SequenceElements DEF EditsTyped
<1>2. \A x \in ToSet(flat.upserts) : x \in PutRow
  <2> SUFFICES ASSUME NEW x \in ToSet(flat.upserts) PROVE x \in PutRow
    OBVIOUS
  <2>1. PICK m \in ToSet(edits.base) : m.op = "upsert" /\ x = ShapeAt(m.section, m.node)
    BY DEF FlatOf, FlatUpserts
  <2>2. m.section \in Places /\ m.node \in NodesAt(m.section)
    BY <1>1, <2>1, BaseMutationSorts
  <2> QED BY <2>1, <2>2, ShapeTyped DEF PutRow, InPage
<1>3. \A x \in ToSet(flat.moves) : x \in MovedRow
  <2> SUFFICES ASSUME NEW x \in ToSet(flat.moves) PROVE x \in MovedRow
    OBVIOUS
  <2>1. PICK m \in ToSet(edits.base) : m.op = "move" /\ x = PlaceRow(m)
    BY DEF FlatOf, FlatMoves
  <2> QED BY <1>1, <2>1, PlaceTyped DEF MovedRow, InPage
<1>4. flat.upserts \in Seq(NewRows) /\ flat.moves \in Seq(MoveRows) /\ flat.groups \in Seq(RowGroups)
  BY DEF FlatOf, FlatUpserts, FlatMoves, FlatGroups
<1>5. flat.upserts \in Seq(PutRow)
  BY <1>2, <1>4, Narrowed
<1>6. flat.moves \in Seq(MovedRow)
  BY <1>3, <1>4, Narrowed
<1> QED BY <1>4, <1>5, <1>6

\* What the store makes of a batch are rows.
LEMMA AppliedTyped ==
    ASSUME profile \in DOMAIN Forms, NEW stored \in Seq(PageRow), NEW edits, EditsTyped(edits), NEW flat, FlatOf(edits, flat),
           NEW sorts \in Sorts
    PROVE  Applied(stored, flat, sorts) \in Seq(PageRow)
<1> DEFINE a == InGroupOrder(stored, flat, sorts)
           t == WithGroups(a, flat.groups)
<1>1. flat.upserts \in Seq(PutRow) /\ flat.moves \in Seq(MovedRow) /\ flat.groups \in Seq(RowGroups)
  BY BatchRows
<1>2. a \in Seq(PageRow)
  BY <1>1, InGroupOrderTyped
<1> HIDE DEF a
<1>3. /\ t \in Seq(PageRow)
      /\ \A y : y \in ToSet(t) <=> \E r \in ToSet(a) : y = WithValues(flat.groups, r)
      /\ DistinctIds(a) => DistinctIds(t)
  BY <1>1, <1>2, GroupElements
<1> QED BY <1>3 DEF Applied, a

(***************************************************************************)
(* What editors have made, by the locale of a mutation of a value.         *)
(***************************************************************************)
Makes(groups, l, v) == \E g \in ToSet(groups) : g.locale = l /\ v \in ToSet(g.mutations)

OneGroupEach(groups) == \A i, j \in DOMAIN groups : groups[i].locale = groups[j].locale => i = j

Pairs(groups) == UNION {{<<i, k>> : k \in DOMAIN groups[i].mutations} : i \in DOMAIN groups}

\* With one mutation more: groups, a group for each locale, one mutation more in the locale l.
Grown(groups, more, l, m) ==
    /\ more \in Seq(MadeGroups) /\ OneGroupEach(more)
    /\ \A a, v : Makes(more, a, v) <=> Makes(groups, a, v) \/ (a = l /\ v = m)
    /\ IsFiniteSet(Pairs(groups)) =>
          IsFiniteSet(Pairs(more)) /\ Cardinality(Pairs(more)) = Cardinality(Pairs(groups)) + 1

\* What is made, by group.
LEMMA MakesIn ==
    ASSUME NEW groups, NEW l, NEW v
    PROVE  Makes(groups, l, v) <=> \E i \in DOMAIN groups : groups[i].locale = l /\ v \in ToSet(groups[i].mutations)
BY DEF Makes, ToSet

\* The pairs that count mutations.
LEMMA PairsElements ==
    ASSUME NEW groups, NEW x
    PROVE  x \in Pairs(groups) <=> \E i \in DOMAIN groups : \E k \in DOMAIN groups[i].mutations : x = <<i, k>>
BY DEF Pairs

\* Groups with one pair more have one mutation more.
LEMMA PairsGrow ==
    ASSUME NEW groups, NEW more, NEW x, x \notin Pairs(groups), Pairs(more) = Pairs(groups) \cup {x}, IsFiniteSet(Pairs(groups))
    PROVE  IsFiniteSet(Pairs(more)) /\ Cardinality(Pairs(more)) = Cardinality(Pairs(groups)) + 1
BY FS_AddElement

\* The group of a locale with a mutation more.
InGroupOf(groups, l, m) ==
    [i \in DOMAIN groups |->
        IF groups[i].locale = l THEN [groups[i] EXCEPT !.mutations = Append(@, m)] ELSE groups[i]]

\* A mutation of a locale that has a group.
LEMMA GroupGrows ==
    ASSUME NEW groups \in Seq(MadeGroups), OneGroupEach(groups), NEW n \in DOMAIN groups, NEW m \in ValueMutations,
           NEW more, more = InGroupOf(groups, groups[n].locale, m)
    PROVE  Grown(groups, more, groups[n].locale, m)
<1> DEFINE l == groups[n].locale
           h == [groups[n] EXCEPT !.mutations = Append(@, m)]
<1>1. \A i \in DOMAIN groups : groups[i] \in MadeGroups
  BY SequenceElements
<1>2. \A i \in DOMAIN groups : groups[i].locale = l <=> i = n
  BY DEF OneGroupEach
<1>3. DOMAIN more = DOMAIN groups /\ \A i \in DOMAIN groups : more[i] = IF i = n THEN h ELSE groups[i]
  BY <1>2 DEF InGroupOf
<1>4. groups[n] = [locale |-> l, mutations |-> groups[n].mutations] /\ groups[n].mutations \in Seq(ValueMutations) /\ l \in Locales
  BY <1>1 DEF MadeGroups
<1>5. h = [locale |-> l, mutations |-> Append(groups[n].mutations, m)]
  <2> DEFINE g == groups[n]
  <2>1. g = [locale |-> l, mutations |-> g.mutations]
    BY <1>4
  <2>2. h = [g EXCEPT !.mutations = Append(g.mutations, m)]
    OBVIOUS
  <2> HIDE DEF g
  <2>3. [g EXCEPT !.mutations = Append(g.mutations, m)] = [locale |-> l, mutations |-> Append(g.mutations, m)]
    BY <2>1
  <2> QED BY <2>2, <2>3 DEF g
<1>6. /\ Append(groups[n].mutations, m) \in Seq(ValueMutations)
      /\ ToSet(Append(groups[n].mutations, m)) = ToSet(groups[n].mutations) \cup {m}
      /\ DOMAIN Append(groups[n].mutations, m) = DOMAIN groups[n].mutations \cup {Len(groups[n].mutations) + 1}
      /\ Len(groups[n].mutations) + 1 \notin DOMAIN groups[n].mutations
  <2> DEFINE s == groups[n].mutations
  <2>1. s \in Seq(ValueMutations)
    BY <1>4
  <2> HIDE DEF s
  <2>2. /\ Append(s, m) \in Seq(ValueMutations) /\ ToSet(Append(s, m)) = ToSet(s) \cup {m}
        /\ DistinctIds(s) /\ (\A y \in ToSet(s) : y.id # m.id) => DistinctIds(Append(s, m))
    BY <2>1, Appended
  <2>3. Len(Append(s, m)) = Len(s) + 1 /\ DOMAIN s = 1..Len(s) /\ DOMAIN Append(s, m) = 1..(Len(s) + 1) /\ Len(s) \in Nat
    BY <2>1, <2>2
  <2> QED BY <2>2, <2>3 DEF s
<1>7. h \in MadeGroups /\ h.locale = l /\ h.mutations = Append(groups[n].mutations, m)
  BY <1>4, <1>5, <1>6 DEF MadeGroups
<1> HIDE DEF h, l
<1>8. \A i \in DOMAIN groups : more[i] \in MadeGroups /\ more[i].locale = groups[i].locale
  BY <1>1, <1>3, <1>7 DEF l
<1>9. more \in Seq(MadeGroups)
  <2>1. DOMAIN groups = 1..Len(groups) /\ Len(groups) \in Nat
    OBVIOUS
  <2>2. more = [i \in 1..Len(groups) |-> more[i]]
    BY <1>3, <2>1 DEF InGroupOf
  <2> QED BY <1>8, <2>1, <2>2
<1>10. OneGroupEach(more)
  BY <1>3, <1>8 DEF OneGroupEach
<1>11. \A a, v : Makes(more, a, v) <=> Makes(groups, a, v) \/ (a = l /\ v = m)
  <2> SUFFICES ASSUME NEW a, NEW v PROVE Makes(more, a, v) <=> Makes(groups, a, v) \/ (a = l /\ v = m)
    OBVIOUS
  <2>1. \A i \in DOMAIN groups : (more[i].locale = a /\ v \in ToSet(more[i].mutations)) <=>
            (groups[i].locale = a /\ v \in ToSet(groups[i].mutations)) \/ (i = n /\ a = l /\ v = m)
    BY <1>3, <1>6, <1>7, <1>8 DEF l
  <2> QED BY <1>3, <2>1, MakesIn
<1>12. Pairs(more) = Pairs(groups) \cup {<<n, Len(groups[n].mutations) + 1>>}
  <2>1. \A i \in DOMAIN groups : DOMAIN more[i].mutations =
          IF i = n THEN DOMAIN groups[n].mutations \cup {Len(groups[n].mutations) + 1} ELSE DOMAIN groups[i].mutations
    BY <1>3, <1>6, <1>7
  <2>2. \A x : x \in Pairs(more) <=> x \in Pairs(groups) \/ x = <<n, Len(groups[n].mutations) + 1>>
    <3> SUFFICES ASSUME NEW x PROVE x \in Pairs(more) <=> x \in Pairs(groups) \/ x = <<n, Len(groups[n].mutations) + 1>>
      OBVIOUS
    <3>1. x \in Pairs(more) <=> \E i \in DOMAIN groups : \E k \in DOMAIN more[i].mutations : x = <<i, k>>
      BY <1>3, PairsElements
    <3>2. x \in Pairs(groups) <=> \E i \in DOMAIN groups : \E k \in DOMAIN groups[i].mutations : x = <<i, k>>
      BY PairsElements
    <3> QED BY <2>1, <3>1, <3>2
  <2> QED BY <2>2
<1>13. <<n, Len(groups[n].mutations) + 1>> \notin Pairs(groups)
  <2> SUFFICES ASSUME <<n, Len(groups[n].mutations) + 1>> \in Pairs(groups) PROVE FALSE
    OBVIOUS
  <2>1. PICK i \in DOMAIN groups : \E k \in DOMAIN groups[i].mutations : <<n, Len(groups[n].mutations) + 1>> = <<i, k>>
    BY PairsElements
  <2>2. PICK k \in DOMAIN groups[i].mutations : <<n, Len(groups[n].mutations) + 1>> = <<i, k>>
    BY <2>1
  <2>3. i = n /\ k = Len(groups[n].mutations) + 1
    BY <2>2
  <2> QED BY <1>6, <2>3
<1>14. IsFiniteSet(Pairs(groups)) => IsFiniteSet(Pairs(more)) /\ Cardinality(Pairs(more)) = Cardinality(Pairs(groups)) + 1
  <2> DEFINE x == <<n, Len(groups[n].mutations) + 1>>
  <2>1. x \notin Pairs(groups) /\ Pairs(more) = Pairs(groups) \cup {x}
    BY <1>12, <1>13
  <2> HIDE DEF x
  <2> QED BY <2>1, PairsGrow
<1> QED BY <1>9, <1>10, <1>11, <1>14 DEF Grown, l

\* A mutation of a locale that has no group yet.
LEMMA GroupAdded ==
    ASSUME NEW groups \in Seq(MadeGroups), OneGroupEach(groups), NEW l \in Locales, NEW m \in ValueMutations,
           \A i \in DOMAIN groups : groups[i].locale # l,
           NEW more, more = Append(groups, [locale |-> l, mutations |-> <<m>>])
    PROVE  Grown(groups, more, l, m)
<1> DEFINE h == [locale |-> l, mutations |-> <<m>>]
           n == Len(groups) + 1
<1>1. h \in MadeGroups /\ h.locale = l /\ h.mutations = <<m>>
  BY DEF MadeGroups
<1>2. ToSet(h.mutations) = {m} /\ DOMAIN h.mutations = {1}
  BY <1>1 DEF ToSet
<1> HIDE DEF h
<1>3. Len(groups) \in Nat /\ DOMAIN groups = 1..Len(groups)
  OBVIOUS
<1>4. /\ more \in Seq(MadeGroups) /\ DOMAIN more = DOMAIN groups \cup {n} /\ more[n] = h /\ n \notin DOMAIN groups
      /\ \A i \in DOMAIN groups : more[i] = groups[i]
  <2>1. more = Append(groups, h)
    BY DEF h
  <2> QED BY <1>1, <1>3, <2>1
<1>5. OneGroupEach(more)
  BY <1>1, <1>4 DEF OneGroupEach
<1> HIDE DEF n
<1>6. \A a, v : Makes(more, a, v) <=> Makes(groups, a, v) \/ (a = l /\ v = m)
  <2> SUFFICES ASSUME NEW a, NEW v PROVE Makes(more, a, v) <=> Makes(groups, a, v) \/ (a = l /\ v = m)
    OBVIOUS
  <2>1. Makes(more, a, v) <=> \E i \in DOMAIN groups \cup {n} : more[i].locale = a /\ v \in ToSet(more[i].mutations)
    BY <1>4, MakesIn
  <2>2. (more[n].locale = a /\ v \in ToSet(more[n].mutations)) <=> a = l /\ v = m
    BY <1>1, <1>2, <1>4
  <2>3. Makes(groups, a, v) <=> \E i \in DOMAIN groups : more[i].locale = a /\ v \in ToSet(more[i].mutations)
    BY <1>4, MakesIn
  <2> QED BY <2>1, <2>2, <2>3
<1>7. Pairs(more) = Pairs(groups) \cup {<<n, 1>>}
  <2>1. \A x : x \in Pairs(more) <=> x \in Pairs(groups) \/ x = <<n, 1>>
    <3> SUFFICES ASSUME NEW x PROVE x \in Pairs(more) <=> x \in Pairs(groups) \/ x = <<n, 1>>
      OBVIOUS
    <3>0. x \in Pairs(more) <=> \E i \in DOMAIN more : \E k \in DOMAIN more[i].mutations : x = <<i, k>>
      BY DEF Pairs
    <3>1. x \in Pairs(more) <=> \E i \in DOMAIN groups \cup {n} : \E k \in DOMAIN more[i].mutations : x = <<i, k>>
      BY <1>4, <3>0
    <3>2. x \in Pairs(groups) <=> \E i \in DOMAIN groups : \E k \in DOMAIN more[i].mutations : x = <<i, k>>
      BY <1>4, PairsElements
    <3>3. (\E k \in DOMAIN more[n].mutations : x = <<n, k>>) <=> x = <<n, 1>>
      BY <1>2, <1>4
    <3> QED BY <3>1, <3>2, <3>3
  <2> QED BY <2>1
<1>8. <<n, 1>> \notin Pairs(groups)
  <2> SUFFICES ASSUME <<n, 1>> \in Pairs(groups) PROVE FALSE
    OBVIOUS
  <2>1. PICK i \in DOMAIN groups : \E k \in DOMAIN groups[i].mutations : <<n, 1>> = <<i, k>>
    BY PairsElements
  <2>2. i = n
    BY <2>1
  <2> QED BY <1>4, <2>2
<1>9. IsFiniteSet(Pairs(groups)) => IsFiniteSet(Pairs(more)) /\ Cardinality(Pairs(more)) = Cardinality(Pairs(groups)) + 1
  BY <1>7, <1>8, PairsGrow
<1> QED BY <1>4, <1>5, <1>6, <1>9 DEF Grown

\* A mutation of a value is put in the group of its locale.
LEMMA GroupsGrow ==
    ASSUME NEW groups \in Seq(MadeGroups), OneGroupEach(groups), NEW l \in Locales, NEW m \in ValueMutations,
           NEW more, more = InGroup(groups, l, m)
    PROVE  Grown(groups, more, l, m)
<1>1. CASE \E i \in DOMAIN groups : groups[i].locale = l
  <2>1. PICK n \in DOMAIN groups : groups[n].locale = l
    BY <1>1
  <2>2. more = InGroupOf(groups, groups[n].locale, m)
    BY <1>1, <2>1 DEF InGroup, InGroupOf
  <2> QED BY <2>1, <2>2, GroupGrows
<1>2. CASE ~\E i \in DOMAIN groups : groups[i].locale = l
  <2>1. more = Append(groups, [locale |-> l, mutations |-> <<m>>])
    BY <1>2 DEF InGroup
  <2> QED BY <1>2, <2>1, GroupAdded
<1> QED BY <1>1, <1>2

EditCount(edits) == Len(edits.base) + Cardinality(Pairs(edits.groups))

\* k mutations more.
Longer(edits, more, k) ==
    /\ EditsTyped(more)
    /\ IsFiniteSet(Pairs(edits.groups)) =>
          IsFiniteSet(Pairs(more.groups)) /\ EditCount(more) \in Nat /\ EditCount(more) = EditCount(edits) + k

FirstMade(node) == [op |-> "upsert", id |-> node.id, value |-> FirstValue(node)]

\* What is made of an upsert is its value in the source locale.
LEMMA FirstIsMade ==
    ASSUME NEW m, NEW groups
    PROVE  FirstValued(m, groups) <=> Makes(groups, Source, FirstMade(m.node))
BY DEF FirstValued, Makes, FirstMade

\* What an editor has made, by its parts.
LEMMA EditParts ==
    ASSUME NEW edits, EditsTyped(edits)
    PROVE  /\ edits = [base |-> edits.base, groups |-> edits.groups]
           /\ edits.base \in Seq(BaseMutations) /\ edits.groups \in Seq(MadeGroups) /\ OneGroupEach(edits.groups)
           /\ \A m \in ToSet(edits.base) : m \in BaseMutations /\ (m.op = "upsert" => Makes(edits.groups, Source, FirstMade(m.node)))
<1>1. edits.base \in Seq(BaseMutations)
  BY DEF EditsTyped
<1>2. ToSet(edits.base) \subseteq BaseMutations
  BY <1>1, SequenceElements
<1> QED BY <1>2, FirstIsMade DEF EditsTyped, OneGroupEach

\* A move or a delete more.
LEMMA BaseGrows ==
    ASSUME NEW edits, EditsTyped(edits), NEW m \in BaseMutations, m.op # "upsert",
           NEW more, more = [base |-> Append(edits.base, m), groups |-> edits.groups]
    PROVE  Longer(edits, more, 1)
<1> DEFINE b == edits.base
           g == edits.groups
<1>1. b \in Seq(BaseMutations) /\ g \in Seq(MadeGroups) /\ OneGroupEach(g)
      /\ \A k \in ToSet(b) : k.op = "upsert" => FirstValued(k, g)
  BY DEF EditsTyped, OneGroupEach
<1>2. more.base = Append(b, m) /\ more.groups = g /\ more = [base |-> more.base, groups |-> more.groups]
  OBVIOUS
<1>3. EditCount(edits) = Len(b) + Cardinality(Pairs(g))
  BY DEF EditCount
<1> HIDE DEF b, g
<1>4. /\ Append(b, m) \in Seq(BaseMutations)
      /\ ToSet(Append(b, m)) = ToSet(b) \cup {m}
      /\ DistinctIds(b) /\ (\A y \in ToSet(b) : y.id # m.id) => DistinctIds(Append(b, m))
  BY <1>1, Appended
<1>5. EditsTyped(more)
  BY <1>1, <1>2, <1>4 DEF EditsTyped, OneGroupEach
<1>6. Len(Append(b, m)) = Len(b) + 1 /\ Len(b) \in Nat
  BY <1>1
<1>7. IsFiniteSet(Pairs(g)) => Cardinality(Pairs(g)) \in Nat
  BY FS_CardinalityType
<1> QED BY <1>2, <1>3, <1>5, <1>6, <1>7 DEF Longer, EditCount, g

\* A mutation of a value more.
LEMMA ValuesGrow ==
    ASSUME NEW edits, EditsTyped(edits), NEW l \in Locales, NEW v \in ValueMutations,
           NEW more, more = [base |-> edits.base, groups |-> InGroup(edits.groups, l, v)]
    PROVE  Longer(edits, more, 1) /\ Grown(edits.groups, more.groups, l, v)
<1> DEFINE b == edits.base
           g == edits.groups
           h == InGroup(g, l, v)
<1>1. b \in Seq(BaseMutations) /\ g \in Seq(MadeGroups) /\ OneGroupEach(g)
      /\ \A k \in ToSet(b) : k.op = "upsert" => Makes(g, Source, FirstMade(k.node))
  BY FirstIsMade DEF EditsTyped, OneGroupEach
<1>2. more.base = b /\ more.groups = h /\ more = [base |-> more.base, groups |-> more.groups]
  OBVIOUS
<1>3. EditCount(edits) = Len(b) + Cardinality(Pairs(g))
  BY DEF EditCount
<1> HIDE DEF b, g
<1>4. Grown(g, h, l, v)
  BY <1>1, GroupsGrow
<1> HIDE DEF h
<1>5. EditsTyped(more)
  BY <1>1, <1>2, <1>4, FirstIsMade DEF EditsTyped, OneGroupEach, Grown
<1>6. Len(b) \in Nat
  BY <1>1
<1>7. IsFiniteSet(Pairs(g)) => Cardinality(Pairs(g)) \in Nat
  BY FS_CardinalityType
<1>8. Longer(edits, more, 1)
  BY <1>2, <1>3, <1>4, <1>5, <1>6, <1>7 DEF Longer, EditCount, g, Grown
<1> QED BY <1>2, <1>4, <1>8 DEF g

\* An insertion more.
LEMMA InsertsGrow ==
    ASSUME NEW edits, EditsTyped(edits), NEW m \in BaseMutations, m.op = "upsert", FirstMade(m.node) \in ValueMutations,
           NEW more, more = [base |-> Append(edits.base, m), groups |-> InGroup(edits.groups, Source, FirstMade(m.node))]
    PROVE  Longer(edits, more, 2) /\ Grown(edits.groups, more.groups, Source, FirstMade(m.node))
<1> DEFINE b == edits.base
           g == edits.groups
           v == FirstMade(m.node)
           h == InGroup(g, Source, v)
<1>1. b \in Seq(BaseMutations) /\ g \in Seq(MadeGroups) /\ OneGroupEach(g)
      /\ \A k \in ToSet(b) : k.op = "upsert" => Makes(g, Source, FirstMade(k.node))
  BY FirstIsMade DEF EditsTyped, OneGroupEach
<1>2. more.base = Append(b, m) /\ more.groups = h /\ more = [base |-> more.base, groups |-> more.groups]
  OBVIOUS
<1>3. EditCount(edits) = Len(b) + Cardinality(Pairs(g))
  BY DEF EditCount
<1>4. Source \in Locales
  BY DEF Locales
<1> HIDE DEF b, g
<1>5. Grown(g, h, Source, v)
  <2> HIDE DEF v
  <2> QED BY <1>1, <1>4, GroupsGrow DEF v
<1> HIDE DEF h
<1>6. /\ Append(b, m) \in Seq(BaseMutations)
      /\ ToSet(Append(b, m)) = ToSet(b) \cup {m}
      /\ DistinctIds(b) /\ (\A y \in ToSet(b) : y.id # m.id) => DistinctIds(Append(b, m))
  BY <1>1, Appended
<1>7. \A k \in ToSet(b) \cup {m} : k.op = "upsert" => FirstValued(k, h)
  BY <1>1, <1>5, FirstIsMade DEF Grown
<1>8. EditsTyped(more)
  BY <1>2, <1>5, <1>6, <1>7 DEF EditsTyped, OneGroupEach, Grown
<1>9. Len(Append(b, m)) = Len(b) + 1 /\ Len(b) \in Nat
  BY <1>1
<1>10. IsFiniteSet(Pairs(g)) => Cardinality(Pairs(g)) \in Nat
  BY FS_CardinalityType
<1>11. Longer(edits, more, 2)
  BY <1>2, <1>3, <1>5, <1>8, <1>9, <1>10 DEF Longer, EditCount, g, Grown
<1> QED BY <1>2, <1>5, <1>11 DEF g

\* Nothing is made at first.
LEMMA NothingMade ==
    /\ EditsTyped(NoEdits) /\ IsFiniteSet(Pairs(NoEdits.groups)) /\ EditCount(NoEdits) = 0
    /\ \A l, v : ~Makes(NoEdits.groups, l, v)
<1>1. NoEdits.base = <<>> /\ NoEdits.groups = <<>> /\ NoEdits = [base |-> NoEdits.base, groups |-> NoEdits.groups]
  BY DEF NoEdits
<1>2. \A x : x \notin ToSet(<<>>)
  BY DEF ToSet
<1>3. DOMAIN <<>> = {}
  OBVIOUS
<1>4. Pairs(<<>>) = {}
  BY <1>3 DEF Pairs
<1>5. EditsTyped(NoEdits)
  BY <1>1, <1>2, <1>3 DEF EditsTyped
<1>6. EditCount(NoEdits) = 0 /\ IsFiniteSet(Pairs(NoEdits.groups))
  BY <1>1, <1>4, FS_EmptySet DEF EditCount
<1> QED BY <1>1, <1>2, <1>5, <1>6 DEF Makes
=================================================================================
