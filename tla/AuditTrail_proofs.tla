------------------------- MODULE AuditTrail_proofs -------------------------
(***************************************************************************)
(* What masking leaves of an answer, for any JSON of any depth, and what   *)
(* the log rows of a journey therefore show, for any number of             *)
(* applications and submissions.                                           *)
(*                                                                         *)
(* The recursions follow the nesting of JSON, and the arguments about them *)
(* are inductions over its height or over the levels below a value.  An    *)
(* induction is stated with a set in place of a predicate: what is not in  *)
(* the set has a least element, by well-foundedness.  That masking and the *)
(* levels are defined at all (RedactionIsDefined, NodesAreLevels) is shown *)
(* from below: partial functions exist up to every height and agree where  *)
(* they overlap.  Then every level of the masked value is the image of the *)
(* same level of the value (RedactedNodes), which is exactness; with the   *)
(* keys of the nine payloads (PayloadIsPlain) it gives what is in clear.   *)
(***************************************************************************)
EXTENDS AuditTrail, Journey_proofs, WellFoundedInduction

-----------------------------------------------------------------------------
(* Induction.                                                              *)

(* Numbers have a least one.                                               *)
LEMMA LeastNumber ==
    ASSUME NEW T, T \subseteq Nat, T # {}
    PROVE  \E x \in T : \A y \in T : x <= y
<1>1. PICK x \in T : \A y \in T : ~ (<<y, x>> \in OpToRel(<, Nat))
  BY NatLessThanWellFounded, WFMin
<1>2. \A y \in T : ~ (y < x)
  BY <1>1 DEF OpToRel
<1> QED BY <1>2

(* What holds of 0, and of n + 1 if it holds of n, holds of all numbers.   *)
LEMMA ByNumber ==
    ASSUME NEW S, 0 \in S, \A n \in Nat : n \in S => n + 1 \in S
    PROVE  Nat \subseteq S
<1> DEFINE T == {n \in Nat : n \notin S}
<1>1. CASE T = {}
  BY <1>1
<1>2. CASE T # {}
  <2>1. PICK x \in T : \A y \in T : x <= y
    BY <1>2, LeastNumber
  <2>2. x - 1 \in Nat /\ x - 1 \in S
    BY <2>1
  <2> QED BY <2>1, <2>2
<1> QED BY <1>1, <1>2

(* What holds of a value whenever it holds of all the value holds, holds   *)
(* of every JSON value.                                                    *)
LEMMA ByHeight ==
    ASSUME NEW S,
           \A data \in Json :
             (Holds(data) => \A d \in DOMAIN Content(data) : Content(data)[d] \in S)
               => data \in S
    PROVE  Json \subseteq S
<1> DEFINE T == {Height[data] : data \in Json \ S}
<1>1. T \subseteq Nat
  BY JsonAssumption
<1>2. CASE T = {}
  BY <1>2
<1>3. CASE T # {}
  <2>1. PICK h \in T : \A y \in T : h <= y
    BY <1>1, <1>3, LeastNumber
  <2>2. PICK data \in Json \ S : Height[data] = h
    BY <2>1
  <2>3. PICK d \in DOMAIN Content(data) : Holds(data) /\ Content(data)[d] \notin S
    BY <2>2
  <2>4. Content(data)[d] \in Json \ S /\ Height[Content(data)[d]] < h
    BY <2>2, <2>3, JsonAssumption
  <2>5. Height[Content(data)[d]] \in T /\ h \in Nat /\ Height[Content(data)[d]] \in Nat
    BY <1>1, <2>1, <2>4
  <2> QED BY <2>1, <2>4, <2>5
<1> QED BY <1>2, <1>3

-----------------------------------------------------------------------------
(* _deep_redact is defined.                                                *)

LEMMA RedactReadsMembers ==
    ASSUME NEW f, NEW g, NEW data,
           Holds(data) => \A d \in DOMAIN Content(data) :
                            f[Content(data)[d]] = g[Content(data)[d]]
    PROVE  Redact(f, data) = Redact(g, data)
<1>1. CASE Kind(data) = "dict"
  BY <1>1 DEF Redact, Holds
<1>2. CASE Kind(data) = "list"
  BY <1>2 DEF Redact, Holds
<1> QED BY <1>1, <1>2 DEF Redact

Below(n) == {data \in Json : Height[data] < n}

Redacts(f, n) == f = [data \in Below(n) |-> Redact(f, data)]

LEMMA MembersBelow ==
    ASSUME NEW n \in Nat, NEW data \in Below(n), Holds(data),
           NEW d \in DOMAIN Content(data)
    PROVE  /\ Content(data)[d] \in Json
           /\ \A m \in Nat : data \in Below(m + 1) => Content(data)[d] \in Below(m)
           /\ Content(data)[d] \in Below(n)
           /\ Content(data)[d] \in Below(Height[data])
<1>1. /\ data \in Json /\ Height[data] \in Nat /\ Height[data] < n
      /\ Content(data)[d] \in Json
      /\ Height[Content(data)[d]] \in Nat /\ Height[Content(data)[d]] < Height[data]
  BY JsonAssumption DEF Below
<1> QED BY <1>1 DEF Below

LEMMA RedactionsAgree ==
    ASSUME NEW n \in Nat, NEW m \in Nat, NEW f, NEW g, Redacts(f, n), Redacts(g, m)
    PROVE  \A data \in Below(n) \cap Below(m) : f[data] = g[data]
<1> DEFINE S == {data \in Json : data \in Below(n) \cap Below(m) => f[data] = g[data]}
<1>1. ASSUME NEW data \in Json,
             Holds(data) => \A d \in DOMAIN Content(data) : Content(data)[d] \in S
      PROVE  data \in S
  <2> SUFFICES ASSUME data \in Below(n) \cap Below(m) PROVE f[data] = g[data]
    OBVIOUS
  <2>1. Holds(data) => \A d \in DOMAIN Content(data) :
                         f[Content(data)[d]] = g[Content(data)[d]]
    BY <1>1, MembersBelow
  <2>2. Redact(f, data) = Redact(g, data)
    BY <2>1, RedactReadsMembers
  <2>3. f[data] = Redact(f, data)
    BY DEF Redacts
  <2>4. g[data] = Redact(g, data)
    BY DEF Redacts
  <2> QED BY <2>2, <2>3, <2>4
<1> HIDE DEF S
<1>2. Json \subseteq S
  BY <1>1, ByHeight
<1> QED BY <1>2 DEF S, Below

LEMMA RedactionsExist == \A n \in Nat : \E f : Redacts(f, n)
<1> DEFINE S == {n \in Nat : \E f : Redacts(f, n)}
<1>1. 0 \in S
  <2>1. Below(0) = {}
    BY JsonAssumption DEF Below
  <2>2. Redacts([data \in Below(0) |-> data], 0)
    BY <2>1 DEF Redacts
  <2> QED BY <2>2
<1>2. ASSUME NEW n \in Nat, n \in S PROVE n + 1 \in S
  <2>1. PICK f : Redacts(f, n)
    BY <1>2
  <2> DEFINE g == [data \in Below(n + 1) |-> Redact(f, data)]
  <2>2. ASSUME NEW data \in Below(n + 1) PROVE Redact(f, data) = Redact(g, data)
    <3>1. ASSUME Holds(data), NEW d \in DOMAIN Content(data)
          PROVE  f[Content(data)[d]] = g[Content(data)[d]]
      <4>1. Content(data)[d] \in Below(n) /\ Content(data)[d] \in Below(n + 1)
        BY <3>1, MembersBelow
      <4> QED BY <4>1, <2>1 DEF Redacts
    <3> HIDE DEF g
    <3> QED BY <3>1, RedactReadsMembers
  <2>3. Redacts(g, n + 1)
    BY <2>2 DEF Redacts
  <2> QED BY <2>3
<1> HIDE DEF S
<1>3. Nat \subseteq S
  BY <1>1, <1>2, ByNumber
<1> QED BY <1>3 DEF S

(* The recursion ends, on every JSON value.                                *)
LEMMA RedactionIsDefined == _deep_redact = [data \in Json |-> Redact(_deep_redact, data)]
<1> DEFINE part(n) == CHOOSE f : Redacts(f, n)
           whole == [data \in Json |-> part(Height[data] + 1)[data]]
<1>1. \A n \in Nat : Redacts(part(n), n)
  BY RedactionsExist
<1> HIDE DEF part
<1>2. ASSUME NEW data \in Json PROVE whole[data] = Redact(whole, data)
  <2> DEFINE h == Height[data]
  <2>1. h \in Nat /\ h + 1 \in Nat /\ data \in Below(h + 1)
    BY JsonAssumption DEF Below
  <2>2. whole[data] = Redact(part(h + 1), data)
    BY <1>1, <2>1 DEF Redacts
  <2>3. ASSUME Holds(data), NEW d \in DOMAIN Content(data)
        PROVE  part(h + 1)[Content(data)[d]] = whole[Content(data)[d]]
    <3> DEFINE v == Content(data)[d]
    <3>1. v \in Json /\ v \in Below(h + 1)
      BY <2>1, <2>3, MembersBelow
    <3>2. Height[v] \in Nat /\ Height[v] + 1 \in Nat /\ v \in Below(Height[v] + 1)
      BY <3>1, JsonAssumption DEF Below
    <3> HIDE DEF v, h
    <3>3. part(h + 1)[v] = part(Height[v] + 1)[v]
      BY <1>1, <2>1, <3>1, <3>2, RedactionsAgree
    <3> QED BY <3>1, <3>3 DEF v
  <2> HIDE DEF whole, h
  <2>4. Redact(part(h + 1), data) = Redact(whole, data)
    BY <2>3, RedactReadsMembers
  <2> QED BY <2>2, <2>4
<1>3. whole = [data \in Json |-> Redact(whole, data)]
  <2>1. whole = [data \in Json |-> whole[data]]
    OBVIOUS
  <2> HIDE DEF whole
  <2> QED BY <1>2, <2>1
<1> HIDE DEF whole
<1> QED BY <1>3 DEF _deep_redact

-----------------------------------------------------------------------------
(* Nodes is defined: the levels, one after the other.                      *)

Level(data, f, n) ==
    IF n = 0 THEN {[path |-> <<>>, value |-> data]}
    ELSE UNION {Held(node) : node \in f[n - 1]}

Levels(data, f, n) == f = [k \in 0 .. n |-> Level(data, f, k)]

LEMMA LevelsAgree ==
    ASSUME NEW data, NEW n \in Nat, NEW m \in Nat, NEW f, NEW g,
           Levels(data, f, n), Levels(data, g, m)
    PROVE  \A k \in (0 .. n) \cap (0 .. m) : f[k] = g[k]
<1> DEFINE S == {k \in Nat : k \in (0 .. n) \cap (0 .. m) => f[k] = g[k]}
<1>1. 0 \in S
  BY DEF Levels, Level
<1>2. ASSUME NEW k \in Nat, k \in S PROVE k + 1 \in S
  <2> SUFFICES ASSUME k + 1 \in (0 .. n) \cap (0 .. m) PROVE f[k + 1] = g[k + 1]
    OBVIOUS
  <2>1. k \in (0 .. n) \cap (0 .. m) /\ f[k] = g[k]
    BY <1>2
  <2>2. f[k + 1] = Level(data, f, k + 1) /\ g[k + 1] = Level(data, g, k + 1)
    BY DEF Levels
  <2>3. k + 1 # 0 /\ (k + 1) - 1 = k
    OBVIOUS
  <2> QED BY <2>1, <2>2, <2>3 DEF Level
<1> HIDE DEF S
<1>3. Nat \subseteq S
  BY <1>1, <1>2, ByNumber
<1> QED BY <1>3 DEF S

LEMMA LevelsExist == ASSUME NEW data PROVE \A n \in Nat : \E f : Levels(data, f, n)
<1> DEFINE S == {n \in Nat : \E f : Levels(data, f, n)}
<1>1. 0 \in S
  <2>1. Levels(data, [k \in 0 .. 0 |-> {[path |-> <<>>, value |-> data]}], 0)
    BY DEF Levels, Level
  <2> QED BY <2>1
<1>2. ASSUME NEW n \in Nat, n \in S PROVE n + 1 \in S
  <2>1. PICK f : Levels(data, f, n)
    BY <1>2
  <2> DEFINE g == [k \in 0 .. n + 1 |-> Level(data, f, k)]
  <2>2. ASSUME NEW k \in 0 .. n + 1 PROVE Level(data, f, k) = Level(data, g, k)
    <3>1. CASE k = 0
      BY <3>1 DEF Level
    <3>2. CASE k # 0
      <4>1. k - 1 \in 0 .. n /\ k - 1 \in 0 .. n + 1
        BY <3>2
      <4>2. f[k - 1] = Level(data, f, k - 1)
        BY <2>1, <4>1 DEF Levels
      <4>3. g[k - 1] = f[k - 1]
        BY <4>1, <4>2
      <4> HIDE DEF g
      <4> QED BY <3>2, <4>3 DEF Level
    <3> QED BY <3>1, <3>2
  <2>3. Levels(data, g, n + 1)
    BY <2>2 DEF Levels
  <2> QED BY <2>3
<1> HIDE DEF S
<1>3. Nat \subseteq S
  BY <1>1, <1>2, ByNumber
<1> QED BY <1>3 DEF S

LEMMA NodesAreLevels ==
    ASSUME NEW data
    PROVE  /\ Nodes(data)[0] = {[path |-> <<>>, value |-> data]}
           /\ \A n \in Nat : Nodes(data)[n + 1] = UNION {Held(node) : node \in Nodes(data)[n]}
<1> DEFINE part(n) == CHOOSE f : Levels(data, f, n)
           whole == [n \in Nat |-> part(n)[n]]
<1>1. \A n \in Nat : Levels(data, part(n), n)
  BY LevelsExist
<1> HIDE DEF part
<1>2. ASSUME NEW n \in Nat PROVE whole[n] = Level(data, whole, n)
  <2>1. whole[n] = Level(data, part(n), n)
    BY <1>1 DEF Levels
  <2>2. CASE n = 0
    BY <2>1, <2>2 DEF Level
  <2>3. CASE n # 0
    <3>1. n - 1 \in Nat /\ n - 1 \in (0 .. n) \cap (0 .. n - 1)
      BY <2>3
    <3>2. part(n)[n - 1] = part(n - 1)[n - 1]
      BY <1>1, <3>1, LevelsAgree
    <3>3. part(n)[n - 1] = whole[n - 1]
      BY <3>1, <3>2
    <3> HIDE DEF whole
    <3> QED BY <2>1, <2>3, <3>3 DEF Level
  <2> QED BY <2>2, <2>3
<1>3. whole = [n \in Nat |-> Level(data, whole, n)]
  <2>1. whole = [n \in Nat |-> whole[n]]
    OBVIOUS
  <2> HIDE DEF whole
  <2> QED BY <1>2, <2>1
<1> HIDE DEF whole
<1>4. Nodes(data) = [n \in Nat |-> Level(data, Nodes(data), n)]
  BY <1>3 DEF Nodes, Level
<1>5. \A n \in Nat : Nodes(data)[n] = Level(data, Nodes(data), n)
  BY <1>4
<1>6. ASSUME NEW n \in Nat
      PROVE  Nodes(data)[n + 1] = UNION {Held(node) : node \in Nodes(data)[n]}
  <2>1. n + 1 \in Nat /\ n + 1 # 0 /\ (n + 1) - 1 = n
    OBVIOUS
  <2>2. Nodes(data)[n + 1] = Level(data, Nodes(data), n + 1)
    BY <1>5, <2>1
  <2> QED BY <2>1, <2>2 DEF Level
<1> QED BY <1>5, <1>6 DEF Level

-----------------------------------------------------------------------------
(* What leads to a value, and what masking makes of it.                    *)

PathStep ==
    UNION {{<<Kind(data), d>> : d \in DOMAIN Content(data)} :
             data \in {json \in Json : Holds(json)}}

Node == [path : Seq(PathStep), value : Json]

LEMMA HeldAreNodes ==
    ASSUME NEW node \in Node
    PROVE  /\ Held(node) \subseteq Node
           /\ \A member \in Held(node) : Len(member.path) = Len(node.path) + 1
<1> SUFFICES ASSUME NEW member \in Held(node)
             PROVE  member \in Node /\ Len(member.path) = Len(node.path) + 1
  OBVIOUS
<1>1. Holds(node.value) /\ node.value \in Json /\ node.path \in Seq(PathStep)
  BY DEF Held, Node
<1>2. PICK d \in DOMAIN Content(node.value) :
        member = [path |-> Append(node.path, <<Kind(node.value), d>>),
                  value |-> Content(node.value)[d]]
  BY DEF Held
<1>3. <<Kind(node.value), d>> \in PathStep
  BY <1>1 DEF PathStep
<1>4. Content(node.value)[d] \in Json
  BY <1>1, JsonAssumption
<1>5. /\ Append(node.path, <<Kind(node.value), d>>) \in Seq(PathStep)
      /\ Len(Append(node.path, <<Kind(node.value), d>>)) = Len(node.path) + 1
  BY <1>1, <1>3
<1> QED BY <1>2, <1>4, <1>5 DEF Node

LEMMA NodesAreNodes ==
    ASSUME NEW json \in Json
    PROVE  \A n \in Nat : \A node \in Nodes(json)[n] : node \in Node /\ Len(node.path) = n
<1> DEFINE S == {n \in Nat : \A node \in Nodes(json)[n] : node \in Node /\ Len(node.path) = n}
<1>1. 0 \in S
  <2>1. [path |-> <<>>, value |-> json] \in Node
    BY DEF Node
  <2> QED BY <2>1, NodesAreLevels
<1>2. ASSUME NEW n \in Nat, n \in S PROVE n + 1 \in S
  <2>1. ASSUME NEW node \in Nodes(json)[n + 1] PROVE node \in Node /\ Len(node.path) = n + 1
    <3>1. PICK above \in Nodes(json)[n] : node \in Held(above)
      BY <2>1, NodesAreLevels
    <3>2. above \in Node /\ Len(above.path) = n
      BY <1>2, <3>1
    <3> QED BY <3>1, <3>2, HeldAreNodes
  <2> QED BY <2>1
<1> HIDE DEF S
<1>3. Nat \subseteq S
  BY <1>1, <1>2, ByNumber
<1> QED BY <1>3 DEF S

LEMMA PathGrows ==
    ASSUME NEW path \in Seq(PathStep), NEW step \in PathStep
    PROVE  /\ Clear(Append(path, step)) <=> Clear(path) /\ step \notin SensitiveStep
           /\ Cut(Append(path, step)) <=> Clear(path) /\ step \in SensitiveStep
           /\ ~(Clear(path) /\ Cut(path))
<1> DEFINE longer == Append(path, step)
           n == Len(path)
<1>1. /\ n \in Nat /\ Len(longer) = n + 1
      /\ longer[n + 1] = step
      /\ \A i \in 1 .. n : longer[i] = path[i]
      /\ longer # <<>>
      /\ path # <<>> => n # 0
  OBVIOUS
<1> HIDE DEF longer
<1>2. Clear(longer) <=> Clear(path) /\ step \notin SensitiveStep
  BY <1>1 DEF Clear
<1>3. Cut(longer) <=> Clear(path) /\ step \in SensitiveStep
  BY <1>1 DEF Clear, Cut
<1>4. ~(Clear(path) /\ Cut(path))
  BY <1>1 DEF Clear, Cut
<1> QED BY <1>2, <1>3, <1>4 DEF longer

LEMMA RedactKeepsShape ==
    ASSUME NEW data \in Json
    PROVE  /\ Kind(_deep_redact[data]) = Kind(data)
           /\ Holds(_deep_redact[data]) <=> Holds(data)
           /\ ~Holds(data) => _deep_redact[data] = data
           /\ Holds(data) =>
                /\ DOMAIN Content(_deep_redact[data]) = DOMAIN Content(data)
                /\ \A d \in DOMAIN Content(data) :
                     Content(_deep_redact[data])[d] =
                       IF <<Kind(data), d>> \in SensitiveStep THEN _MASK
                       ELSE _deep_redact[Content(data)[d]]
<1>1. _deep_redact[data] = Redact(_deep_redact, data)
  BY RedactionIsDefined
<1>2. CASE Kind(data) = "dict"
  BY <1>1, <1>2 DEF Redact, Holds, Dict, Kind, Content, SensitiveStep
<1>3. CASE Kind(data) = "list"
  BY <1>1, <1>3 DEF Redact, Holds, List, Kind, Content, SensitiveStep
<1>4. CASE Kind(data) \notin {"dict", "list"}
  BY <1>1, <1>4 DEF Redact, Holds
<1> QED BY <1>2, <1>3, <1>4

(* A node of the masked value, for a node that masking leaves.             *)
Left(node) == Clear(node.path) \/ Cut(node.path)

Redacted(node) ==
    [path |-> node.path,
     value |-> IF Cut(node.path) THEN _MASK ELSE _deep_redact[node.value]]

LEMMA MaskHoldsNothing == ~Holds(_MASK)
  BY DEF Holds, _MASK, Leaf, Kind

LEMMA RedactedMember ==
    ASSUME NEW node \in Node, Clear(node.path), Holds(node.value),
           NEW d \in DOMAIN Content(node.value),
           NEW member,
           member = [path |-> Append(node.path, <<Kind(node.value), d>>),
                     value |-> Content(node.value)[d]]
    PROVE  /\ Left(member)
           /\ Redacted(member) =
                [path |-> Append(node.path, <<Kind(_deep_redact[node.value]), d>>),
                 value |-> Content(_deep_redact[node.value])[d]]
<1> DEFINE step == <<Kind(node.value), d>>
<1>1. node.path \in Seq(PathStep) /\ node.value \in Json /\ step \in PathStep
  BY DEF Node, PathStep
<1> HIDE DEF step
<1>2. /\ Clear(Append(node.path, step)) <=> step \notin SensitiveStep
      /\ Cut(Append(node.path, step)) <=> step \in SensitiveStep
  BY <1>1, PathGrows
<1>3. member.path = Append(node.path, step) /\ member.value = Content(node.value)[d]
  BY DEF step
<1>4. Content(_deep_redact[node.value])[d] =
        IF step \in SensitiveStep THEN _MASK ELSE _deep_redact[Content(node.value)[d]]
  BY <1>1, RedactKeepsShape DEF step
<1>5. Append(node.path, <<Kind(_deep_redact[node.value]), d>>) = Append(node.path, step)
  BY <1>1, RedactKeepsShape DEF step
<1> QED BY <1>2, <1>3, <1>4, <1>5 DEF Left, Redacted

(* Masking, level by level.                                                *)
LEMMA RedactedNodes ==
    ASSUME NEW json \in Json
    PROVE  \A n \in Nat :
             Nodes(_deep_redact[json])[n] =
               {Redacted(node) : node \in {m \in Nodes(json)[n] : Left(m)}}
<1> DEFINE left(n) == {m \in Nodes(json)[n] : Left(m)}
           S == {n \in Nat : Nodes(_deep_redact[json])[n] = {Redacted(node) : node \in left(n)}}
<1>1. 0 \in S
  <2> DEFINE root == [path |-> <<>>, value |-> json]
  <2>1. Clear(root.path) /\ ~Cut(root.path)
    BY DEF Clear, Cut
  <2>2. Redacted(root) = [path |-> <<>>, value |-> _deep_redact[json]]
    BY <2>1 DEF Redacted
  <2> HIDE DEF root
  <2>3. left(0) = {root}
    BY <2>1, NodesAreLevels DEF Left, root
  <2> QED BY <2>2, <2>3, NodesAreLevels
<1>2. ASSUME NEW n \in Nat, n \in S PROVE n + 1 \in S
  <2>1. ASSUME NEW x \in Nodes(_deep_redact[json])[n + 1]
        PROVE  \E member \in left(n + 1) : x = Redacted(member)
    <3>1. PICK node \in left(n) : x \in Held(Redacted(node))
      BY <1>2, NodesAreLevels
    <3>2. node \in Node
      BY <3>1, NodesAreNodes
    <3>3. node.path \in Seq(PathStep) /\ node.value \in Json
      BY <3>2 DEF Node
    <3>4. Holds(Redacted(node).value)
      BY <3>1 DEF Held
    <3>5. ~Cut(node.path) /\ Redacted(node) = [path |-> node.path, value |-> _deep_redact[node.value]]
      BY <3>4, MaskHoldsNothing DEF Redacted
    <3>6. Clear(node.path) /\ Holds(node.value)
      BY <3>1, <3>3, <3>4, <3>5, RedactKeepsShape DEF Left
    <3>7. PICK d \in DOMAIN Content(node.value) :
            x = [path |-> Append(node.path, <<Kind(_deep_redact[node.value]), d>>),
                 value |-> Content(_deep_redact[node.value])[d]]
      BY <3>1, <3>3, <3>5, <3>6, RedactKeepsShape DEF Held
    <3> DEFINE member == [path |-> Append(node.path, <<Kind(node.value), d>>),
                          value |-> Content(node.value)[d]]
    <3>8. member \in Held(node)
      BY <3>6 DEF Held
    <3>9. member \in Nodes(json)[n + 1]
      BY <3>1, <3>8, NodesAreLevels
    <3>10. Left(member) /\ Redacted(member) = x
      BY <3>2, <3>6, <3>7, RedactedMember
    <3> QED BY <3>9, <3>10
  <2>2. ASSUME NEW member \in left(n + 1)
        PROVE  Redacted(member) \in Nodes(_deep_redact[json])[n + 1]
    <3>1. PICK node \in Nodes(json)[n] : member \in Held(node)
      BY <2>2, NodesAreLevels
    <3>2. node \in Node
      BY <3>1, NodesAreNodes
    <3>3. node.path \in Seq(PathStep) /\ node.value \in Json /\ Holds(node.value)
      BY <3>1, <3>2 DEF Node, Held
    <3>4. PICK d \in DOMAIN Content(node.value) :
            member = [path |-> Append(node.path, <<Kind(node.value), d>>),
                      value |-> Content(node.value)[d]]
      BY <3>1, <3>3 DEF Held
    <3>5. <<Kind(node.value), d>> \in PathStep
      BY <3>3 DEF PathStep
    <3>6. member.path = Append(node.path, <<Kind(node.value), d>>)
      BY <3>4
    <3>7. Clear(node.path)
      <4>1. Clear(member.path) \/ Cut(member.path)
        BY <2>2 DEF Left
      <4> QED BY <3>3, <3>5, <3>6, <4>1, PathGrows
    <3>8. ~Cut(node.path)
      BY <3>3, <3>5, <3>7, PathGrows
    <3>9. Redacted(node) = [path |-> node.path, value |-> _deep_redact[node.value]]
      BY <3>8 DEF Redacted
    <3>10. Redacted(node) \in Nodes(_deep_redact[json])[n]
      BY <1>2, <3>1, <3>7 DEF Left
    <3>11. Redacted(member) \in Held(Redacted(node))
      <4> DEFINE value == _deep_redact[node.value]
      <4>1. Holds(value) /\ d \in DOMAIN Content(value)
        BY <3>3, RedactKeepsShape
      <4>2. Redacted(member) = [path |-> Append(node.path, <<Kind(value), d>>),
                                value |-> Content(value)[d]]
        BY <3>2, <3>3, <3>4, <3>7, RedactedMember
      <4> HIDE DEF value
      <4>3. Redacted(node).path = node.path /\ Redacted(node).value = value
        BY <3>9 DEF value
      <4> QED BY <4>1, <4>2, <4>3 DEF Held
    <3> QED BY <3>10, <3>11, NodesAreLevels
  <2> QED BY <2>1, <2>2
<1> HIDE DEF S
<1>3. Nat \subseteq S
  BY <1>1, <1>2, ByNumber
<1> QED BY <1>3 DEF S

(***************************************************************************)
(* Whatever JSON a provider answers with, however deep and of whatever     *)
(* shape, masking replaces exactly what is under a sensitive key, once, at *)
(* the first such key on the way, and keeps the keys, the lengths and the  *)
(* values of everything else (redaction.py:20-25).                         *)
(***************************************************************************)
THEOREM MaskingIsExact ==
    \A json \in Json, n \in Nat : SeenAt(_deep_redact[json], n) = MaskedAt(json, n)
<1> SUFFICES ASSUME NEW json \in Json, NEW n \in Nat
             PROVE  SeenAt(_deep_redact[json], n) = MaskedAt(json, n)
  OBVIOUS
<1> DEFINE left == {m \in Nodes(json)[n] : Left(m)}
           seen(node) == Seen(node.path, IF Cut(node.path) THEN _MASK ELSE node.value)
<1>1. ASSUME NEW node \in left
      PROVE  Seen(Redacted(node).path, Redacted(node).value) = seen(node)
  <2>1. node.value \in Json
    BY NodesAreNodes DEF Node
  <2>2. CASE Cut(node.path)
    BY <2>2 DEF Redacted
  <2>3. CASE ~Cut(node.path)
    <3>1. Redacted(node).path = node.path /\ Redacted(node).value = _deep_redact[node.value]
      BY <2>3 DEF Redacted
    <3>2. Seen(node.path, _deep_redact[node.value]) = Seen(node.path, node.value)
      BY <2>1, RedactKeepsShape DEF Seen
    <3> QED BY <2>3, <3>1, <3>2
  <2> QED BY <2>2, <2>3
<1>2. SeenAt(_deep_redact[json], n) =
        {Seen(x.path, x.value) : x \in {Redacted(node) : node \in left}}
  BY RedactedNodes DEF SeenAt
<1>3. MaskedAt(json, n) = {seen(node) : node \in left}
  BY DEF MaskedAt, Left
<1> HIDE DEF left, seen
<1>4. {Seen(x.path, x.value) : x \in {Redacted(node) : node \in left}} =
        {Seen(Redacted(node).path, Redacted(node).value) : node \in left}
  OBVIOUS
<1> QED BY <1>1, <1>2, <1>3, <1>4

LEMMA JsonIsMasked ==
    ASSUME NEW json \in Json
    PROVE  redact_integration_payload(json) = _deep_redact[json]
  BY JsonAssumption DEF redact_integration_payload

LEMMA UnparsableLeavesNothing == Nodes(redact_integration_payload(Unparsable))[1] = {}
<1> DEFINE data == redact_integration_payload(Unparsable)
<1>1. Kind(data) = "dict" /\ DOMAIN Content(data) = {}
  BY DEF redact_integration_payload, Unparsable, Kind, Content, Dict
<1> HIDE DEF data
<1>2. Held([path |-> <<>>, value |-> data]) = {}
  BY <1>1 DEF Held
<1>3. Nodes(data)[0 + 1] = UNION {Held(node) : node \in Nodes(data)[0]}
      /\ Nodes(data)[0] = {[path |-> <<>>, value |-> data]}
  BY NodesAreLevels
<1>4. Nodes(data)[1] = {}
  BY <1>2, <1>3
<1> QED BY <1>4 DEF data

LEMMA EveryCheckIsMasked == MaskedExactly = IntegrationName
<1>1. ASSUME NEW service \in IntegrationName, NEW json \in Reply(service),
             NEW n \in 0 .. Height[json] + 1
      PROVE  SeenAt(redact_integration_payload(json), n) = MaskedAt(json, n)
  <2>1. json \in Json /\ n \in Nat
    BY DEF Reply
  <2> QED BY <2>1, MaskingIsExact, JsonIsMasked
<1> QED BY <1>1, UnparsableLeavesNothing DEF MaskedExactly

-----------------------------------------------------------------------------
(* The payloads of the nine checks.                                        *)

Plain(data) ==
    \/ \E field \in NotSensitive : data = AnswerTo(field)
    \/ \E name : data = Fact(name)
    \/ \E s : data = List(s) /\ \A i \in DOMAIN s : \E name : s[i] = Fact(name)

LEMMA PlainLeaves ==
    /\ \A field \in NotSensitive : Plain(AnswerTo(field))
    /\ \A name : Plain(Fact(name))
  BY DEF Plain

LEMMA HandlersMembers ==
    ASSUME NEW service \in IntegrationName, NEW payload \in RawResponse(service)
    PROVE  /\ Kind(payload) = "dict"
           /\ \A d \in DOMAIN Content(payload) :
                d \notin sensitive_log_keys => Plain(Content(payload)[d])
<1>0. ASSUME NEW members, payload = Dict(members)
      PROVE  Kind(payload) = "dict" /\ Content(payload) = members
  BY <1>0 DEF Dict, Kind, Content
<1>1. CASE service = "identity"
  <2> DEFINE members == [verification_status |-> Fact("status")]
  <2>1. payload = Dict(members)
    BY <1>1 DEF RawResponse
  <2>2. \A d \in DOMAIN members : Plain(members[d])
    BY PlainLeaves
  <2> HIDE DEF members
  <2> QED BY <1>0, <2>1, <2>2
<1>2. CASE service = "registry"
  <2> DEFINE members == [registry_status |-> Fact("status")]
  <2>1. payload = Dict(members)
    BY <1>2 DEF RawResponse
  <2>2. \A d \in DOMAIN members : Plain(members[d])
    BY PlainLeaves
  <2> HIDE DEF members
  <2> QED BY <1>0, <2>1, <2>2
<1>3. CASE service = "bank_account"
  <2> DEFINE members == [iban_status |-> Fact("status")]
  <2>1. payload = Dict(members)
    BY <1>3 DEF RawResponse
  <2>2. \A d \in DOMAIN members : Plain(members[d])
    BY PlainLeaves
  <2> HIDE DEF members
  <2> QED BY <1>0, <2>1, <2>2
<1>4. CASE service = "address_lookup"
  <2> DEFINE members == [address_confidence |-> Fact("0.95"), status |-> Fact("FETCHED")]
  <2>1. payload = Dict(members)
    BY <1>4 DEF RawResponse
  <2>2. \A d \in DOMAIN members : Plain(members[d])
    BY PlainLeaves
  <2> HIDE DEF members
  <2> QED BY <1>0, <2>1, <2>2
<1>5. CASE service = "representative"
  <2> DEFINE fact == Fact("confirmed or not")
             members == [authority |-> fact]
  <2>1. payload = Dict(members)
    BY <1>5 DEF RawResponse
  <2>2. Plain(fact)
    BY PlainLeaves
  <2> HIDE DEF fact
  <2>3. \A d \in DOMAIN members : Plain(members[d])
    BY <2>2
  <2> HIDE DEF members
  <2> QED BY <1>0, <2>1, <2>3
<1>6. CASE service = "sanctions"
  <2>1. PICK country :
          payload = Dict([sanctions_hit |-> Fact("hit"), pep_hit |-> AnswerTo("is_pep"),
                          matched_country |-> country])
    BY <1>6 DEF RawResponse
  <2> DEFINE members == [sanctions_hit |-> Fact("hit"), pep_hit |-> AnswerTo("is_pep"),
                         matched_country |-> country]
  <2>2. "matched_country" \in sensitive_log_keys /\ "is_pep" \in NotSensitive
    BY DEF sensitive_log_keys, _PROVIDER_SIGNAL_KEYS, NotSensitive
  <2>3. \A d \in DOMAIN members : d \notin sensitive_log_keys => Plain(members[d])
    BY <2>2, PlainLeaves
  <2>4. payload = Dict(members)
    BY <2>1
  <2> HIDE DEF members
  <2> QED BY <1>0, <2>3, <2>4
<1>7. CASE service = "ubo_kyc"
  <2> DEFINE members ==
        [ubo_count |-> AnswerTo("ubo_count"),
         largest_ownership_percent |-> AnswerTo("largest_ownership_percent")]
  <2>1. payload = Dict(members)
    BY <1>7 DEF RawResponse
  <2>2. "ubo_count" \in NotSensitive /\ "largest_ownership_percent" \in NotSensitive
    BY DEF NotSensitive
  <2>3. \A d \in DOMAIN members : Plain(members[d])
    BY <2>2, PlainLeaves
  <2> HIDE DEF members
  <2> QED BY <1>0, <2>1, <2>3
<1>8. CASE service = "business_credit"
  <2> DEFINE members ==
        [annual_turnover |-> AnswerTo("annual_turnover"),
         expected_monthly_volume |-> AnswerTo("expected_monthly_volume"),
         sector |-> AnswerTo("sector")]
  <2>1. payload = Dict(members)
    BY <1>8 DEF RawResponse
  <2>2. /\ "annual_turnover" \in sensitive_log_keys
        /\ "expected_monthly_volume" \in sensitive_log_keys
        /\ "sector" \in NotSensitive
    BY DEF sensitive_log_keys, sensitive_field_keys, NotSensitive, FieldId, NUMBER_FIELDS
  <2>3. \A d \in DOMAIN members : d \notin sensitive_log_keys => Plain(members[d])
    BY <2>2, PlainLeaves
  <2> HIDE DEF members
  <2> QED BY <1>0, <2>1, <2>3
<1>9. CASE service = "credit_bureau"
  <2>1. PICK flags \in {<<>>, <<Fact("NEGATIVE_SURPLUS")>>, <<Fact("HIGH_LEVERAGE_RISK")>>} :
          payload = Dict([score |-> Fact("score"),
                          disposable_income |-> AnswerTo("monthly_income"),
                          debt_to_income_ratio |-> Fact("ratio"),
                          debt_flags |-> List(flags)])
    BY <1>9 DEF RawResponse
  <2> DEFINE members == [score |-> Fact("score"),
                         disposable_income |-> AnswerTo("monthly_income"),
                         debt_to_income_ratio |-> Fact("ratio"),
                         debt_flags |-> List(flags)]
  <2>2. "disposable_income" \in sensitive_log_keys
    BY DEF sensitive_log_keys, _PROVIDER_SIGNAL_KEYS
  <2>3. \A i \in DOMAIN flags : \E name : flags[i] = Fact(name)
    BY <2>1
  <2>4. Plain(List(flags))
    BY <2>3 DEF Plain
  <2>5. \A d \in DOMAIN members : d \notin sensitive_log_keys => Plain(members[d])
    BY <2>2, <2>4, PlainLeaves
  <2>6. payload = Dict(members)
    BY <2>1
  <2> HIDE DEF members
  <2> QED BY <1>0, <2>5, <2>6
<1> QED BY <1>1, <1>2, <1>3, <1>4, <1>5, <1>6, <1>7, <1>8, <1>9 DEF IntegrationName

LEMMA PayloadIsPlain ==
    ASSUME NEW service \in IntegrationName, NEW payload \in RawResponse(service)
    PROVE  \A n \in Nat : \A node \in Nodes(payload)[n + 1] :
             Clear(node.path) => Plain(node.value)
<1> DEFINE S == {n \in Nat : \A node \in Nodes(payload)[n + 1] :
                               Clear(node.path) => Plain(node.value)}
<1>1. payload \in Json
  BY JsonAssumption
<1>2. 0 \in S
  <2>1. ASSUME NEW node \in Nodes(payload)[1], Clear(node.path) PROVE Plain(node.value)
    <3> DEFINE root == [path |-> <<>>, value |-> payload]
    <3>1. Nodes(payload)[0 + 1] = UNION {Held(above) : above \in Nodes(payload)[0]}
          /\ Nodes(payload)[0] = {root}
      BY NodesAreLevels
    <3>2. node \in Held(root)
      BY <2>1, <3>1
    <3>3. PICK d \in DOMAIN Content(payload) :
            node = [path |-> Append(<<>>, <<Kind(payload), d>>), value |-> Content(payload)[d]]
      BY <3>2 DEF Held
    <3>4. Kind(payload) = "dict" /\ Holds(payload)
      BY HandlersMembers DEF Holds
    <3>5. <<Kind(payload), d>> \in PathStep
      BY <1>1, <3>4 DEF PathStep
    <3>6. node.path = Append(<<>>, <<Kind(payload), d>>) /\ <<>> \in Seq(PathStep)
      BY <3>3
    <3>7. <<"dict", d>> \notin SensitiveStep
      BY <2>1, <3>4, <3>5, <3>6, PathGrows
    <3> QED BY <3>3, <3>7, HandlersMembers DEF SensitiveStep
  <2> QED BY <2>1
<1>3. ASSUME NEW n \in Nat, n \in S PROVE n + 1 \in S
  <2>1. ASSUME NEW node \in Nodes(payload)[n + 1 + 1], Clear(node.path)
        PROVE  Plain(node.value)
    <3>1. PICK above \in Nodes(payload)[n + 1] : node \in Held(above)
      BY <2>1, NodesAreLevels
    <3>2. above.path \in Seq(PathStep) /\ above.value \in Json /\ Holds(above.value)
      BY <1>1, <3>1, NodesAreNodes DEF Node, Held
    <3>3. PICK d \in DOMAIN Content(above.value) :
            node = [path |-> Append(above.path, <<Kind(above.value), d>>),
                    value |-> Content(above.value)[d]]
      BY <3>1, <3>2 DEF Held
    <3>4. <<Kind(above.value), d>> \in PathStep
      BY <3>2 DEF PathStep
    <3>5. node.path = Append(above.path, <<Kind(above.value), d>>)
      BY <3>3
    <3>6. Clear(above.path)
      BY <2>1, <3>2, <3>4, <3>5, PathGrows
    <3>7. Plain(above.value)
      BY <1>3, <3>1, <3>6
    <3>8. PICK s : above.value = List(s) /\ \A i \in DOMAIN s : \E name : s[i] = Fact(name)
      BY <3>2, <3>7 DEF Plain, AnswerTo, Fact, Leaf, Holds, Kind
    <3>9. \E name : node.value = Fact(name)
      BY <3>3, <3>8 DEF List, Content
    <3> QED BY <3>9 DEF Plain
  <2> QED BY <2>1
<1> HIDE DEF S
<1>4. Nat \subseteq S
  BY <1>2, <1>3, ByNumber
<1> QED BY <1>4 DEF S

LEMMA PayloadAnswers ==
    ASSUME NEW service \in IntegrationName, NEW payload \in RawResponse(service),
           NEW n \in Nat, NEW node \in Nodes(payload)[n], Clear(node.path),
           NEW field, node.value = AnswerTo(field)
    PROVE  field \in NotSensitive
<1>1. n # 0
  <2>1. Kind(payload) = "dict"
    BY HandlersMembers
  <2>2. n = 0 => node.value = payload
    BY NodesAreLevels
  <2> QED BY <2>1, <2>2 DEF AnswerTo, Leaf, Kind
<1>2. n - 1 \in Nat /\ n = (n - 1) + 1
  BY <1>1
<1>3. Plain(node.value)
  BY <1>2, PayloadIsPlain
<1> QED BY <1>3 DEF Plain, AnswerTo, Fact, List, Leaf

LEMMA EndIsClear ==
    ASSUME NEW path \in Seq(PathStep), NEW end, EndsWith(path, end), Clear(path)
    PROVE  Clear(end)
<1>1. PICK i \in 0 .. Len(path) : end = SubSeq(path, i + 1, Len(path))
  BY DEF EndsWith
<1>2. /\ Len(end) = Len(path) - i
      /\ \A j \in 1 .. Len(end) : end[j] = path[j + i] /\ j + i \in 1 .. Len(path)
  BY <1>1
<1> QED BY <1>2 DEF Clear

LEMMA FieldsInClear ==
    ASSUME NEW service \in IntegrationName, NEW field \in AnswersInClear[service]
    PROVE  field \in NotSensitive
<1>1. PICK json \in Reply(service) : field \in ClearIn(json)
  BY DEF AnswersInClear
<1>2. json \in Json /\ field \in FieldId
  BY <1>1 DEF Reply, ClearIn
<1>3. PICK payload \in RawResponse(service) : Carries(json, payload)
  BY <1>1 DEF Reply
<1>4. PICK n \in 0 .. Height[json] :
        \E x \in Nodes(redact_integration_payload(json))[n] : x.value = AnswerTo(field)
  BY <1>1 DEF ClearIn
<1>5. n \in Nat
  BY <1>2, <1>4, JsonAssumption
<1>6. PICK node \in Nodes(json)[n] :
        Left(node) /\ Redacted(node).value = AnswerTo(field)
  BY <1>2, <1>4, <1>5, JsonIsMasked, RedactedNodes
<1>7. node.path \in Seq(PathStep) /\ node.value \in Json /\ Len(node.path) = n
  BY <1>2, <1>5, NodesAreNodes DEF Node
<1>8. /\ _MASK # AnswerTo(field)
      /\ Kind(AnswerTo(field)) = "leaf"
  BY DEF _MASK, AnswerTo, Leaf, Kind
<1>9. ~Cut(node.path) /\ _deep_redact[node.value] = AnswerTo(field)
  BY <1>6, <1>8 DEF Redacted
<1>10. Clear(node.path)
  BY <1>6, <1>9 DEF Left
<1>11. node.value = AnswerTo(field)
  BY <1>7, <1>8, <1>9, RedactKeepsShape DEF Holds
<1>12. CASE \E i \in 1 .. n : node.path[i] = <<"dict", field>>
  <2>1. <<"dict", field>> \notin SensitiveStep
    BY <1>7, <1>10, <1>12 DEF Clear
  <2> QED BY <2>1, <1>2 DEF SensitiveStep, sensitive_log_keys, sensitive_field_keys
<1>13. CASE \E m \in 0 .. n : \E part \in Nodes(payload)[m] :
              part.value = node.value /\ EndsWith(node.path, part.path)
  <2>1. PICK m \in 0 .. n : \E part \in Nodes(payload)[m] :
           part.value = node.value /\ EndsWith(node.path, part.path)
    BY <1>13
  <2>2. PICK part \in Nodes(payload)[m] :
           part.value = node.value /\ EndsWith(node.path, part.path)
    BY <2>1
  <2>3. Clear(part.path) /\ m \in Nat
    BY <1>5, <1>7, <1>10, <2>2, EndIsClear
  <2> QED BY <1>11, <2>2, <2>3, PayloadAnswers
<1> QED BY <1>2, <1>3, <1>4, <1>6, <1>11, <1>12, <1>13 DEF Carries

-----------------------------------------------------------------------------
(* The rows of a journey.                                                  *)

RowsAreOfChecks ==
    /\ logs = [a \in App |-> logs[a]]
    /\ \A a \in App : \A row \in logs[a] : row.service \in IntegrationName

LEMMA SubmitRows ==
    ASSUME Inv, RowsAreOfChecks, NEW a \in App, NEW k \in FlowKey,
           NEW s \in 1 .. Len(flow_registry[k]), NEW form, Submit(a, k, s, form)
    PROVE  RowsAreOfChecks'
<1> DEFINE rows == Ledger(k)!Rows(s, form, version[a], Outcomes(k, s, form))
<1>1. logs' = [logs EXCEPT ![a] = @ \cup rows]
  BY DEF Submit, Ledger!Accept
<1>2. \A row \in rows : row.service \in IntegrationName
  <2>1. flow_registry[k][s].required_integrations \in Seq(IntegrationName)
    BY FlowsAreScreened DEF WellFormed
  <2>2. ChecksOf(k)[s] = flow_registry[k][s].required_integrations
    BY DEF ChecksOf
  <2>3. \A j \in 1 .. Len(ChecksOf(k)[s]) : ChecksOf(k)[s][j] \in IntegrationName
    BY <2>1, <2>2
  <2>4. DOMAIN Outcomes(k, s, form) = 1 .. Len(ChecksOf(k)[s])
    BY DEF Outcomes
  <2> QED BY <2>3, <2>4 DEF Ledger!Rows
<1> HIDE DEF rows
<1> QED BY <1>1, <1>2 DEF RowsAreOfChecks

LEMMA Rows == Spec => []RowsAreOfChecks
<1>1. Init => RowsAreOfChecks
  BY DEF Init, Ledger!Init, RowsAreOfChecks
<1>2. Inv /\ RowsAreOfChecks /\ [Next]_vars => RowsAreOfChecks'
  <2> SUFFICES ASSUME Inv, RowsAreOfChecks, [Next]_vars PROVE RowsAreOfChecks'
    OBVIOUS
  <2>1. ASSUME NEW a \in App, StartApplication(a) PROVE RowsAreOfChecks'
    BY <2>1 DEF StartApplication, Ledger!StartApplication, RowsAreOfChecks
  <2>2. ASSUME NEW a \in App, NEW k \in {key}, NEW s \in 1 .. Len(flow_registry[k]),
               NEW form \in Payloads[k][s], Submit(a, k, s, form)
        PROVE  RowsAreOfChecks'
    <3>1. k \in FlowKey
      BY <2>2 DEF Inv, Typed
    <3> QED BY <2>2, <3>1, SubmitRows
  <2>3. CASE UNCHANGED vars
    BY <2>3 DEF vars, RowsAreOfChecks
  <2> QED BY <2>1, <2>2, <2>3 DEF Next
<1> QED BY <1>1, <1>2, Invariance, PTL DEF Spec

(***************************************************************************)
(* The payload of every row a journey writes is masked exactly             *)
(* (redaction.py:20-25).                                                   *)
(***************************************************************************)
THEOREM RowsAreMaskedExactly == Spec => []RedactionIsExact
<1>1. RowsAreOfChecks => RedactionIsExact
  BY EveryCheckIsMasked DEF RowsAreOfChecks, RedactionIsExact
<1> QED BY <1>1, Rows, PTL

(***************************************************************************)
(* No row shows an answer to a sensitive field in clear (README.md:93,     *)
(* "PII out of the audit trail").                                          *)
(***************************************************************************)
THEOREM NothingSensitiveInClear == Spec => []NoSensitiveAnswerInClear
<1>1. RowsAreOfChecks => NoSensitiveAnswerInClear
  BY FieldsInClear DEF RowsAreOfChecks, NoSensitiveAnswerInClear
<1> QED BY <1>1, Rows, PTL

=============================================================================
