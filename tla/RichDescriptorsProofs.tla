------------------------ MODULE RichDescriptorsProofs ------------------------
(***************************************************************************)
(* Proofs about RichDescriptors: for any function types, whatever their     *)
(* types' layouts and graphs are, each position passed by value has one     *)
(* entry, with its own graph under its own tag; each graph's block is freed *)
(* once; and the texts of a description go with it.                        *)
(***************************************************************************)
EXTENDS TypeGraphs, FiniteSetTheorems, FunctionTheorems, WellFoundedInduction, TLAPS

Attachable == UNION {{GraphOf(LayoutOf(f[p])) : p \in DOMAIN f} : f \in Functions}
Entries == [tag : Nat, graph : Attachable, owner : Nat]

TypeOK ==
  /\ stage \in {"idle", "tags", "parse", "attach", "done", "failed", "collected"}
  /\ fn \in Functions
  /\ binding \in Bindings
  /\ next \in Nat /\ 1 <= next /\ next <= Len(fn) + 1
  /\ desc \in {"none", "live", "freed"}
  /\ attached \in Seq(Entries)

(* What holds at each point of the call. *)
StageFits ==
  /\ stage \in {"idle", "tags", "parse"} => desc = "none" /\ next = 1
  /\ stage \in {"attach", "done"} <=> desc = "live"
  /\ desc # "live" => attached = <<>>
  /\ stage \in {"parse", "attach", "done"} => tags = [p \in Positions |-> TagAt(p)]
  /\ stage = "done" => next = Len(fn) + 1
  /\ stage \in {"idle", "tags", "done", "collected"} => buffers = {}
  /\ stage = "failed" /\ binding = "lua" => buffers = {}

(* An entry is of a position that was passed, with what belongs to it. *)
EntriesFit ==
  \A i \in 1 .. Len(attached) :
    /\ attached[i].owner \in 1 .. next - 1
    /\ ByValue(fn[attached[i].owner])
    /\ attached[i].tag = TagAt(attached[i].owner)
    /\ attached[i].graph = GraphOf(LayoutOf(fn[attached[i].owner]))

(* Entries are in the order of their positions. *)
EntriesInOrder ==
  \A i, j \in 1 .. Len(attached) : i < j => attached[i].owner < attached[j].owner

(* No position was left out. *)
NoneIsSkipped ==
  stage \in {"attach", "done"} =>
    \A p \in 1 .. next - 1 :
      ByValue(fn[p]) => \E i \in 1 .. Len(attached) : attached[i].owner = p

IInv ==
  /\ TypeOK /\ StageFits /\ EntriesFit /\ EntriesInOrder /\ NoneIsSkipped
  /\ blocks = Owned(attached)

-----------------------------------------------------------------------------
(* Sequences and counts *)

(* A function type is a sequence of at least one type. *)
LEMMA FunctionIsSequence ==
  ASSUME fn \in Functions
  PROVE  /\ Len(fn) \in Nat /\ Len(fn) >= 1 /\ Positions = 1 .. Len(fn)
<1>1. fn # <<>> /\ fn \in Seq({fn[p] : p \in DOMAIN fn})
  BY FunctionsAssumption
<1>2. Len(fn) \in Nat /\ DOMAIN fn = 1 .. Len(fn) /\ Len(fn) # 0
  BY <1>1
<1> QED BY <1>2 DEF Positions

(* The counter gives a later position a larger tag. *)
LEMMA TagsGrow ==
  ASSUME fn \in Functions, NEW q \in 1 .. Len(fn), ByValue(fn[q])
  PROVE  /\ TagAt(q) \in Nat \ {0}
         /\ \A p \in 1 .. q - 1 : ByValue(fn[p]) => TagAt(p) < TagAt(q)
<1> DEFINE Before(p) == {r \in 1 .. p : ByValue(fn[r])}
<1>0. Len(fn) \in Nat
  BY FunctionIsSequence
<1>1. \A p \in 1 .. q : IsFiniteSet(Before(p)) /\ Cardinality(Before(p)) \in Nat
  <2> TAKE p \in 1 .. q
  <2>1. IsFiniteSet(1 .. p)
    BY <1>0, FS_Interval
  <2>2. IsFiniteSet(Before(p))
    BY <2>1, FS_Subset
  <2> QED BY <2>2, FS_CardinalityType
<1>2. q \in Before(q) /\ q \in 1 .. q
  BY <1>0
<1>3. Cardinality(Before(q)) # 0
  BY <1>1, <1>2, FS_EmptySet
<1>4. ASSUME NEW p \in 1 .. q - 1
      PROVE  Cardinality(Before(p)) < Cardinality(Before(q))
  <2>1. Before(p) \in SUBSET Before(q) /\ q \notin Before(p) /\ p \in 1 .. q
    BY <1>0
  <2>2. /\ Cardinality(Before(p)) <= Cardinality(Before(q))
        /\ Cardinality(Before(q)) = Cardinality(Before(p)) => Before(q) = Before(p)
    BY <1>1, <1>2, <2>1, FS_Subset
  <2>3. Cardinality(Before(q)) # Cardinality(Before(p))
    BY <1>2, <2>1, <2>2
  <2>4. Cardinality(Before(p)) \in Nat /\ Cardinality(Before(q)) \in Nat
    BY <1>1, <1>2, <2>1
  <2> QED BY <2>2, <2>3, <2>4
<1>5. TagAt(q) = Cardinality(Before(q))
  BY DEF TagAt
<1>6. \A p \in 1 .. q - 1 : ByValue(fn[p]) => TagAt(p) = Cardinality(Before(p))
  BY DEF TagAt
<1> QED BY <1>1, <1>2, <1>3, <1>4, <1>5, <1>6

(* Entries in the order of their owners have different ones. *)
LEMMA OwnersCounted ==
  ASSUME NEW s \in Seq(Entries),
         \A i, j \in 1 .. Len(s) : i < j => s[i].owner < s[j].owner
  PROVE  Cardinality(Owned(s)) = Len(s)
<1> DEFINE own == [i \in 1 .. Len(s) |-> s[i].owner]
<1>1. Len(s) \in Nat /\ DOMAIN s = 1 .. Len(s) /\ \A i \in 1 .. Len(s) : s[i] \in Entries
  OBVIOUS
<1>2. \A i \in 1 .. Len(s) : own[i] \in Nat
  BY <1>1 DEF Entries
<1>3. \A i, j \in 1 .. Len(s) : own[i] = own[j] => i = j
  <2> TAKE i, j \in 1 .. Len(s)
  <2>1. (i < j => own[i] < own[j]) /\ (j < i => own[j] < own[i])
    OBVIOUS
  <2> QED BY <1>1, <1>2, <2>1
<1>4. Owned(s) = {own[i] : i \in 1 .. Len(s)}
  BY <1>1 DEF Owned
<1>5. own \in [1 .. Len(s) -> Owned(s)]
  BY <1>4
<1>6. \A x \in Owned(s) : \E i \in 1 .. Len(s) : own[i] = x
  BY <1>4
<1>7. own \in Bijection(1 .. Len(s), Owned(s))
  <2> HIDE DEF own
  <2> QED BY <1>3, <1>5, <1>6, Fun_IsBij
<1>8. ExistsBijection(1 .. Len(s), Owned(s))
  BY <1>7, Fun_ExistsBij
<1> QED BY <1>1, <1>8, FS_CountingElements

(* A position has a tag exactly when it is passed by value. *)
LEMMA TagsMark ==
  ASSUME IInv, stage \in {"attach", "done"}, NEW p \in Positions
  PROVE  /\ tags[p] = TagAt(p)
         /\ tags[p] # 0 <=> ByValue(fn[p])
<1>1. tags[p] = TagAt(p)
  BY DEF IInv, StageFits
<1>2. ASSUME ByValue(fn[p])
      PROVE  TagAt(p) # 0
  BY <1>2, TagsGrow, FunctionIsSequence DEF IInv, TypeOK
<1>3. ~ByValue(fn[p]) => TagAt(p) = 0
  BY DEF TagAt
<1> QED BY <1>1, <1>2, <1>3

-----------------------------------------------------------------------------
(* The steps *)

LEMMA InitHolds == Init => IInv
<1> SUFFICES ASSUME Init PROVE IInv
  OBVIOUS
<1>1. TypeOK
  BY FunctionIsSequence DEF Init, TypeOK
<1>2. attached = <<>> /\ Len(attached) = 0 /\ DOMAIN attached = 1 .. 0
  BY DEF Init
<1>3. StageFits /\ EntriesFit /\ EntriesInOrder /\ NoneIsSkipped
  BY <1>2 DEF Init, StageFits, EntriesFit, EntriesInOrder, NoneIsSkipped
<1>4. blocks = Owned(attached)
  BY <1>2 DEF Init, Owned
<1> QED BY <1>1, <1>3, <1>4 DEF IInv

LEMMA Earlier ==
  ASSUME NEW a \in Nat, NEW b \in Nat, a <= b
  PROVE  \A x \in 1 .. a - 1 : x \in 1 .. b - 1
OBVIOUS

(* What a step that leaves the entries alone has to keep. *)
LEMMA EntriesStay ==
  ASSUME IInv, TypeOK', StageFits',
         fn' = fn, attached' = attached, blocks' = blocks,
         next <= next',
         stage' \in {"attach", "done"} =>
           \/ next' = next /\ (stage \in {"attach", "done"} \/ next = 1)
           \/ /\ next' = next + 1 /\ next \in Positions /\ ~ByValue(fn[next])
              /\ stage = "attach"
  PROVE  IInv'
<1>1. next \in Nat /\ next' \in Nat
  BY DEF IInv, TypeOK
<1>2. EntriesFit'
  <2>1. \A i \in 1 .. Len(attached) : TagAt(attached[i].owner)' = TagAt(attached[i].owner)
    BY DEF TagAt
  <2>2. \A x \in 1 .. next - 1 : x \in 1 .. next' - 1
    BY <1>1, Earlier
  <2>3. ASSUME NEW i \in 1 .. Len(attached)
        PROVE  /\ attached[i].owner \in 1 .. next' - 1
               /\ ByValue(fn[attached[i].owner])
               /\ attached[i].tag = TagAt(attached[i].owner)
               /\ attached[i].graph = GraphOf(LayoutOf(fn[attached[i].owner]))
    BY <2>2 DEF IInv, EntriesFit
  <2> QED BY <2>1, <2>3 DEF EntriesFit
<1>3. EntriesInOrder'
  BY DEF IInv, EntriesInOrder
<1>4. NoneIsSkipped'
  <2> SUFFICES ASSUME stage' \in {"attach", "done"},
                      NEW p \in 1 .. next' - 1, ByValue(fn[p])
               PROVE  \E i \in 1 .. Len(attached) : attached[i].owner = p
    BY DEF NoneIsSkipped
  <2>1. CASE next' = next /\ (stage \in {"attach", "done"} \/ next = 1)
    <3>1. p \in 1 .. next - 1 /\ stage \in {"attach", "done"}
      BY <1>1, <2>1
    <3> QED BY <3>1 DEF IInv, NoneIsSkipped
  <2>2. CASE next' = next + 1 /\ ~ByValue(fn[next]) /\ stage = "attach"
    <3>1. p # next
      BY <2>2
    <3>2. p \in 1 .. next - 1
      BY <1>1, <2>2, <3>1
    <3> QED BY <2>2, <3>2 DEF IInv, NoneIsSkipped
  <2> QED BY <2>1, <2>2
<1>5. blocks' = Owned(attached')
  BY DEF IInv
<1> QED BY <1>2, <1>3, <1>4, <1>5 DEF IInv

(* With no entries, nothing is to be kept of them. *)
LEMMA EntriesGone ==
  ASSUME TypeOK', StageFits', attached' = <<>>, blocks' = {}, stage' \notin {"attach", "done"}
  PROVE  IInv'
<1>1. Len(attached') = 0 /\ DOMAIN attached' = {}
  OBVIOUS
<1>2. EntriesFit' /\ EntriesInOrder' /\ NoneIsSkipped'
  BY <1>1 DEF EntriesFit, EntriesInOrder, NoneIsSkipped
<1>3. Owned(attached') = {}
  BY <1>1 DEF Owned
<1> QED BY <1>2, <1>3 DEF IInv

LEMMA GiveUpHolds ==
  ASSUME IInv, GiveUp(blocks), stage = "attach", fn' = fn, binding' = binding,
         next' = next, tags' = tags
  PROVE  IInv'
<1>1. stage' = "failed" /\ desc' = "freed" /\ attached' = <<>>
  BY DEF GiveUp
<1>2. TypeOK'
  BY <1>1 DEF IInv, TypeOK
<1>3. blocks' = {}
  BY DEF GiveUp, IInv
<1>4. binding' = "lua" => buffers' = {}
  BY DEF GiveUp, Kept
<1>5. StageFits'
  BY <1>1, <1>4 DEF StageFits
<1> QED BY <1>1, <1>2, <1>3, <1>5, EntriesGone

LEMMA AttachHolds ==
  ASSUME IInv, Attach
  PROVE  IInv'
<1> DEFINE graph == GraphOf(LayoutAt(next))
           entry == [tag |-> tags[next], graph |-> graph, owner |-> next]
<1>1. /\ stage = "attach" /\ stage' = "attach" /\ next \in Positions
      /\ tags[next] # 0 /\ attached' = Append(attached, entry)
      /\ blocks' = blocks \cup {next} /\ next' = next + 1
      /\ UNCHANGED <<fn, binding, tags, desc, buffers>>
  BY DEF Attach
<1>2. /\ Len(fn) \in Nat /\ Positions = 1 .. Len(fn) /\ next \in Nat /\ next >= 1
  BY FunctionIsSequence DEF IInv, TypeOK
<1>3. tags[next] = TagAt(next) /\ ByValue(fn[next]) /\ tags[next] \in Nat
  BY <1>1, <1>2, TagsMark, TagsGrow DEF IInv, TypeOK
<1>4. graph = GraphOf(LayoutOf(fn[next])) /\ graph \in Attachable
  BY <1>1 DEF LayoutAt, Attachable, Positions, IInv, TypeOK
<1>5. entry \in Entries
  <2> HIDE DEF graph
  <2> QED BY <1>2, <1>3, <1>4 DEF Entries
<1>6. PICK new : new = entry
  OBVIOUS
<1>7. new.tag = TagAt(next) /\ new.graph = GraphOf(LayoutOf(fn[next])) /\ new.owner = next
  BY <1>3, <1>4, <1>6
<1> HIDE DEF entry, graph
<1>8. /\ Len(attached) \in Nat /\ attached \in Seq(Entries) /\ attached' \in Seq(Entries)
      /\ Len(attached') = Len(attached) + 1 /\ attached'[Len(attached) + 1] = new
      /\ \A i \in 1 .. Len(attached) : attached'[i] = attached[i]
  BY <1>1, <1>5, <1>6 DEF IInv, TypeOK
<1>9. \A i \in 1 .. Len(attached') : i \in 1 .. Len(attached) \/ i = Len(attached) + 1
  BY <1>8
<1>10. TypeOK'
  BY <1>1, <1>2, <1>8 DEF IInv, TypeOK
<1>11. StageFits'
  BY <1>1 DEF IInv, StageFits, TagAt, Positions
<1>12. EntriesFit'
  <2>1. \A p : TagAt(p)' = TagAt(p)
    BY <1>1 DEF TagAt
  <2>2. next \in 1 .. next' - 1 /\ \A x : x \in 1 .. next - 1 => x \in 1 .. next' - 1
    BY <1>1, <1>2
  <2>3. ByValue(fn[new.owner]) /\ new.owner \in 1 .. next' - 1
    BY <1>3, <1>7, <2>2
  <2> SUFFICES ASSUME NEW i \in 1 .. Len(attached')
               PROVE  /\ attached'[i].owner \in 1 .. next' - 1
                      /\ ByValue(fn[attached'[i].owner])
                      /\ attached'[i].tag = TagAt(attached'[i].owner)
                      /\ attached'[i].graph = GraphOf(LayoutOf(fn[attached'[i].owner]))
    BY <1>1, <2>1 DEF EntriesFit
  <2>4. CASE i \in 1 .. Len(attached)
    BY <1>8, <2>2, <2>4 DEF IInv, EntriesFit
  <2>5. CASE i = Len(attached) + 1
    BY <1>7, <1>8, <2>3, <2>5
  <2> QED BY <1>9, <2>4, <2>5
<1>13. EntriesInOrder'
  <2> SUFFICES ASSUME NEW i \in 1 .. Len(attached'), NEW j \in 1 .. Len(attached'), i < j
               PROVE  attached'[i].owner < attached'[j].owner
    BY DEF EntriesInOrder
  <2>1. i \in 1 .. Len(attached)
    BY <1>8, <1>9
  <2>2. attached'[i] = attached[i] /\ attached[i].owner \in 1 .. next - 1
    BY <1>8, <2>1 DEF IInv, EntriesFit
  <2>3. CASE j \in 1 .. Len(attached)
    BY <1>8, <2>1, <2>3 DEF IInv, EntriesInOrder
  <2>4. CASE j = Len(attached) + 1
    BY <1>2, <1>7, <1>8, <2>2, <2>4
  <2> QED BY <1>9, <2>3, <2>4
<1>14. NoneIsSkipped'
  <2> SUFFICES ASSUME NEW p \in 1 .. next' - 1, ByValue(fn[p])
               PROVE  \E i \in 1 .. Len(attached') : attached'[i].owner = p
    BY <1>1 DEF NoneIsSkipped
  <2>1. CASE p = next
    BY <1>7, <1>8, <2>1
  <2>2. CASE p \in 1 .. next - 1
    <3>1. PICK i \in 1 .. Len(attached) : attached[i].owner = p
      BY <1>1, <2>2 DEF IInv, NoneIsSkipped
    <3> QED BY <1>8, <3>1
  <2> QED BY <1>1, <1>2, <2>1, <2>2
<1>15. blocks' = Owned(attached')
  <2>1. DOMAIN attached = 1 .. Len(attached) /\ DOMAIN attached' = 1 .. Len(attached')
    BY <1>8
  <2>2. Owned(attached) = {attached[i].owner : i \in 1 .. Len(attached)}
    BY <2>1 DEF Owned
  <2>3. Owned(attached') = {attached'[i].owner : i \in 1 .. Len(attached')}
    BY <2>1 DEF Owned
  <2>4. Owned(attached') = Owned(attached) \cup {new.owner}
    BY <1>8, <1>9, <2>2, <2>3
  <2> QED BY <1>1, <1>7, <2>4 DEF IInv
<1> QED BY <1>10, <1>11, <1>12, <1>13, <1>14, <1>15 DEF IInv

LEMMA NextHolds == IInv /\ [Next]_vars => IInv'
<1> SUFFICES ASSUME IInv, [Next]_vars PROVE IInv'
  OBVIOUS
<1>0. /\ TypeOK /\ StageFits /\ next \in Nat /\ next <= next
      /\ Len(fn) \in Nat /\ Positions = 1 .. Len(fn)
  BY FunctionIsSequence DEF IInv, TypeOK
<1>1. CASE DescribeFunctionType
  <2>1. TypeOK' /\ StageFits'
    BY <1>0, <1>1 DEF DescribeFunctionType, TypeOK, StageFits
  <2> QED BY <1>0, <1>1, <2>1, EntriesStay DEF DescribeFunctionType
<1>2. CASE WriteSignature
  <2>1. TypeOK'
    BY <1>0, <1>2 DEF WriteSignature, TypeOK
  <2>2. tags' = [p \in Positions |-> TagAt(p)]'
    BY <1>2 DEF WriteSignature, TagAt, Positions
  <2>3. StageFits'
    BY <1>0, <1>2, <2>2 DEF WriteSignature, StageFits
  <2> QED BY <1>0, <1>2, <2>1, <2>3, EntriesStay DEF WriteSignature
<1>3. CASE RefuseArgs
  <2>1. TypeOK' /\ StageFits'
    BY <1>0, <1>3 DEF RefuseArgs, TypeOK, StageFits
  <2> QED BY <1>0, <1>3, <2>1, EntriesStay DEF RefuseArgs
<1>4. CASE Parse
  <2>1. TypeOK'
    BY <1>0, <1>4 DEF Parse, TypeOK
  <2>2. tags' = [p \in Positions |-> TagAt(p)]'
    BY <1>0, <1>4 DEF Parse, TagAt, Positions, StageFits
  <2>3. StageFits'
    BY <1>0, <1>4, <2>2 DEF Parse, StageFits
  <2> QED BY <1>0, <1>4, <2>1, <2>3, EntriesStay DEF Parse, StageFits
<1>5. CASE ParseFails
  <2>1. TypeOK'
    BY <1>0, <1>5 DEF ParseFails, TypeOK
  <2>2. StageFits'
    BY <1>0, <1>5 DEF ParseFails, StageFits
  <2> QED BY <1>0, <1>5, <2>1, <2>2, EntriesStay DEF ParseFails
<1>6. CASE SkipPosition
  <2>1. ~ByValue(fn[next])
    BY <1>6, TagsMark DEF SkipPosition
  <2>2. TypeOK'
    BY <1>0, <1>6 DEF SkipPosition, TypeOK
  <2>3. tags' = [p \in Positions |-> TagAt(p)]'
    BY <1>0, <1>6 DEF SkipPosition, TagAt, Positions, StageFits
  <2>4. StageFits'
    BY <1>0, <1>6, <2>3 DEF SkipPosition, StageFits
  <2> QED BY <1>0, <1>6, <2>1, <2>2, <2>4, EntriesStay DEF SkipPosition
<1>7. CASE BuildFails
  BY <1>7, GiveUpHolds DEF BuildFails
<1>8. CASE AttachFails
  BY <1>8, GiveUpHolds DEF AttachFails
<1>9. CASE Attach
  BY <1>9, AttachHolds
<1>10. CASE Finish
  <2>1. TypeOK'
    BY <1>0, <1>10 DEF Finish, TypeOK
  <2>2. tags' = [p \in Positions |-> TagAt(p)]'
    BY <1>0, <1>10 DEF Finish, TagAt, Positions, StageFits
  <2>3. next = Len(fn) + 1
    BY <1>0, <1>10 DEF Finish, TypeOK
  <2>4. StageFits'
    BY <1>0, <1>10, <2>2, <2>3 DEF Finish, StageFits
  <2> QED BY <1>0, <1>10, <2>1, <2>4, EntriesStay DEF Finish
<1>11. CASE Collect
  <2>1. TypeOK'
    BY <1>0, <1>11 DEF Collect, TypeOK
  <2>2. StageFits'
    BY <1>0, <1>11 DEF Collect, StageFits
  <2>3. blocks' = {}
    BY <1>11 DEF Collect, IInv
  <2> QED BY <1>11, <2>1, <2>2, <2>3, EntriesGone DEF Collect
<1>12. CASE UNCHANGED vars
  <2>1. TypeOK' /\ StageFits'
    <3>1. [p \in Positions |-> TagAt(p)]' = [p \in Positions |-> TagAt(p)]
      BY <1>12 DEF vars, TagAt, Positions
    <3> QED BY <1>0, <1>12, <3>1 DEF vars, TypeOK, StageFits
  <2>2. \A p : TagAt(p)' = TagAt(p)
    BY <1>12 DEF vars, TagAt
  <2> QED BY <1>12, <2>1, <2>2
          DEF vars, IInv, EntriesFit, EntriesInOrder, NoneIsSkipped, Owned
<1> QED BY <1>1, <1>2, <1>3, <1>4, <1>5, <1>6, <1>7, <1>8, <1>9, <1>10, <1>11, <1>12 DEF Next

(* The inductive invariant: at each point of the call there is an entry, in  *)
(* order, for each position passed by value that was reached, and nothing    *)
(* else holds a block or a text that the end of the call would have to free. *)
THEOREM CallInductive == Spec => []IInv
<1>1. Init => IInv
  BY InitHolds
<1>2. IInv /\ [Next]_vars => IInv'
  BY NextHolds
<1> QED BY <1>1, <1>2, PTL DEF Spec

-----------------------------------------------------------------------------
(* What follows from it *)

(* Whatever fails and whenever the descriptor is collected, the blocks of    *)
(* urbnapi_build_layout_to_ffi are those the descriptor's entries own, one   *)
(* for each, and go with it.                                                *)
THEOREM BlocksAreOwned == Spec => []BlocksHaveAnEntry
<1>1. IInv => BlocksHaveAnEntry
  <2> SUFFICES ASSUME IInv PROVE BlocksHaveAnEntry
    OBVIOUS
  <2>1. Cardinality(Owned(attached)) = Len(attached)
    BY OwnersCounted DEF IInv, TypeOK, EntriesInOrder
  <2> QED BY <2>1 DEF IInv, StageFits, BlocksHaveAnEntry
<1> QED BY <1>1, CallInductive, PTL

(* The texts of urbnapi_describe_descriptor and urblua_describe_descriptor   *)
(* are freed when the call ends, but for those of a failed call of Node's.   *)
THEOREM TextsGo == Spec => []TextsAreFreed
<1>1. IInv => TextsAreFreed
  BY DEF IInv, StageFits, TextsAreFreed
<1> QED BY <1>1, CallInductive, PTL

(* urbc_ffi_descriptor_attach_ffi_type never refuses a tag of a description  *)
(* as one it has: what can fail there is memory alone.                      *)
NoTagIsTaken ==
  stage = "attach" /\ next \in Positions /\ tags[next] # 0 =>
    \A i \in DOMAIN attached : attached[i].tag # tags[next]

THEOREM TagsAreFree == Spec => []NoTagIsTaken
<1>1. IInv => NoTagIsTaken
  <2> SUFFICES ASSUME IInv, stage = "attach", next \in Positions, tags[next] # 0,
                      NEW i \in DOMAIN attached
               PROVE  attached[i].tag # tags[next]
    BY DEF NoTagIsTaken
  <2>1. i \in 1 .. Len(attached)
    BY DEF IInv, TypeOK
  <2>2. PICK p : p = attached[i].owner
    OBVIOUS
  <2>3. p \in 1 .. next - 1 /\ ByValue(fn[p]) /\ attached[i].tag = TagAt(p)
    BY <2>1, <2>2 DEF IInv, EntriesFit
  <2>4. ByValue(fn[next]) /\ tags[next] = TagAt(next)
    BY TagsMark
  <2>5. next \in 1 .. Len(fn) /\ p \in 1 .. Len(fn) /\ Len(fn) \in Nat
    BY <2>3, FunctionIsSequence DEF IInv, TypeOK
  <2>6. TagAt(p) < TagAt(next) /\ TagAt(next) \in Nat /\ TagAt(p) \in Nat
    BY <2>3, <2>4, <2>5, TagsGrow DEF IInv, TypeOK
  <2> QED BY <2>3, <2>4, <2>6
<1> QED BY <1>1, CallInductive, PTL

(* Each position that passes a struct, union or array by value, and no other, *)
(* has an entry with the graph of its own layout under the tag the signature  *)
(* has there: the two numberings of the positions agree.                     *)
THEOREM PositionsKeepTheirs == Spec => []PositionsKeepGraphs
<1>1. IInv => PositionsKeepGraphs
  <2> SUFFICES ASSUME IInv, stage = "done"
               PROVE  /\ Len(attached) = Cardinality({p \in Positions : ByValue(fn[p])})
                      /\ \A p \in Positions : ByValue(fn[p]) =>
                           \E i \in DOMAIN attached :
                             attached[i].tag = tags[p] /\ attached[i].graph = GraphOf(LayoutOf(fn[p]))
    BY DEF PositionsKeepGraphs
  <2>1. /\ Len(fn) \in Nat /\ Positions = 1 .. Len(fn) /\ next = Len(fn) + 1
        /\ DOMAIN attached = 1 .. Len(attached)
        /\ tags = [p \in Positions |-> TagAt(p)]
    BY FunctionIsSequence DEF IInv, TypeOK, StageFits
  <2>2. 1 .. next - 1 = Positions
    BY <2>1
  <2>3. Owned(attached) = {p \in Positions : ByValue(fn[p])}
    BY <2>1, <2>2 DEF IInv, EntriesFit, NoneIsSkipped, Owned
  <2>4. Cardinality(Owned(attached)) = Len(attached)
    BY OwnersCounted DEF IInv, TypeOK, EntriesInOrder
  <2>5. ASSUME NEW p \in Positions, ByValue(fn[p])
        PROVE  \E i \in DOMAIN attached :
                 attached[i].tag = tags[p] /\ attached[i].graph = GraphOf(LayoutOf(fn[p]))
    <3>1. PICK i \in 1 .. Len(attached) : attached[i].owner = p
      BY <2>2, <2>5 DEF IInv, NoneIsSkipped
    <3>2. attached[i].tag = TagAt(p) /\ attached[i].graph = GraphOf(LayoutOf(fn[p]))
      BY <3>1 DEF IInv, EntriesFit
    <3> QED BY <2>1, <3>2
  <2> QED BY <2>3, <2>4, <2>5
<1> QED BY <1>1, CallInductive, PTL

-----------------------------------------------------------------------------
(* Induction and recursion over what has a depth *)

LEMMA LeastNatural ==
  ASSUME NEW N \in SUBSET Nat, N # {}
  PROVE  \E n \in N : \A m \in N : n <= m
  <1>1. IsWellFoundedOn(OpToRel(<, Nat), Nat)
    BY NatLessThanWellFounded
  <1>2. PICK n \in N : \A m \in N : ~(<<m, n>> \in OpToRel(<, Nat))
    BY <1>1, WFMin, Zenon
  <1>3. \A m \in N : ~(m < n)
    BY <1>2 DEF OpToRel
  <1> QED BY <1>3

LEMMA SetInduction ==
  ASSUME NEW N \in SUBSET Nat, 0 \in N, \A n \in N : n + 1 \in N
  PROVE  N = Nat
  <1> SUFFICES ASSUME Nat \ N # {} PROVE FALSE
    OBVIOUS
  <1>1. PICK n \in Nat \ N : \A m \in Nat \ N : n <= m
    BY LeastNatural
  <1>2. n # 0 /\ n - 1 \in Nat
    BY <1>1
  <1>3. n - 1 \in N
    BY <1>1, <1>2
  <1> QED BY <1>1, <1>3

(* A recursion, where D asks g only about what is less deep. *)
IsRecursive(S, T, depth, D) ==
  /\ T # {} /\ depth \in [S -> Nat] /\ D \in [S -> [[S -> T] -> T]]
  /\ \A x \in S : \A g, h \in [S -> T] :
       (\A y \in S : depth[y] < depth[x] => g[y] = h[y]) => D[x][g] = D[x][h]

Upto(D, depth, S, g, n) == \A x \in S : depth[x] < n => g[x] = D[x][g]

LEMMA UptoExtends ==
  ASSUME NEW S, NEW T, NEW depth, NEW D, IsRecursive(S, T, depth, D),
         NEW n \in Nat, NEW g \in [S -> T], Upto(D, depth, S, g, n)
  PROVE  \E h \in [S -> T] : Upto(D, depth, S, h, n + 1)
  <1> USE DEF IsRecursive
  <1> DEFINE h == [x \in S |-> IF depth[x] = n THEN D[x][g] ELSE g[x]]
  <1>1. h \in [S -> T]
    OBVIOUS
  <1>2. ASSUME NEW x \in S, depth[x] < n + 1 PROVE h[x] = D[x][h]
    <2>1. ASSUME NEW y \in S, depth[y] < depth[x] PROVE g[y] = h[y]
      <3>1. depth[y] \in Nat /\ depth[x] \in Nat /\ depth[y] # n
        BY <1>2, <2>1
      <3> QED BY <3>1
    <2> HIDE DEF h
    <2>2. D[x][g] = D[x][h]
      BY <1>1, <2>1
    <2>3. h[x] = D[x][g]
      <3>1. depth[x] \in Nat
        OBVIOUS
      <3>2. \A k \in Nat : k < n + 1 => k = n \/ k < n
        OBVIOUS
      <3>3. depth[x] = n \/ depth[x] < n
        BY <1>2, <3>1, <3>2, Zenon
      <3>4. depth[x] < n => g[x] = D[x][g]
        BY DEF Upto
      <3> QED BY <3>3, <3>4 DEF h
    <2> QED BY <2>2, <2>3
  <1> HIDE DEF h
  <1> QED BY <1>1, <1>2 DEF Upto

LEMMA UptoExists ==
  ASSUME NEW S, NEW T,  NEW depth, NEW D, IsRecursive(S, T, depth, D),
         NEW n \in Nat
  PROVE  \E g \in [S -> T] : Upto(D, depth, S, g, n)
  <1> USE DEF IsRecursive
  <1> DEFINE Reached == {m \in Nat : \E g \in [S -> T] : Upto(D, depth, S, g, m)}
  <1>1. 0 \in Reached
    <2>1. PICK t \in T : TRUE
      OBVIOUS
    <2>2. [x \in S |-> t] \in [S -> T]
      OBVIOUS
    <2>3. Upto(D, depth, S, [x \in S |-> t], 0)
      <3>1. \A x \in S : ~(depth[x] < 0)
        OBVIOUS
      <3> QED BY <3>1 DEF Upto
    <2> QED BY <2>2, <2>3
  <1>2. ASSUME NEW m \in Reached PROVE m + 1 \in Reached
    <2>1. PICK g \in [S -> T] : Upto(D, depth, S, g, m)
      OBVIOUS
    <2>2. \E h \in [S -> T] : Upto(D, depth, S, h, m + 1)
      BY <2>1, UptoExtends
    <2> QED BY <2>2
  <1>3. Reached \in SUBSET Nat
    OBVIOUS
  <1> HIDE DEF Reached
  <1>4. Reached = Nat
    BY <1>1, <1>2, <1>3, SetInduction
  <1> QED BY <1>4 DEF Reached

LEMMA UptoAgrees ==
  ASSUME NEW S, NEW T, NEW depth, NEW D, IsRecursive(S, T, depth, D),
         NEW n \in Nat
  PROVE  \A g, h \in [S -> T] : Upto(D, depth, S, g, n) /\ Upto(D, depth, S, h, n) =>
           \A x \in S : depth[x] < n => g[x] = h[x]
  <1> USE DEF IsRecursive
  <1> DEFINE Same_(g, h, m) == \A x \in S : depth[x] < m => g[x] = h[x]
             Agree == {m \in Nat : \A g, h \in [S -> T] :
                         Upto(D, depth, S, g, m) /\ Upto(D, depth, S, h, m) => Same_(g, h, m)}
  <1>1. 0 \in Agree
    <2>1. \A x \in S : ~(depth[x] < 0)
      OBVIOUS
    <2> QED BY <2>1
  <1>2. ASSUME NEW m \in Agree PROVE m + 1 \in Agree
    <2>1. SUFFICES ASSUME NEW g \in [S -> T], NEW h \in [S -> T],
                          Upto(D, depth, S, g, m + 1), Upto(D, depth, S, h, m + 1),
                          NEW x \in S, depth[x] < m + 1
                   PROVE  g[x] = h[x]
      <3>1. m + 1 \in Nat
        OBVIOUS
      <3> QED BY <3>1
    <2>2. Upto(D, depth, S, g, m) /\ Upto(D, depth, S, h, m)
      BY <2>1 DEF Upto
    <2>3. Same_(g, h, m)
      BY <2>2
    <2>4. \A y \in S : depth[y] < depth[x] => g[y] = h[y]
      BY <2>1, <2>3
    <2>5. D[x][g] = D[x][h]
      BY <2>4
    <2>6. g[x] = D[x][g] /\ h[x] = D[x][h]
      BY <2>1 DEF Upto
    <2> QED BY <2>5, <2>6
  <1>3. Agree \in SUBSET Nat
    OBVIOUS
  <1> HIDE DEF Agree
  <1>4. Agree = Nat
    BY <1>1, <1>2, <1>3, SetInduction
  <1> QED BY <1>4 DEF Agree

LEMMA Recursion ==
  ASSUME NEW S, NEW T,  NEW depth, NEW D, IsRecursive(S, T, depth, D)
  PROVE  \E f \in [S -> T] : \A x \in S : f[x] = D[x][f]
  <1>1. ASSUME NEW m \in Nat
        PROVE  \A g, h \in [S -> T] : Upto(D, depth, S, g, m) /\ Upto(D, depth, S, h, m) =>
                 \A z \in S : depth[z] < m => g[z] = h[z]
    BY UptoAgrees
  <1> USE DEF IsRecursive
  <1> DEFINE part == [n \in Nat |-> CHOOSE g \in [S -> T] : Upto(D, depth, S, g, n)]
             f == [x \in S |-> part[depth[x] + 1][x]]
  <1>2. ASSUME NEW n \in Nat PROVE part[n] \in [S -> T] /\ Upto(D, depth, S, part[n], n)
    <2>1. \E g \in [S -> T] : Upto(D, depth, S, g, n)
      BY UptoExists
    <2>2. part[n] = CHOOSE g \in [S -> T] : Upto(D, depth, S, g, n)
      OBVIOUS
    <2> HIDE DEF part
    <2> QED BY <2>1, <2>2, Zenon
  <1> HIDE DEF part
  <1>3. f \in [S -> T]
    <2>1. ASSUME NEW x \in S PROVE part[depth[x] + 1][x] \in T
      <3>1. depth[x] + 1 \in Nat
        OBVIOUS
      <3>2. part[depth[x] + 1] \in [S -> T]
        BY <1>2, <3>1
      <3> QED BY <3>2
    <2> QED BY <2>1
  <1>4. ASSUME NEW x \in S PROVE f[x] = D[x][f]
    <2> DEFINE n == depth[x] + 1
    <2>1. n \in Nat /\ depth[x] < n
      OBVIOUS
    <2>2. part[n] \in [S -> T] /\ Upto(D, depth, S, part[n], n)
      BY <1>2, <2>1
    <2>3. f[x] = part[n][x]
      OBVIOUS
    <2>4. ASSUME NEW y \in S, depth[y] < depth[x] PROVE part[n][y] = f[y]
      <3> DEFINE m == depth[y] + 1
      <3>1. m \in Nat /\ depth[y] < m /\ m <= n
        BY <2>4
      <3>2. part[m] \in [S -> T] /\ Upto(D, depth, S, part[m], m)
        BY <1>2, <3>1
      <3>3. f[y] = part[m][y]
        OBVIOUS
      <3>4. Upto(D, depth, S, part[n], m)
        <4> HIDE DEF n, m, f
        <4>1. \A z \in S : depth[z] < m => depth[z] < n
          BY <2>1, <3>1
        <4> QED BY <2>2, <4>1 DEF Upto
      <3> HIDE DEF n, m, f
      <3>5. \A g, h \in [S -> T] : Upto(D, depth, S, g, m) /\ Upto(D, depth, S, h, m) =>
              \A z \in S : depth[z] < m => g[z] = h[z]
        BY <1>1, <3>1, Zenon
      <3>6. part[n][y] = part[m][y]
        BY <2>2, <3>1, <3>2, <3>4, <3>5
      <3> QED BY <3>3, <3>6
    <2> HIDE DEF n, f
    <2>5. D[x][part[n]] = D[x][f]
      BY <1>3, <2>2, <2>4
    <2>6. part[n][x] = D[x][part[n]]
      BY <2>1, <2>2 DEF Upto
    <2> QED BY <2>3, <2>5, <2>6
  <1> HIDE DEF f
  <1> QED BY <1>3, <1>4

-----------------------------------------------------------------------------
(* The functions of a layout *)

PartsOf(layout) == IF IsAggregate(layout) THEN {layout.parts[i] : i \in DOMAIN layout.parts} ELSE {}

LEMMA LayoutFacts ==
  ASSUME NEW layout \in Layouts
  PROVE  /\ Depth(layout) \in Nat
         /\ \A part \in PartsOf(layout) :
              part \in Layouts /\ Depth(part) \in Nat /\ Depth(part) < Depth(layout)
         /\ IsAggregate(layout) =>
              /\ layout.parts \in Seq(Layouts)
              /\ Len(layout.parts) \in Nat /\ DOMAIN layout.parts = 1 .. Len(layout.parts)
              /\ \A i \in 1 .. Len(layout.parts) : layout.parts[i] \in Layouts /\ layout.parts[i] \in PartsOf(layout)
  <1>1. /\ Depth(layout) \in Nat
        /\ IsAggregate(layout) =>
             /\ layout.parts \in Seq(Layouts)
             /\ \A i \in DOMAIN layout.parts : Depth(layout.parts[i]) < Depth(layout)
    BY LayoutsAssumption
  <1>2. IsAggregate(layout) =>
          /\ Len(layout.parts) \in Nat /\ DOMAIN layout.parts = 1 .. Len(layout.parts)
          /\ \A i \in DOMAIN layout.parts : layout.parts[i] \in Layouts
    BY <1>1
  <1>3. \A part \in PartsOf(layout) : part \in Layouts /\ Depth(part) < Depth(layout)
    BY <1>1, <1>2 DEF PartsOf
  <1>4. \A part \in Layouts : Depth(part) \in Nat
    BY LayoutsAssumption
  <1>5. IsAggregate(layout) => \A i \in 1 .. Len(layout.parts) : layout.parts[i] \in PartsOf(layout)
    BY <1>2 DEF PartsOf
  <1> QED BY <1>1, <1>2, <1>3, <1>4, <1>5

LEMMA LayoutInduction ==
  ASSUME NEW P \in SUBSET Layouts,
         \A layout \in Layouts : PartsOf(layout) \subseteq P => layout \in P
  PROVE  P = Layouts
  <1> DEFINE N == {n \in Nat : \A layout \in Layouts : Depth(layout) < n => layout \in P}
  <1>1. 0 \in N
    BY LayoutFacts
  <1>2. ASSUME NEW n \in N PROVE n + 1 \in N
    <2>1. ASSUME NEW layout \in Layouts, Depth(layout) < n + 1 PROVE layout \in P
      <3>1. \A part \in PartsOf(layout) : part \in Layouts /\ Depth(part) < n
        BY <2>1, LayoutFacts
      <3>2. PartsOf(layout) \subseteq P
        BY <3>1
      <3> QED BY <3>2
    <2> QED BY <2>1
  <1>3. N \in SUBSET Nat
    OBVIOUS
  <1> HIDE DEF N
  <1>4. N = Nat
    BY <1>1, <1>2, <1>3, SetInduction
  <1>5. ASSUME NEW layout \in Layouts PROVE layout \in P
    <2>1. Depth(layout) + 1 \in Nat /\ Depth(layout) < Depth(layout) + 1
      BY LayoutFacts
    <2> QED BY <1>4, <2>1 DEF N
  <1> QED BY <1>5

IsLayoutRecursion(T, D) ==
  /\ T # {} /\ D \in [Layouts -> [[Layouts -> T] -> T]]
  /\ \A layout \in Layouts : \A g, h \in [Layouts -> T] :
       (\A part \in PartsOf(layout) : g[part] = h[part]) => D[layout][g] = D[layout][h]

LEMMA LayoutRecursion ==
  ASSUME NEW T, NEW D, IsLayoutRecursion(T, D)
  PROVE  \E f \in [Layouts -> T] : \A layout \in Layouts : f[layout] = D[layout][f]
  <1> DEFINE depth == [layout \in Layouts |-> Depth(layout)]
  <1>1. depth \in [Layouts -> Nat]
    BY LayoutFacts
  <1>2. ASSUME NEW layout \in Layouts, NEW g \in [Layouts -> T], NEW h \in [Layouts -> T],
               \A part \in Layouts : depth[part] < depth[layout] => g[part] = h[part]
        PROVE  D[layout][g] = D[layout][h]
    <2>1. \A part \in PartsOf(layout) : g[part] = h[part]
      BY <1>2, LayoutFacts
    <2> QED BY <2>1 DEF IsLayoutRecursion
  <1> HIDE DEF depth
  <1>3. IsRecursive(Layouts, T, depth, D)
    BY <1>1, <1>2 DEF IsRecursive, IsLayoutRecursion
  <1> QED BY <1>3, Recursion

-----------------------------------------------------------------------------
(* What a loop has at each of its rounds *)

(* f goes on from first, a round at a time. *)
IsLoop(f, n, T, first, step) ==
  /\ f \in [0 .. n -> T] /\ f[0] = first
  /\ \A i \in 1 .. n : f[i] = step[i][f[i - 1]]

LEMMA LoopExists ==
  ASSUME NEW n \in Nat, NEW T, NEW first \in T, NEW step \in [1 .. n -> [T -> T]]
  PROVE  \E f : IsLoop(f, n, T, first, step)
  <1> DEFINE N == {m \in Nat : m <= n => \E f : IsLoop(f, m, T, first, step)}
  <1>1. 0 \in N
    <2> DEFINE f == [i \in 0 .. 0 |-> first]
    <2>1. f \in [0 .. 0 -> T] /\ f[0] = first /\ 1 .. 0 = {}
      OBVIOUS
    <2> HIDE DEF f
    <2>2. IsLoop(f, 0, T, first, step)
      BY <2>1 DEF IsLoop
    <2> QED BY <2>2
  <1>2. ASSUME NEW m \in N PROVE m + 1 \in N
    <2> SUFFICES ASSUME m + 1 <= n PROVE \E f : IsLoop(f, m + 1, T, first, step)
      OBVIOUS
    <2>1. PICK g : IsLoop(g, m, T, first, step)
      OBVIOUS
    <2> DEFINE f == [i \in 0 .. m + 1 |-> IF i = m + 1 THEN step[m + 1][g[m]] ELSE g[i]]
    <2>2. g \in [0 .. m -> T] /\ g[m] \in T /\ m + 1 \in 1 .. n
      BY <2>1 DEF IsLoop
    <2>3. step[m + 1][g[m]] \in T
      BY <2>2
    <2>4. f \in [0 .. m + 1 -> T]
      <3>1. \A i \in 0 .. m + 1 : i # m + 1 => i \in 0 .. m
        OBVIOUS
      <3> QED BY <2>2, <2>3, <3>1
    <2>5. \A i \in 0 .. m : f[i] = g[i]
      OBVIOUS
    <2>6. f[m + 1] = step[m + 1][g[m]]
      OBVIOUS
    <2> HIDE DEF f
    <2>7. ASSUME NEW i \in 1 .. m + 1 PROVE f[i] = step[i][f[i - 1]]
      <3>1. CASE i = m + 1
        BY <2>5, <2>6, <3>1
      <3>2. CASE i # m + 1
        <4>1. i \in 1 .. m /\ i \in 0 .. m /\ i - 1 \in 0 .. m
          BY <3>2
        <4>2. f[i] = g[i] /\ f[i - 1] = g[i - 1] /\ g[i] = step[i][g[i - 1]]
          BY <2>1, <2>5, <4>1 DEF IsLoop
        <4> QED BY <4>2
      <3> QED BY <3>1, <3>2
    <2>8. f[0] = first
      BY <2>1, <2>5 DEF IsLoop
    <2>9. IsLoop(f, m + 1, T, first, step)
      BY <2>4, <2>7, <2>8 DEF IsLoop
    <2> QED BY <2>9
  <1>3. N \in SUBSET Nat
    OBVIOUS
  <1> HIDE DEF N
  <1>4. N = Nat
    BY <1>1, <1>2, <1>3, SetInduction
  <1>5. n \in N /\ n <= n
    BY <1>4
  <1> QED BY <1>5 DEF N

(* What has the rounds of a loop is the loop. *)
Follows(g, n, first, step, f) ==
  /\ g = [i \in 0 .. n |-> g[i]]
  /\ g[0] = first
  /\ \A i \in 1 .. n : g[i - 1] = f[i - 1] => g[i] = step[i][f[i - 1]]

LEMMA LoopIs ==
  ASSUME NEW n \in Nat, NEW T, NEW first, NEW step, NEW f, IsLoop(f, n, T, first, step),
         NEW g, Follows(g, n, first, step, f)
  PROVE  g = f
  <1> DEFINE N == {m \in Nat : m <= n => g[m] = f[m]}
  <1>1. 0 \in N
    BY DEF IsLoop, Follows
  <1>2. ASSUME NEW m \in N PROVE m + 1 \in N
    <2> SUFFICES ASSUME m + 1 <= n PROVE g[m + 1] = f[m + 1]
      OBVIOUS
    <2>1. g[m] = f[m] /\ m + 1 \in 1 .. n /\ m + 1 - 1 = m
      OBVIOUS
    <2>2. f[m + 1] = step[m + 1][f[m]]
      BY <2>1 DEF IsLoop
    <2>3. g[m + 1] = step[m + 1][f[m]]
      <3>1. \A i \in 1 .. n : g[i - 1] = f[i - 1] => g[i] = step[i][f[i - 1]]
        BY DEF Follows
      <3>2. PICK i \in 1 .. n : i = m + 1
        BY <2>1
      <3>3. i - 1 = m
        BY <3>2
      <3>4. g[i] = step[i][f[m]]
        BY <2>1, <3>1, <3>3
      <3> QED BY <3>2, <3>4, Zenon
    <2> QED BY <2>2, <2>3
  <1>3. N \in SUBSET Nat
    OBVIOUS
  <1> HIDE DEF N
  <1>4. N = Nat
    BY <1>1, <1>2, <1>3, SetInduction
  <1>5. ASSUME NEW i \in 0 .. n PROVE g[i] = f[i]
    <2>1. i \in N /\ i <= n
      BY <1>4
    <2> QED BY <2>1 DEF N
  <1>6. f = [i \in 0 .. n |-> f[i]]
    BY DEF IsLoop
  <1>7. g = [i \in 0 .. n |-> g[i]]
    BY DEF Follows
  <1> QED BY <1>5, <1>6, <1>7

-----------------------------------------------------------------------------
(* Counting *)

LEMMA PlusCounts ==
  ASSUME NEW a \in Counts, NEW b \in Counts
  PROVE  Plus(a, b) \in Counts
  BY DEF Counts, Plus

(* The totals up to each count. *)
IsTotal(total, own, counts) ==
  /\ total \in [0 .. Len(counts) -> Counts] /\ total[0] = own
  /\ \A i \in 1 .. Len(counts) : total[i] = Plus(total[i - 1], counts[i])

LEMMA TotalDef ==
  ASSUME NEW own \in Counts, NEW counts \in Seq(Counts)
  PROVE  \E total : IsTotal(total, own, counts) /\ Total(own, counts) = total[Len(counts)]
  <1> DEFINE n == Len(counts)
             step == [i \in 1 .. n |-> [c \in Counts |-> Plus(c, counts[i])]]
             Body_(g, i) == IF i = 0 THEN own ELSE Plus(g[i - 1], counts[i])
  <1>1. n \in Nat /\ \A i \in 1 .. n : counts[i] \in Counts
    OBVIOUS
  <1>2. step \in [1 .. n -> [Counts -> Counts]]
    BY <1>1, PlusCounts
  <1>3. \A i \in 1 .. n : \A c \in Counts : step[i][c] = Plus(c, counts[i])
    OBVIOUS
  <1> HIDE DEF step
  <1>4. PICK f : IsLoop(f, n, Counts, own, step)
    <2> HIDE DEF n
    <2> QED BY <1>1, <1>2, LoopExists
  <1>5. ASSUME NEW i \in 1 .. n PROVE f[i - 1] \in Counts
    BY <1>1, <1>4 DEF IsLoop
  <1>6. \A i \in 0 .. n : f[i] = Body_(f, i)
    <2> SUFFICES ASSUME NEW i \in 0 .. n PROVE f[i] = Body_(f, i)
      OBVIOUS
    <2>1. i = 0 \/ i \in 1 .. n
      OBVIOUS
    <2> QED BY <1>3, <1>4, <1>5, <2>1 DEF IsLoop
  <1>7. f = [i \in 0 .. n |-> Body_(f, i)]
    BY <1>4, <1>6 DEF IsLoop
  <1> DEFINE total == CHOOSE g : g = [i \in 0 .. n |-> Body_(g, i)]
  <1> HIDE DEF n, Body_
  <1>8. total = [i \in 0 .. n |-> Body_(total, i)]
    BY <1>7, Zenon
  <1>9. Total(own, counts) = total[n]
    BY Zenon DEF Total, n, Body_
  <1>10. IsTotal(f, own, counts)
    BY <1>3, <1>4, <1>5 DEF IsLoop, IsTotal, n
  <1>11. total = f
    <2> HIDE DEF total
    <2>1. total = [i \in 0 .. n |-> total[i]]
      BY <1>8
    <2>2. \A i \in 0 .. n : total[i] = Body_(total, i)
      BY <1>8
    <2>3. total[0] = own
      BY <1>1, <2>2 DEF Body_
    <2>4. ASSUME NEW i \in 1 .. n, total[i - 1] = f[i - 1] PROVE total[i] = step[i][f[i - 1]]
      <3>1. i \in 0 .. n /\ i # 0
        BY <1>1
      <3>2. total[i] = Plus(total[i - 1], counts[i])
        BY <2>2, <3>1 DEF Body_
      <3> QED BY <1>3, <1>5, <2>4, <3>2
    <2>5. Follows(total, n, own, step, f)
      BY <2>1, <2>3, <2>4 DEF Follows
    <2> QED BY <1>1, <1>4, <2>5, LoopIs
  <1> QED BY <1>9, <1>10, <1>11 DEF n

Zero == [nodes |-> 0, slots |-> 0]
OwnOf(layout) == [nodes |-> 1, slots |-> Len(layout.parts) + 1]
OfParts(layout, g) == [i \in DOMAIN layout.parts |-> g[layout.parts[i]]]

LEMMA OfPartsIs ==
  ASSUME NEW layout \in Layouts, IsAggregate(layout), NEW T, NEW g \in [Layouts -> T]
  PROVE  /\ OfParts(layout, g) \in Seq(T) /\ Len(OfParts(layout, g)) = Len(layout.parts)
         /\ \A i \in 1 .. Len(layout.parts) : OfParts(layout, g)[i] = g[layout.parts[i]]
  <1>1. /\ Len(layout.parts) \in Nat /\ DOMAIN layout.parts = 1 .. Len(layout.parts)
        /\ \A i \in 1 .. Len(layout.parts) : layout.parts[i] \in Layouts
    BY LayoutFacts
  <1> DEFINE n == Len(layout.parts)
             c == [i \in 1 .. n |-> g[layout.parts[i]]]
  <1>2. c \in [1 .. n -> T]
    BY <1>1
  <1>3. OfParts(layout, g) = c
    BY <1>1 DEF OfParts
  <1>4. \A i \in 1 .. n : c[i] = g[layout.parts[i]]
    OBVIOUS
  <1> HIDE DEF c, n
  <1>5. n \in Nat
    BY <1>1 DEF n
  <1>6. c \in Seq(T) /\ Len(c) = n
    BY <1>2, <1>5
  <1> QED BY <1>3, <1>4, <1>6 DEF n

LEMMA CountedDef ==
  /\ Counted \in [Layouts -> Counts]
  /\ \A layout \in Layouts :
       Counted[layout] =
         IF ~IsAggregate(layout) THEN Zero
         ELSE IF layout.form = "array" THEN Plus(OwnOf(layout), OfParts(layout, Counted)[1])
         ELSE Total(OwnOf(layout), OfParts(layout, Counted))
  <1> DEFINE T == Counts
             Body_(l, g) ==
               IF ~IsAggregate(l) THEN Zero
               ELSE IF l.form = "array" THEN Plus(OwnOf(l), OfParts(l, g)[1])
               ELSE Total(OwnOf(l), OfParts(l, g))
             D == [l \in Layouts |-> [g \in [Layouts -> T] |-> Body_(l, g)]]
  <1>1. ASSUME NEW l \in Layouts, NEW g \in [Layouts -> T] PROVE Body_(l, g) \in T
    <2>1. Zero \in Counts
      BY DEF Zero, Counts
    <2>2. ASSUME IsAggregate(l)
          PROVE  /\ OwnOf(l) \in Counts /\ OfParts(l, g) \in Seq(Counts)
                 /\ Len(OfParts(l, g)) = Len(l.parts)
      <3>1. Len(l.parts) \in Nat
        BY <2>2, LayoutFacts
      <3>2. OwnOf(l) \in Counts
        BY <3>1 DEF OwnOf, Counts
      <3> QED BY <2>2, <3>2, OfPartsIs
    <2>3. CASE IsAggregate(l) /\ l.form = "array"
      <3>1. l.parts # <<>> /\ l.parts \in Seq(Layouts)
        BY <2>3, LayoutsAssumption
      <3>2. Len(l.parts) \in Nat \ {0}
        BY <3>1
      <3>3. OfParts(l, g)[1] \in Counts
        <4> DEFINE c == OfParts(l, g)
        <4>1. c \in Seq(Counts) /\ 1 \in 1 .. Len(c)
          BY <2>2, <2>3, <3>2
        <4> HIDE DEF c
        <4>2. c[1] \in Counts
          BY <4>1
        <4> QED BY <4>2 DEF c
      <3> QED BY <2>2, <2>3, <3>3, PlusCounts
    <2>4. CASE IsAggregate(l) /\ l.form # "array"
      <3> DEFINE c == OfParts(l, g)
      <3>1. c \in Seq(Counts) /\ OwnOf(l) \in Counts
        BY <2>2, <2>4
      <3> HIDE DEF c
      <3>2. PICK total : IsTotal(total, OwnOf(l), c) /\ Total(OwnOf(l), c) = total[Len(c)]
        BY <3>1, TotalDef
      <3>3. Len(c) \in 0 .. Len(c)
        BY <3>1
      <3>4. Total(OwnOf(l), c) \in Counts
        BY <3>2, <3>3 DEF IsTotal
      <3> QED BY <2>4, <3>4 DEF c
    <2> QED BY <2>1, <2>3, <2>4
  <1>2. ASSUME NEW l \in Layouts, NEW g, NEW h, \A part \in PartsOf(l) : g[part] = h[part]
        PROVE  Body_(l, g) = Body_(l, h)
    <2>1. ASSUME IsAggregate(l) PROVE OfParts(l, g) = OfParts(l, h)
      <3>1. \A i \in DOMAIN l.parts : g[l.parts[i]] = h[l.parts[i]]
        BY <1>2, <2>1, LayoutFacts
      <3> QED BY <3>1 DEF OfParts
    <2> QED BY <2>1, Zenon
  <1> HIDE DEF Body_, T
  <1>3. IsLayoutRecursion(T, D)
    <2>1. T # {}
      <3>1. Zero \in T
        BY DEF T, Counts, Zero
      <3> QED BY <3>1
    <2> QED BY <1>1, <1>2, <2>1 DEF IsLayoutRecursion
  <1>4. \A l \in Layouts : \A g \in [Layouts -> T] : D[l][g] = Body_(l, g)
    OBVIOUS
  <1> HIDE DEF D
  <1>5. PICK f \in [Layouts -> T] : \A l \in Layouts : f[l] = D[l][f]
    BY <1>3, LayoutRecursion
  <1>6. f = [l \in Layouts |-> Body_(l, f)]
    BY <1>4, <1>5
  <1>7. Counted = [l \in Layouts |-> Body_(l, Counted)]
    BY <1>6, Zenon DEF Counted, Body_, Zero, OwnOf, OfParts
  <1>8. Counted = f
    <2> DEFINE P == {l \in Layouts : Counted[l] = f[l]}
    <2>1. ASSUME NEW l \in Layouts, PartsOf(l) \subseteq P PROVE l \in P
      BY <1>2, <1>6, <1>7, <2>1
    <2>2. P \in SUBSET Layouts
      OBVIOUS
    <2> HIDE DEF P
    <2>3. P = Layouts
      BY <2>1, <2>2, LayoutInduction
    <2> QED BY <1>6, <1>7, <2>3 DEF P
  <1> QED BY <1>5, <1>7, <1>8 DEF Body_, T

LEMMA PlusGrows ==
  ASSUME NEW a \in Counts, NEW b \in Counts
  PROVE  /\ Plus(a, b).nodes = a.nodes + b.nodes /\ Plus(a, b).slots = a.slots + b.slots
         /\ a.nodes \in Nat /\ a.slots \in Nat /\ b.nodes \in Nat /\ b.slots \in Nat
         /\ Plus(a, Zero) = a
  BY DEF Counts, Plus, Zero

LEMMA TotalGrows ==
  ASSUME NEW own, NEW counts \in Seq(Counts), NEW total, IsTotal(total, own, counts),
         NEW i \in 0 .. Len(counts), NEW j \in 0 .. Len(counts), i <= j
  PROVE  total[i].nodes <= total[j].nodes /\ total[i].slots <= total[j].slots
  <1> DEFINE n == Len(counts)
             N == {m \in Nat : i + m <= n =>
                     total[i].nodes <= total[i + m].nodes /\ total[i].slots <= total[i + m].slots}
  <1>1. n \in Nat /\ \A k \in 0 .. n : total[k] \in Counts
    <2>1. n \in Nat
      OBVIOUS
    <2>2. total \in [0 .. n -> Counts]
      BY DEF IsTotal
    <2> QED BY <2>1, <2>2
  <1>2. \A k \in 0 .. n : total[k].nodes \in Nat /\ total[k].slots \in Nat
    BY <1>1 DEF Counts
  <1>3. 0 \in N
    BY <1>2
  <1>4. ASSUME NEW m \in N PROVE m + 1 \in N
    <2> SUFFICES ASSUME i + (m + 1) <= n
                 PROVE  /\ total[i].nodes <= total[i + (m + 1)].nodes
                        /\ total[i].slots <= total[i + (m + 1)].slots
      OBVIOUS
    <2> DEFINE k == i + (m + 1)
    <2>1. /\ k \in 1 .. n /\ k - 1 = i + m /\ i + m \in 0 .. n /\ k \in 0 .. n /\ i \in 0 .. n
          /\ total[i].nodes <= total[i + m].nodes /\ total[i].slots <= total[i + m].slots
      BY <1>1
    <2> HIDE DEF k
    <2>2. total[k] = Plus(total[i + m], counts[k]) /\ counts[k] \in Counts
      BY <2>1 DEF IsTotal
    <2>3. total[i + m] \in Counts
      BY <1>1, <2>1
    <2>4. total[k].nodes = total[i + m].nodes + counts[k].nodes /\ counts[k].nodes \in Nat
      BY <2>2, <2>3, PlusGrows
    <2>5. total[k].slots = total[i + m].slots + counts[k].slots /\ counts[k].slots \in Nat
      BY <2>2, <2>3, PlusGrows
    <2>6. total[i].nodes <= total[k].nodes /\ total[i].slots <= total[k].slots
      <3> HIDE DEF N
      <3>1. \A a, b, c \in Nat : a <= b => a <= b + c
        OBVIOUS
      <3> QED BY <1>2, <2>1, <2>4, <2>5, <3>1
    <2> QED BY <2>6 DEF k
  <1>5. N \in SUBSET Nat
    OBVIOUS
  <1> HIDE DEF N
  <1>6. N = Nat
    BY <1>3, <1>4, <1>5, SetInduction
  <1>7. j - i \in N /\ i + (j - i) = j /\ j <= n
    BY <1>1, <1>6
  <1> QED BY <1>7 DEF N

(* What is counted of an aggregate is what all its parts count, although of   *)
(* an array only the first is counted.                                      *)
LEMMA CountsAddUp ==
  ASSUME NEW layout \in Layouts, IsAggregate(layout)
  PROVE  \E total : /\ IsTotal(total, OwnOf(layout), OfParts(layout, Counted))
                    /\ Counted[layout] = total[Len(layout.parts)]
  <1> DEFINE own == OwnOf(layout)
             counts == OfParts(layout, Counted)
             n == Len(layout.parts)
  <1>1. /\ n \in Nat /\ counts \in Seq(Counts) /\ Len(counts) = n
        /\ \A i \in 1 .. n : counts[i] = Counted[layout.parts[i]] /\ layout.parts[i] \in Layouts
    BY LayoutFacts, OfPartsIs, CountedDef
  <1>2. own \in Counts
    BY <1>1 DEF OwnOf, Counts
  <1>3. Counted[layout] = IF layout.form = "array" THEN Plus(own, counts[1]) ELSE Total(own, counts)
    BY CountedDef
  <1> HIDE DEF own, counts, n
  <1>4. PICK total : IsTotal(total, own, counts) /\ Total(own, counts) = total[n]
    BY <1>1, <1>2, TotalDef
  <1>5. CASE layout.form # "array"
    <2>1. Counted[layout] = total[n]
      BY <1>3, <1>4, <1>5
    <2> QED BY <1>4, <2>1 DEF own, counts, n
  <1>6. CASE layout.form = "array"
    <2>1. n # 0 /\ \A i \in 1 .. n : layout.parts[i].form = "name"
      <3>1. layout.parts # <<>> /\ layout.parts \in Seq(Layouts)
        BY <1>6, LayoutsAssumption
      <3>2. \A i \in DOMAIN layout.parts : layout.parts[i].form = "name"
        BY <1>6, LayoutsAssumption
      <3> QED BY <3>1, <3>2 DEF n
    <2>2. ASSUME NEW i \in 1 .. n PROVE counts[i] = Zero
      <3>1. ~IsAggregate(layout.parts[i])
        BY <2>1 DEF IsAggregate
      <3> QED BY <1>1, <3>1, CountedDef
    <2> DEFINE N == {m \in Nat : m <= n => total[m] = own}
    <2>3. 0 \in N
      BY <1>4 DEF IsTotal
    <2>4. ASSUME NEW m \in N PROVE m + 1 \in N
      <3> SUFFICES ASSUME m + 1 <= n PROVE total[m + 1] = own
        OBVIOUS
      <3>1. m + 1 \in 1 .. Len(counts) /\ m + 1 - 1 = m /\ total[m] = own /\ counts[m + 1] = Zero
        BY <1>1, <2>2
      <3>2. total[m + 1] = Plus(total[m], counts[m + 1])
        BY <1>4, <3>1 DEF IsTotal
      <3> QED BY <1>2, <3>1, <3>2, PlusGrows
    <2>5. N \in SUBSET Nat
      OBVIOUS
    <2> HIDE DEF N
    <2>6. N = Nat
      BY <2>3, <2>4, <2>5, SetInduction
    <2>7. n \in N /\ n <= n
      BY <1>1, <2>6
    <2>8. total[n] = own
      BY <2>7 DEF N
    <2>9. Counted[layout] = own
      <3>1. 1 \in 1 .. n
        BY <1>1, <2>1
      <3>2. counts[1] = Zero
        BY <2>2, <3>1
      <3> QED BY <1>2, <1>3, <1>6, <3>2, PlusGrows
    <2> QED BY <1>4, <2>8, <2>9 DEF own, counts, n
  <1> QED BY <1>5, <1>6

-----------------------------------------------------------------------------
(* The walk that fills *)

Walks == [Graphs -> Graphs]

LEMMA NodeTypes ==
  /\ \A slot \in Nat : Node(slot) \in FfiTypes /\ Node(slot).leaf = "node" /\ Node(slot).elements = slot
  /\ \A name \in {"pointer"} \cup Names : Leaf(name) \in FfiTypes
  /\ Null \in FfiTypes /\ \A slot \in Nat : Node(slot) # Null
  /\ \A name \in {"pointer"} \cup Names : name # "null" => Leaf(name) # Null
  <1>1. \A slot \in Nat : Node(slot) \in FfiTypes /\ Node(slot).leaf = "node" /\ Node(slot).elements = slot
    BY DEF Node, FfiTypes
  <1>2. \A name \in {"pointer"} \cup Names : Leaf(name) \in FfiTypes /\ Leaf(name).leaf = name /\ Leaf(name).elements = -1
    BY DEF Leaf, FfiTypes
  <1>3. Null \in FfiTypes /\ Null.leaf = "null" /\ Null.elements = -1
    BY DEF Leaf, FfiTypes, Null
  <1>4. \A slot \in Nat : Node(slot) # Null
    BY <1>1, <1>3
  <1> QED BY <1>1, <1>2, <1>3, <1>4

LEMMA GraphFields ==
  ASSUME NEW g \in Graphs
  PROVE  /\ g.room \in Counts /\ g.nodes \in Nat /\ g.slots \in Nat
         /\ g.pool \in SUBSET (Nat \X FfiTypes) /\ g.root \in FfiTypes
         /\ g.room.nodes \in Nat /\ g.room.slots \in Nat
  BY DEF Graphs, Counts

LEMMA StoreKeeps ==
  ASSUME NEW g \in Graphs, NEW slot \in Nat, NEW child \in FfiTypes
  PROVE  /\ Store(g, slot, child) \in Graphs
         /\ Store(g, slot, child).pool = g.pool \cup {<<slot, child>>}
         /\ Store(g, slot, child).room = g.room /\ Store(g, slot, child).nodes = g.nodes
         /\ Store(g, slot, child).slots = g.slots /\ Store(g, slot, child).root = g.root
  <1>1. g.pool \cup {<<slot, child>>} \in SUBSET (Nat \X FfiTypes)
    BY GraphFields
  <1> DEFINE pool == g.pool \cup {<<slot, child>>}
  <1> HIDE DEF pool
  <1>2. Store(g, slot, child) = [g EXCEPT !.pool = pool]
    BY DEF Store, pool
  <1>3. /\ [g EXCEPT !.pool = pool] \in Graphs
        /\ [g EXCEPT !.pool = pool].pool = pool
        /\ [g EXCEPT !.pool = pool].room = g.room /\ [g EXCEPT !.pool = pool].nodes = g.nodes
        /\ [g EXCEPT !.pool = pool].slots = g.slots /\ [g EXCEPT !.pool = pool].root = g.root
    BY <1>1 DEF Graphs, pool
  <1> QED BY <1>2, <1>3 DEF pool

LEMMA RootSet ==
  ASSUME NEW g \in Graphs, NEW root \in FfiTypes
  PROVE  LET h == [g EXCEPT !.root = root]
         IN  /\ h \in Graphs /\ h.root = root
             /\ h.pool = g.pool /\ h.room = g.room /\ h.nodes = g.nodes /\ h.slots = g.slots
  BY DEF Graphs

LEMMA OpenedIs ==
  ASSUME NEW g \in Graphs, NEW parts, Len(parts) \in Nat
  PROVE  /\ Opened(g, parts) \in Graphs
         /\ Opened(g, parts).pool = g.pool /\ Opened(g, parts).room = g.room
         /\ Opened(g, parts).nodes = g.nodes + 1
         /\ Opened(g, parts).slots = g.slots + Len(parts) + 1
         /\ Opened(g, parts).root = Node(g.slots)
  <1>1. Node(g.slots) \in FfiTypes /\ g.nodes + 1 \in Nat /\ g.slots + (Len(parts) + 1) \in Nat
    BY NodeTypes, GraphFields
  <1> DEFINE n == g.nodes + 1
             s == g.slots + (Len(parts) + 1)
             r == Node(g.slots)
             h == [g EXCEPT !.nodes = n, !.slots = s, !.root = r]
  <1>2. Opened(g, parts) = h
    BY DEF Opened, SlotsFor
  <1>3. s = g.slots + Len(parts) + 1
    BY GraphFields
  <1> HIDE DEF n, s, r
  <1>4. h \in Graphs /\ h.pool = g.pool /\ h.room = g.room /\ h.nodes = n /\ h.slots = s /\ h.root = r
    BY <1>1 DEF Graphs, n, s, r
  <1> QED BY <1>2, <1>3, <1>4 DEF n, r

LEMMA ElementIs ==
  ASSUME NEW walk \in Walks, NEW slot \in Nat, NEW g \in Graphs
  PROVE  Element(walk, slot, g) \in Graphs
  <1>1. walk[g] \in Graphs
    BY DEF Walks
  <1>2. walk[g].root \in FfiTypes
    BY <1>1, GraphFields
  <1>3. Store(walk[g], slot, walk[g].root) \in Graphs
    BY <1>1, <1>2, StoreKeeps
  <1> QED BY <1>1, <1>3 DEF Element

(* The graphs up to each element. *)
IsFilled(filled, walks, slot, open) ==
  /\ filled \in [0 .. Len(walks) -> Graphs] /\ filled[0] = open
  /\ \A i \in 1 .. Len(walks) : filled[i] = Element(walks[i], slot + i - 1, filled[i - 1])

LEMMA FilledDef ==
  ASSUME NEW open \in Graphs, NEW slot \in Nat, NEW walks \in Seq(Walks)
  PROVE  \E filled : IsFilled(filled, walks, slot, open) /\ Filled(walks, slot, open) = filled[Len(walks)]
  <1> DEFINE n == Len(walks)
             step == [i \in 1 .. n |-> [g \in Graphs |-> Element(walks[i], slot + i - 1, g)]]
             Body_(h, i) == IF i = 0 THEN open ELSE Element(walks[i], slot + i - 1, h[i - 1])
  <1>1. n \in Nat /\ \A i \in 1 .. n : walks[i] \in Walks /\ slot + i - 1 \in Nat
    OBVIOUS
  <1>2. step \in [1 .. n -> [Graphs -> Graphs]]
    <2>1. \A i \in 1 .. n : \A g \in Graphs : Element(walks[i], slot + i - 1, g) \in Graphs
      BY <1>1, ElementIs
    <2> QED BY <2>1
  <1>3. \A i \in 1 .. n : \A g \in Graphs : step[i][g] = Element(walks[i], slot + i - 1, g)
    OBVIOUS
  <1> HIDE DEF step
  <1>4. PICK f : IsLoop(f, n, Graphs, open, step)
    <2> HIDE DEF n
    <2> QED BY <1>1, <1>2, LoopExists
  <1>5. ASSUME NEW i \in 1 .. n PROVE f[i - 1] \in Graphs
    BY <1>1, <1>4 DEF IsLoop
  <1>6. \A i \in 0 .. n : f[i] = Body_(f, i)
    <2> SUFFICES ASSUME NEW i \in 0 .. n PROVE f[i] = Body_(f, i)
      OBVIOUS
    <2>1. i = 0 \/ i \in 1 .. n
      OBVIOUS
    <2> QED BY <1>3, <1>4, <1>5, <2>1 DEF IsLoop
  <1>7. f = [i \in 0 .. n |-> Body_(f, i)]
    BY <1>4, <1>6 DEF IsLoop
  <1> DEFINE filled == CHOOSE g : g = [i \in 0 .. n |-> Body_(g, i)]
  <1> HIDE DEF n, Body_
  <1>8. filled = [i \in 0 .. n |-> Body_(filled, i)]
    BY <1>7, Zenon
  <1>9. Filled(walks, slot, open) = filled[n]
    BY Zenon DEF Filled, n, Body_
  <1>10. IsFilled(f, walks, slot, open)
    BY <1>3, <1>4, <1>5 DEF IsLoop, IsFilled, n
  <1>11. filled = f
    <2> HIDE DEF filled
    <2>1. filled = [i \in 0 .. n |-> filled[i]]
      BY <1>8
    <2>2. \A i \in 0 .. n : filled[i] = Body_(filled, i)
      BY <1>8
    <2>3. filled[0] = open
      BY <1>1, <2>2 DEF Body_
    <2>4. ASSUME NEW i \in 1 .. n, filled[i - 1] = f[i - 1] PROVE filled[i] = step[i][f[i - 1]]
      <3>1. i \in 0 .. n /\ i # 0
        BY <1>1
      <3>2. filled[i] = Element(walks[i], slot + i - 1, filled[i - 1])
        BY <2>2, <3>1 DEF Body_
      <3> QED BY <1>3, <1>5, <2>4, <3>2
    <2>5. Follows(filled, n, open, step, f)
      BY <2>1, <2>3, <2>4 DEF Follows
    <2> QED BY <1>1, <1>4, <2>5, LoopIs
  <1> QED BY <1>9, <1>10, <1>11 DEF n

(* h is g with the elements of a node at slot ended. *)
IsClosed(h, g, parts, slot) ==
  /\ h \in Graphs /\ h.root = Node(slot)
  /\ h.pool = g.pool \cup {<<slot + Len(parts), Null>>}
  /\ h.room = g.room /\ h.nodes = g.nodes /\ h.slots = g.slots

LEMMA ClosedIs ==
  ASSUME NEW g \in Graphs, NEW parts, Len(parts) \in Nat, NEW slot \in Nat
  PROVE  IsClosed(Closed(g, parts, slot), g, parts, slot)
  <1> DEFINE s == Store(g, slot + Len(parts), Null)
             h == [s EXCEPT !.root = Node(slot)]
  <1>1. slot + Len(parts) \in Nat /\ Null \in FfiTypes /\ Node(slot) \in FfiTypes
    BY NodeTypes
  <1>2. /\ s \in Graphs /\ s.pool = g.pool \cup {<<slot + Len(parts), Null>>}
        /\ s.room = g.room /\ s.nodes = g.nodes /\ s.slots = g.slots
    BY <1>1, StoreKeeps
  <1>3. Closed(g, parts, slot) = h
    BY DEF Closed
  <1> HIDE DEF s
  <1>4. /\ h \in Graphs /\ h.root = Node(slot)
        /\ h.pool = s.pool /\ h.room = s.room /\ h.nodes = s.nodes /\ h.slots = s.slots
    BY <1>1, <1>2, RootSet
  <1> HIDE DEF h
  <1> QED BY <1>2, <1>3, <1>4 DEF IsClosed

LEMMA StructIs ==
  ASSUME NEW g \in Graphs, NEW parts, NEW walks \in Seq(Walks), Len(parts) \in Nat
  PROVE  BuildStruct(parts, walks, g) \in Graphs
  <1> DEFINE open == Opened(g, parts)
             full == Filled(walks, g.slots, open)
  <1>1. open \in Graphs /\ g.slots \in Nat
    BY OpenedIs, GraphFields
  <1> HIDE DEF open
  <1>2. PICK filled : IsFilled(filled, walks, g.slots, open) /\ full = filled[Len(walks)]
    BY <1>1, FilledDef
  <1>3. full \in Graphs
    <2>1. Len(walks) \in 0 .. Len(walks)
      OBVIOUS
    <2> QED BY <1>2, <2>1 DEF IsFilled
  <1> HIDE DEF full
  <1>4. Closed(full, parts, g.slots) \in Graphs
    BY <1>1, <1>3, ClosedIs DEF IsClosed
  <1>5. [g EXCEPT !.root = Null] \in Graphs
    BY NodeTypes, RootSet
  <1>6. BuildStruct(parts, walks, g) \in {[g EXCEPT !.root = Null], full, Closed(full, parts, g.slots)}
    BY DEF BuildStruct, full, open
  <1> QED BY <1>3, <1>4, <1>5, <1>6

LEMMA BuildNodeDef ==
  /\ BuildNode \in [Layouts -> Walks]
  /\ \A layout \in Layouts : \A g \in Graphs :
       BuildNode[layout][g] =
         CASE layout.form = "name" -> [g EXCEPT !.root = Leaf(layout.name)]
           [] layout.form = "pointer" -> [g EXCEPT !.root = Leaf("pointer")]
           [] OTHER -> BuildStruct(layout.parts, OfParts(layout, BuildNode), g)
  <1> DEFINE T == Walks
             One_(l, f, g) ==
               CASE l.form = "name" -> [g EXCEPT !.root = Leaf(l.name)]
                 [] l.form = "pointer" -> [g EXCEPT !.root = Leaf("pointer")]
                 [] OTHER -> BuildStruct(l.parts, OfParts(l, f), g)
             Body_(l, f) == [g \in Graphs |-> One_(l, f, g)]
             D == [l \in Layouts |-> [f \in [Layouts -> T] |-> Body_(l, f)]]
  <1>1. ASSUME NEW l \in Layouts, NEW f \in [Layouts -> T] PROVE Body_(l, f) \in T
    <2> SUFFICES ASSUME NEW g \in Graphs PROVE One_(l, f, g) \in Graphs
      BY DEF Walks
    <2>1. CASE l.form = "name"
      <3>1. Leaf(l.name) \in FfiTypes
        BY <2>1, NodeTypes DEF Names
      <3> QED BY <2>1, <3>1, RootSet
    <2>2. CASE l.form = "pointer"
      <3>1. Leaf("pointer") \in FfiTypes
        BY NodeTypes
      <3> QED BY <2>2, <3>1, RootSet
    <2>3. CASE l.form # "name" /\ l.form # "pointer"
      <3>1. IsAggregate(l)
        BY <2>3, LayoutsAssumption
      <3>2. Len(l.parts) \in Nat /\ OfParts(l, f) \in Seq(Walks)
        BY <3>1, LayoutFacts, OfPartsIs
      <3>3. BuildStruct(l.parts, OfParts(l, f), g) \in Graphs
        BY <3>2, StructIs
      <3> QED BY <2>3, <3>3
    <2> QED BY <2>1, <2>2, <2>3
  <1>2. ASSUME NEW l \in Layouts, NEW g, NEW h, \A part \in PartsOf(l) : g[part] = h[part]
        PROVE  Body_(l, g) = Body_(l, h)
    <2>1. CASE IsAggregate(l)
      <3>1. \A i \in DOMAIN l.parts : g[l.parts[i]] = h[l.parts[i]]
        BY <1>2, <2>1, LayoutFacts
      <3>2. OfParts(l, g) = OfParts(l, h)
        BY <3>1 DEF OfParts
      <3> QED BY <3>2, Zenon
    <2>2. CASE ~IsAggregate(l)
      <3>1. l.form = "name" \/ l.form = "pointer"
        BY <2>2, LayoutsAssumption
      <3>2. \A x \in Graphs : One_(l, g, x) = One_(l, h, x)
        BY <3>1
      <3> QED BY <3>2
    <2> QED BY <2>1, <2>2
  <1> HIDE DEF Body_, T
  <1>3. IsLayoutRecursion(T, D)
    <2>1. T # {}
      <3>1. [g \in Graphs |-> g] \in T
        BY DEF T, Walks
      <3> QED BY <3>1
    <2> QED BY <1>1, <1>2, <2>1 DEF IsLayoutRecursion
  <1>4. \A l \in Layouts : \A f \in [Layouts -> T] : D[l][f] = Body_(l, f)
    OBVIOUS
  <1> HIDE DEF D
  <1>5. PICK f \in [Layouts -> T] : \A l \in Layouts : f[l] = D[l][f]
    BY <1>3, LayoutRecursion
  <1>6. f = [l \in Layouts |-> Body_(l, f)]
    BY <1>4, <1>5
  <1>7. BuildNode = [l \in Layouts |-> Body_(l, BuildNode)]
    BY <1>6, Zenon DEF BuildNode, Body_, OfParts
  <1>8. BuildNode = f
    <2> DEFINE P == {l \in Layouts : BuildNode[l] = f[l]}
    <2>1. ASSUME NEW l \in Layouts, PartsOf(l) \subseteq P PROVE l \in P
      BY <1>2, <1>6, <1>7, <2>1
    <2>2. P \in SUBSET Layouts
      OBVIOUS
    <2> HIDE DEF P
    <2>3. P = Layouts
      BY <2>1, <2>2, LayoutInduction
    <2> QED BY <1>6, <1>7, <2>3 DEF P
  <1>9. \A l \in Layouts : \A g \in Graphs : BuildNode[l][g] = One_(l, BuildNode, g)
    <2> HIDE DEF One_
    <2> QED BY <1>7 DEF Body_
  <1> QED BY <1>5, <1>8, <1>9 DEF T

-----------------------------------------------------------------------------
(* What libffi reads *)

IsRead(graph, layout, reads, child) ==
  CASE layout.form = "name" -> child = Leaf(layout.name)
    [] layout.form = "pointer" -> child = Leaf("pointer")
    [] OTHER ->
         /\ child.leaf = "node"
         /\ <<child.elements + Len(layout.parts), Null>> \in graph.pool
         /\ \A i \in DOMAIN layout.parts :
              \E part \in reads[layout.parts[i]] : <<child.elements + i - 1, part>> \in graph.pool

LEMMA ReadsDef ==
  ASSUME NEW graph
  PROVE  \A layout \in Layouts :
           Reads(graph)[layout] = {child \in Referred(graph) : IsRead(graph, layout, Reads(graph), child)}
  <1> DEFINE T == SUBSET Referred(graph)
             Body_(l, f) == {child \in Referred(graph) : IsRead(graph, l, f, child)}
             D == [l \in Layouts |-> [f \in [Layouts -> T] |-> Body_(l, f)]]
  <1>1. ASSUME NEW l \in Layouts, NEW f \in [Layouts -> T] PROVE Body_(l, f) \in T
    OBVIOUS
  <1>2. ASSUME NEW l \in Layouts, NEW g, NEW h, \A part \in PartsOf(l) : g[part] = h[part]
        PROVE  Body_(l, g) = Body_(l, h)
    <2>1. CASE IsAggregate(l)
      <3>1. \A i \in DOMAIN l.parts : g[l.parts[i]] = h[l.parts[i]]
        BY <1>2, <2>1, LayoutFacts
      <3>2. \A child : IsRead(graph, l, g, child) <=> IsRead(graph, l, h, child)
        BY <3>1 DEF IsRead
      <3> QED BY <3>2
    <2>2. CASE ~IsAggregate(l)
      <3>1. l.form = "name" \/ l.form = "pointer"
        BY <2>2, LayoutsAssumption
      <3>2. \A child : IsRead(graph, l, g, child) <=> IsRead(graph, l, h, child)
        BY <3>1 DEF IsRead
      <3> QED BY <3>2
    <2> QED BY <2>1, <2>2
  <1> HIDE DEF Body_, T
  <1>3. IsLayoutRecursion(T, D)
    <2>1. T # {}
      <3>1. {} \in T
        BY DEF T
      <3> QED BY <3>1
    <2> QED BY <1>1, <1>2, <2>1 DEF IsLayoutRecursion
  <1>4. \A l \in Layouts : \A f \in [Layouts -> T] : D[l][f] = Body_(l, f)
    OBVIOUS
  <1> HIDE DEF D
  <1>5. PICK f \in [Layouts -> T] : \A l \in Layouts : f[l] = D[l][f]
    BY <1>3, LayoutRecursion
  <1>6. f = [l \in Layouts |-> Body_(l, f)]
    BY <1>4, <1>5
  <1>7. Reads(graph) = [l \in Layouts |-> Body_(l, Reads(graph))]
    BY <1>6, Zenon DEF Reads, Body_, IsRead
  <1> QED BY <1>7 DEF Body_

(* Stores that are added take nothing from what is read. *)
LEMMA ReadsGrow ==
  ASSUME NEW g, NEW h, g.pool \subseteq h.pool
  PROVE  \A layout \in Layouts : Reads(g)[layout] \cap Referred(h) \subseteq Reads(h)[layout]
  <1> DEFINE P == {l \in Layouts : Reads(g)[l] \cap Referred(h) \subseteq Reads(h)[l]}
  <1>1. ASSUME NEW l \in Layouts, PartsOf(l) \subseteq P PROVE l \in P
    <2> SUFFICES ASSUME NEW child \in Reads(g)[l], child \in Referred(h) PROVE child \in Reads(h)[l]
      OBVIOUS
    <2>1. IsRead(g, l, Reads(g), child)
      BY ReadsDef
    <2>2. IsRead(h, l, Reads(h), child)
      <3>1. CASE l.form = "name" \/ l.form = "pointer"
        BY <2>1, <3>1 DEF IsRead
      <3>2. CASE l.form # "name" /\ l.form # "pointer"
        <4>1. IsAggregate(l)
          BY <3>2, LayoutsAssumption
        <4>2. ASSUME NEW i \in DOMAIN l.parts
              PROVE  \E part \in Reads(h)[l.parts[i]] : <<child.elements + i - 1, part>> \in h.pool
          <5>1. PICK part \in Reads(g)[l.parts[i]] : <<child.elements + i - 1, part>> \in g.pool
            BY <2>1, <3>2 DEF IsRead
          <5>2. <<child.elements + i - 1, part>> \in h.pool
            BY <5>1
          <5>3. part \in Referred(h)
            <6> DEFINE store == <<child.elements + i - 1, part>>
            <6>1. store[2] = part /\ store \in h.pool
              BY <5>2
            <6> HIDE DEF store
            <6> QED BY <6>1 DEF Referred
          <5>4. l.parts[i] \in P
            BY <1>1, <4>1, LayoutFacts
          <5> QED BY <5>1, <5>2, <5>3, <5>4
        <4>3. child.leaf = "node" /\ <<child.elements + Len(l.parts), Null>> \in h.pool
          BY <2>1, <3>2 DEF IsRead
        <4> QED BY <3>2, <4>2, <4>3 DEF IsRead
      <3> QED BY <3>1, <3>2
    <2> QED BY <2>2, ReadsDef
  <1>2. P \in SUBSET Layouts
    OBVIOUS
  <1> HIDE DEF P
  <1>3. P = Layouts
    BY <1>1, <1>2, LayoutInduction
  <1> QED BY <1>3 DEF P

-----------------------------------------------------------------------------
(* What a walk leaves behind *)

SlotsOf(pool) == {store[1] : store \in pool}
Once(pool) == \A a, b \in pool : a[1] = b[1] => a = b

LEMMA OneMore ==
  ASSUME NEW pool \in SUBSET (Nat \X FfiTypes), Once(pool),
         NEW slot \in Nat, slot \notin SlotsOf(pool), NEW child \in FfiTypes
  PROVE  /\ Once(pool \cup {<<slot, child>>})
         /\ SlotsOf(pool \cup {<<slot, child>>}) = SlotsOf(pool) \cup {slot}
  <1>1. \A a \in pool : a[1] # slot
    BY DEF SlotsOf
  <1>2. Once(pool \cup {<<slot, child>>})
    <2> DEFINE new == <<slot, child>>
    <2>1. new[1] = slot
      OBVIOUS
    <2> HIDE DEF new
    <2>2. Once(pool \cup {new})
      BY <1>1, <2>1 DEF Once
    <2> QED BY <2>2 DEF new
  <1>3. SlotsOf(pool \cup {<<slot, child>>}) = SlotsOf(pool) \cup {slot}
    <2> DEFINE new == <<slot, child>>
    <2>1. new[1] = slot
      OBVIOUS
    <2> HIDE DEF new
    <2>2. SlotsOf(pool \cup {new}) = SlotsOf(pool) \cup {slot}
      BY <2>1 DEF SlotsOf
    <2> QED BY <2>2 DEF new
  <1> QED BY <1>2, <1>3

(* The walk of the layout has room in the block, and no slot that is yet to  *)
(* be taken was stored to.                                                  *)
Fits(layout, g) ==
  /\ g.nodes + Counted[layout].nodes <= g.room.nodes
  /\ Once(g.pool) /\ \A slot \in SlotsOf(g.pool) : slot < g.slots

(* It took what was counted for it, stored once to each slot it took, and    *)
(* returned what reads as the layout.                                       *)
Walked(layout, g, h) ==
  /\ h.room = g.room
  /\ h.nodes = g.nodes + Counted[layout].nodes
  /\ h.slots = g.slots + Counted[layout].slots
  /\ h.root # Null /\ g.pool \subseteq h.pool
  /\ Once(h.pool) /\ SlotsOf(h.pool) = SlotsOf(g.pool) \cup (g.slots .. h.slots - 1)
  /\ h.root \in Reads(h)[layout]

Fills(layout) == \A g \in Graphs : Fits(layout, g) => Walked(layout, g, BuildNode[layout][g])

LEMMA RootIsReferred ==
  ASSUME NEW g
  PROVE  /\ g.root \in Referred(g)
         /\ \A slot, child : <<slot, child>> \in g.pool => child \in Referred(g)
  <1>1. ASSUME NEW slot, NEW child, <<slot, child>> \in g.pool PROVE child \in Referred(g)
    <2> DEFINE store == <<slot, child>>
    <2>1. store[2] = child /\ store \in g.pool
      BY <1>1
    <2> HIDE DEF store
    <2> QED BY <2>1 DEF Referred
  <1> QED BY <1>1 DEF Referred

LEMMA LeafFills ==
  ASSUME NEW layout \in Layouts, ~IsAggregate(layout)
  PROVE  Fills(layout)
  <1> SUFFICES ASSUME NEW g \in Graphs, Fits(layout, g) PROVE Walked(layout, g, BuildNode[layout][g])
    BY DEF Fills
  <1> DEFINE h == BuildNode[layout][g]
  <1>1. Counted[layout].nodes = 0 /\ Counted[layout].slots = 0
    BY CountedDef DEF Zero
  <1>2. layout.form = "name" \/ layout.form = "pointer"
    BY LayoutsAssumption
  <1> DEFINE leaf == IF layout.form = "name" THEN Leaf(layout.name) ELSE Leaf("pointer")
  <1>3. leaf \in FfiTypes /\ leaf # Null
    <2>1. CASE layout.form = "name"
      <3>1. layout.name \in Names /\ layout.name # "null"
        BY <2>1, LayoutsAssumption DEF Names
      <3> QED BY <2>1, <3>1, NodeTypes
    <2>2. CASE layout.form = "pointer"
      BY <2>2, NodeTypes
    <2> QED BY <1>2, <2>1, <2>2
  <1>4. h = [g EXCEPT !.root = leaf]
    BY <1>2, BuildNodeDef
  <1>5. IsRead(h, layout, Reads(h), leaf)
    BY <1>2 DEF IsRead
  <1> HIDE DEF h, leaf
  <1>6. h.root = leaf /\ h.pool = g.pool /\ h.room = g.room /\ h.nodes = g.nodes /\ h.slots = g.slots
    BY <1>3, <1>4, RootSet
  <1>7. h.root \in Reads(h)[layout]
    BY <1>5, <1>6, RootIsReferred, ReadsDef
  <1>8. g.nodes \in Nat /\ g.slots \in Nat
    BY GraphFields
  <1>9. SlotsOf(h.pool) = SlotsOf(g.pool) \cup (g.slots .. h.slots - 1)
    <2>1. g.slots .. h.slots - 1 = {}
      BY <1>6, <1>8
    <2> QED BY <1>6, <2>1
  <1>10. Walked(layout, g, h)
    BY <1>1, <1>3, <1>6, <1>7, <1>8, <1>9 DEF Walked, Fits
  <1> QED BY <1>10 DEF h

(* Where the walk of an aggregate is after i of its elements. *)
After(layout, g, total, i, f) ==
  /\ f.room = g.room
  /\ f.nodes = g.nodes + total[i].nodes
  /\ f.slots = g.slots + total[i].slots
  /\ f.root # Null /\ g.pool \subseteq f.pool
  /\ Once(f.pool)
  /\ SlotsOf(f.pool) = SlotsOf(g.pool) \cup (g.slots .. g.slots + i - 1)
                         \cup (g.slots + Len(layout.parts) + 1 .. f.slots - 1)
  /\ \A j \in 1 .. i :
       \E part \in Reads(f)[layout.parts[j]] : <<g.slots + j - 1, part>> \in f.pool

LEMMA TotalsFit ==
  ASSUME NEW layout \in Layouts, IsAggregate(layout), NEW total,
         IsTotal(total, OwnOf(layout), OfParts(layout, Counted)),
         Counted[layout] = total[Len(layout.parts)],
         NEW i \in 0 .. Len(layout.parts)
  PROVE  /\ total[i].nodes \in Nat /\ total[i].slots \in Nat
         /\ total[i].nodes <= Counted[layout].nodes
         /\ 1 <= total[i].nodes /\ Len(layout.parts) + 1 <= total[i].slots
         /\ total[0].nodes = 1 /\ total[0].slots = Len(layout.parts) + 1
         /\ i # 0 => /\ total[i].nodes = total[i - 1].nodes + Counted[layout.parts[i]].nodes
                     /\ total[i].slots = total[i - 1].slots + Counted[layout.parts[i]].slots
                     /\ Counted[layout.parts[i]].nodes \in Nat /\ Counted[layout.parts[i]].slots \in Nat
  <1> DEFINE n == Len(layout.parts)
             counts == OfParts(layout, Counted)
             own == OwnOf(layout)
  <1>1. /\ n \in Nat /\ counts \in Seq(Counts) /\ Len(counts) = n
        /\ \A k \in 1 .. n : counts[k] = Counted[layout.parts[k]] /\ layout.parts[k] \in Layouts
    BY LayoutFacts, OfPartsIs, CountedDef
  <1>2. own.nodes = 1 /\ own.slots = n + 1
    BY DEF OwnOf
  <1>3. /\ IsTotal(total, own, counts) /\ i \in 0 .. n /\ Counted[layout] = total[n]
    OBVIOUS
  <1> HIDE DEF n, counts, own
  <1>4. total \in [0 .. n -> Counts] /\ total[0] = own
    BY <1>1, <1>3 DEF IsTotal
  <1>5. \A k \in 0 .. n : total[k] \in Counts /\ total[k].nodes \in Nat /\ total[k].slots \in Nat
    BY <1>4 DEF Counts
  <1>6. total[i].nodes <= total[n].nodes
    <2>1. i \in 0 .. Len(counts) /\ n \in 0 .. Len(counts) /\ i <= n
      BY <1>1, <1>3
    <2> QED BY <1>1, <1>3, <2>1, TotalGrows
  <1>7. total[0].nodes <= total[i].nodes /\ total[0].slots <= total[i].slots
    <2>1. i \in 0 .. Len(counts) /\ 0 \in 0 .. Len(counts) /\ 0 <= i
      BY <1>1, <1>3
    <2>2. PICK z \in 0 .. Len(counts) : z = 0
      BY <2>1
    <2>3. total[z].nodes <= total[i].nodes /\ total[z].slots <= total[i].slots
      BY <1>1, <1>3, <2>1, <2>2, TotalGrows
    <2> QED BY <2>2, <2>3
  <1>8. ASSUME i # 0
        PROVE  /\ total[i].nodes = total[i - 1].nodes + Counted[layout.parts[i]].nodes
               /\ total[i].slots = total[i - 1].slots + Counted[layout.parts[i]].slots
               /\ Counted[layout.parts[i]].nodes \in Nat /\ Counted[layout.parts[i]].slots \in Nat
    <2>1. i \in 1 .. n /\ i - 1 \in 0 .. n
      BY <1>1, <1>3, <1>8
    <2>2. total[i] = Plus(total[i - 1], counts[i])
      <3>1. \A k \in 1 .. Len(counts) : total[k] = Plus(total[k - 1], counts[k])
        BY <1>3, Zenon DEF IsTotal
      <3>2. i \in 1 .. Len(counts)
        BY <1>1, <2>1
      <3> QED BY <3>1, <3>2, Zenon
    <2>3. counts[i] \in Counts /\ counts[i] = Counted[layout.parts[i]] /\ total[i - 1] \in Counts
      BY <1>1, <1>5, <2>1
    <2> DEFINE a == total[i - 1]
               b == counts[i]
    <2>4. total[i] = Plus(a, b) /\ a \in Counts /\ b \in Counts
      BY <2>2, <2>3
    <2>5. b = Counted[layout.parts[i]]
      BY <2>3
    <2> HIDE DEF a, b
    <2>6. /\ total[i].nodes = a.nodes + b.nodes /\ total[i].slots = a.slots + b.slots
          /\ b.nodes \in Nat /\ b.slots \in Nat
      BY <2>4, PlusGrows
    <2> QED BY <2>5, <2>6 DEF a
  <1>9. total[i].nodes \in Nat /\ total[i].slots \in Nat
    BY <1>3, <1>5
  <1>10. total[0].nodes = 1 /\ total[0].slots = n + 1
    BY <1>2, <1>4
  <1> QED BY <1>3, <1>6, <1>7, <1>8, <1>9, <1>10 DEF n

(* Where it stores the result of an element, nothing was stored before. *)
LEMMA ElementFills ==
  ASSUME NEW layout \in Layouts, IsAggregate(layout), NEW g \in Graphs, Fits(layout, g), NEW total,
         IsTotal(total, OwnOf(layout), OfParts(layout, Counted)),
         Counted[layout] = total[Len(layout.parts)],
         NEW i \in 1 .. Len(layout.parts), Fills(layout.parts[i]),
         NEW f \in Graphs, After(layout, g, total, i - 1, f)
  PROVE  After(layout, g, total, i, Element(BuildNode[layout.parts[i]], g.slots + i - 1, f))
  <1> DEFINE n == Len(layout.parts)
             part == layout.parts[i]
             nodes == Counted[part].nodes
             slots == Counted[part].slots
             h == BuildNode[part][f]
             slot == g.slots + i - 1
             k == Element(BuildNode[part], slot, f)
  <1>1. n \in Nat /\ i \in 1 .. n /\ i \in 0 .. n /\ i - 1 \in 0 .. n /\ i # 0 /\ part \in Layouts
    BY LayoutFacts
  <1>2. /\ total[i].nodes \in Nat /\ total[i].slots \in Nat
        /\ total[i].nodes <= Counted[layout].nodes
        /\ total[i].nodes = total[i - 1].nodes + nodes /\ total[i].slots = total[i - 1].slots + slots
        /\ nodes \in Nat /\ slots \in Nat
    BY <1>1, TotalsFit
  <1>3. total[i - 1].nodes \in Nat /\ total[i - 1].slots \in Nat /\ n + 1 <= total[i - 1].slots
    <2>1. PICK j \in 0 .. n : j = i - 1
      BY <1>1
    <2>2. total[j].nodes \in Nat /\ total[j].slots \in Nat /\ n + 1 <= total[j].slots
      BY TotalsFit
    <2> QED BY <2>1, <2>2
  <1>4. /\ g.nodes \in Nat /\ g.slots \in Nat /\ g.room.nodes \in Nat
        /\ Counted[layout].nodes \in Nat
    <2>1. Counted[layout] \in Counts
      BY CountedDef
    <2> QED BY <2>1, GraphFields DEF Counts
  <1>5. /\ f.room = g.room /\ f.nodes = g.nodes + total[i - 1].nodes
        /\ f.slots = g.slots + total[i - 1].slots
    BY DEF After
  <1>6. /\ f.root # Null /\ g.pool \subseteq f.pool /\ Once(f.pool)
         /\ SlotsOf(f.pool) = SlotsOf(g.pool) \cup (g.slots .. g.slots + (i - 1) - 1)
                                \cup (g.slots + n + 1 .. f.slots - 1)
         /\ \A j \in 1 .. i - 1 :
              \E p \in Reads(f)[layout.parts[j]] : <<g.slots + j - 1, p>> \in f.pool
    BY DEF After
  <1>7. \A s \in SlotsOf(g.pool) : s < g.slots
    BY DEF Fits
  <1>8. h \in Graphs
    <2>1. BuildNode[part] \in Walks
      BY <1>1, BuildNodeDef
    <2> QED BY <2>1 DEF Walks
  <1>9. SlotsOf(g.pool) \subseteq Nat
    BY GraphFields DEF SlotsOf
  <1>10. Fills(part)
    OBVIOUS
  <1> HIDE DEF n, part, h, nodes, slots
  <1>11. Fits(part, f)
    <2>1. f.nodes + nodes <= f.room.nodes
      <3>1. g.nodes + Counted[layout].nodes <= g.room.nodes
        BY DEF Fits
      <3> DEFINE a == total[i - 1].nodes
                 b == total[i].nodes
                 c == Counted[layout].nodes
                 x == g.nodes
      <3>2. /\ a \in Nat /\ b \in Nat /\ c \in Nat /\ x \in Nat /\ nodes \in Nat /\ g.room.nodes \in Nat
            /\ b = a + nodes /\ b <= c /\ x + c <= g.room.nodes /\ f.nodes = x + a
        BY <1>2, <1>3, <1>4, <1>5, <3>1
      <3> HIDE DEF a, b, c, x
      <3>3. f.nodes + nodes <= g.room.nodes
        BY <3>2
      <3> QED BY <1>5, <3>3
    <2>2. ASSUME NEW s \in SlotsOf(f.pool) PROVE s < f.slots
      <3>1. CASE s \in SlotsOf(g.pool)
        BY <1>3, <1>4, <1>5, <1>7, <1>9, <1>6, <3>1
      <3>2. CASE s \in g.slots .. g.slots + (i - 1) - 1
        BY <1>1, <1>3, <1>4, <1>5, <3>2
      <3>3. CASE s \in g.slots + n + 1 .. f.slots - 1
        BY <1>1, <1>3, <1>4, <1>5, <3>3
      <3> QED BY <1>6, <3>1, <3>2, <3>3
    <2> QED BY <1>6, <2>1, <2>2 DEF Fits, nodes
  <1>12. Walked(part, f, h)
    BY <1>10, <1>11 DEF Fills, h
  <1>13. /\ h.room = f.room /\ h.nodes = f.nodes + nodes /\ h.slots = f.slots + slots
    BY <1>12 DEF Walked, nodes, slots
  <1>14. /\ h.root # Null /\ f.pool \subseteq h.pool /\ Once(h.pool)
         /\ SlotsOf(h.pool) = SlotsOf(f.pool) \cup (f.slots .. h.slots - 1)
         /\ h.root \in Reads(h)[part]
    BY <1>12 DEF Walked
  <1>15. slot \in Nat
    BY <1>1, <1>4
  <1>16. slot \notin SlotsOf(h.pool)
    <2>1. slot \notin SlotsOf(g.pool)
      BY <1>1, <1>4, <1>7
    <2>2. slot \notin g.slots .. g.slots + (i - 1) - 1 /\ slot \notin g.slots + n + 1 .. f.slots - 1
      BY <1>1, <1>4
    <2>3. slot \notin f.slots .. h.slots - 1
      BY <1>1, <1>3, <1>4, <1>5
    <2> QED BY <1>14, <1>6, <2>1, <2>2, <2>3
  <1>17. k = Store(h, slot, h.root)
    BY <1>14, <1>6 DEF Element, h
  <1>18. g.slots .. slot = (g.slots .. g.slots + (i - 1) - 1) \cup {slot}
    <2> DEFINE x == g.slots
    <2>1. x \in Nat /\ i \in Nat /\ 1 <= i /\ slot = x + i - 1
      BY <1>1, <1>4
    <2> HIDE DEF x, slot
    <2>2. x + (i - 1) - 1 = slot - 1 /\ slot \in Nat /\ x <= slot
      BY <2>1
    <2>3. x .. slot = (x .. slot - 1) \cup {slot}
      BY <2>1, <2>2
    <2> QED BY <2>2, <2>3 DEF x
  <1>19. g.slots + n + 1 .. h.slots - 1 = (g.slots + n + 1 .. f.slots - 1) \cup (f.slots .. h.slots - 1)
    <2> DEFINE a == total[i - 1].slots
               x == g.slots
    <2>1. /\ a \in Nat /\ x \in Nat /\ n \in Nat /\ slots \in Nat
          /\ n + 1 <= a /\ f.slots = x + a /\ h.slots = f.slots + slots
      BY <1>1, <1>2, <1>3, <1>4, <1>5, <1>13
    <2> HIDE DEF a, x
    <2>2. /\ x + n + 1 \in Int /\ f.slots \in Int /\ h.slots \in Int
          /\ x + n + 1 <= f.slots /\ f.slots <= h.slots
      BY <2>1
    <2> DEFINE p == x + n + 1
               q == f.slots
               r == h.slots
    <2>3. p \in Int /\ q \in Int /\ r \in Int /\ p <= q /\ q <= r
      BY <2>2
    <2> HIDE DEF p, q, r
    <2>4. p .. r - 1 = (p .. q - 1) \cup (q .. r - 1)
      BY <2>3
    <2> QED BY <2>4 DEF x, p, q, r
  <1>20. g.slots + i - 1 = slot
    OBVIOUS
  <1> HIDE DEF slot, k
  <1>21. h.root \in FfiTypes /\ h.pool \in SUBSET (Nat \X FfiTypes)
    BY <1>8, GraphFields
  <1>22. /\ k.pool = h.pool \cup {<<slot, h.root>>} /\ k.room = h.room
         /\ k.nodes = h.nodes /\ k.slots = h.slots /\ k.root = h.root
    BY <1>8, <1>15, <1>17, <1>21, StoreKeeps
  <1>23. Once(k.pool) /\ SlotsOf(k.pool) = SlotsOf(h.pool) \cup {slot}
    <2> DEFINE pool == h.pool
               child == h.root
    <2>1. pool \in SUBSET (Nat \X FfiTypes) /\ Once(pool) /\ slot \notin SlotsOf(pool) /\ child \in FfiTypes
      BY <1>14, <1>16, <1>21
    <2>2. k.pool = pool \cup {<<slot, child>>}
      BY <1>22
    <2> HIDE DEF pool, child
    <2>3. /\ Once(pool \cup {<<slot, child>>})
          /\ SlotsOf(pool \cup {<<slot, child>>}) = SlotsOf(pool) \cup {slot}
      BY <1>15, <2>1, OneMore, Zenon
    <2>4. Once(k.pool) /\ SlotsOf(k.pool) = SlotsOf(pool) \cup {slot}
      BY <2>2, <2>3, Zenon
    <2> QED BY <2>4 DEF pool
  <1>24. SlotsOf(k.pool) = SlotsOf(g.pool) \cup (g.slots .. slot) \cup (g.slots + n + 1 .. k.slots - 1)
    BY <1>14, <1>18, <1>19, <1>22, <1>23, <1>6
  <1>25. ASSUME NEW j \in 1 .. i
         PROVE  \E p \in Reads(k)[layout.parts[j]] : <<g.slots + j - 1, p>> \in k.pool
    <2>1. CASE j = i
      <3>1. h.root \in Referred(k)
        BY <1>22, RootIsReferred
      <3>2. h.root \in Reads(k)[part]
        BY <1>1, <1>14, <1>22, <3>1, ReadsGrow
      <3>3. <<slot, h.root>> \in k.pool
        BY <1>22
      <3> QED BY <1>20, <2>1, <3>2, <3>3 DEF part
    <2>2. CASE j # i
      <3>1. j \in 1 .. i - 1
        BY <1>1, <2>2
      <3>2. PICK p \in Reads(f)[layout.parts[j]] : <<g.slots + j - 1, p>> \in f.pool
        BY <1>6, <3>1
      <3>3. <<g.slots + j - 1, p>> \in k.pool /\ f.pool \subseteq k.pool
        BY <1>14, <1>22, <3>2
      <3>4. p \in Referred(k)
        BY <3>3, RootIsReferred
      <3>5. layout.parts[j] \in Layouts
        <4>1. j \in 1 .. n
          BY <1>1, <3>1
        <4> QED BY <4>1, LayoutFacts DEF n
      <3>6. p \in Reads(k)[layout.parts[j]]
        BY <3>2, <3>3, <3>4, <3>5, ReadsGrow
      <3> QED BY <3>3, <3>6
    <2> QED BY <2>1, <2>2
  <1>26. /\ k.nodes = g.nodes + total[i].nodes /\ k.slots = g.slots + total[i].slots
    <2> DEFINE a == total[i - 1].nodes
               b == total[i - 1].slots
               x == g.nodes
               y == g.slots
    <2>1. /\ a \in Nat /\ b \in Nat /\ x \in Nat /\ y \in Nat /\ nodes \in Nat /\ slots \in Nat
          /\ k.nodes = (x + a) + nodes /\ k.slots = (y + b) + slots
          /\ total[i].nodes = a + nodes /\ total[i].slots = b + slots
      BY <1>2, <1>3, <1>4, <1>5, <1>22, <1>13
    <2> HIDE DEF a, b, x, y
    <2>2. \A p, q, r \in Nat : (p + q) + r = p + (q + r)
      OBVIOUS
    <2>3. k.nodes = x + total[i].nodes /\ k.slots = y + total[i].slots
      BY <2>1, <2>2
    <2> QED BY <2>3 DEF x, y
  <1>27. k.room = g.room /\ k.root # Null /\ g.pool \subseteq k.pool
    BY <1>5, <1>14, <1>22, <1>6, <1>13
  <1>28. g.slots + i - 1 = slot
    BY <1>20
  <1>29. After(layout, g, total, i, k)
    BY <1>23, <1>24, <1>25, <1>26, <1>27, <1>28 DEF After, n
  <1> QED BY <1>29 DEF k, part, slot

(* The null goes to the one slot that is left, and the node reads as the     *)
(* layout.                                                                 *)
LEMMA ClosingFills ==
  ASSUME NEW layout \in Layouts, IsAggregate(layout), NEW g \in Graphs, Fits(layout, g), NEW total,
         Counted[layout] = total[Len(layout.parts)],
         Counted[layout].slots \in Nat, Len(layout.parts) + 1 <= Counted[layout].slots,
         NEW full \in Graphs, After(layout, g, total, Len(layout.parts), full)
  PROVE  Walked(layout, g, Closed(full, layout.parts, g.slots))
  <1> DEFINE parts == layout.parts
             n == Len(parts)
             h == Closed(full, parts, g.slots)
             x == g.slots
             y == full.slots
             pool == full.pool
             kept == SlotsOf(g.pool)
  <1>1. n \in Nat /\ DOMAIN parts = 1 .. n /\ \A i \in 1 .. n : parts[i] \in Layouts
    BY LayoutFacts
  <1>2. x \in Nat /\ y \in Nat /\ pool \in SUBSET (Nat \X FfiTypes) /\ Null \in FfiTypes
    BY GraphFields, NodeTypes
  <1>3. \A s \in kept : s < x
    BY DEF Fits
  <1>4. /\ full.room = g.room /\ full.nodes = g.nodes + Counted[layout].nodes
        /\ y = x + Counted[layout].slots
    BY DEF After
  <1>5. g.pool \subseteq pool /\ Once(pool)
    BY DEF After
  <1>6. SlotsOf(pool) = kept \cup (x .. x + n - 1) \cup (x + n + 1 .. y - 1)
    BY DEF After
  <1>7. \A j \in 1 .. n : \E part \in Reads(full)[parts[j]] : <<x + j - 1, part>> \in pool
    BY DEF After
  <1>8. Counted[layout].slots \in Nat /\ n + 1 <= Counted[layout].slots
    OBVIOUS
  <1> HIDE DEF n, x, y, pool, kept
  <1>9. /\ h.root = Node(x) /\ h.pool = pool \cup {<<x + n, Null>>}
        /\ h.room = full.room /\ h.nodes = full.nodes /\ h.slots = y
    <2>1. full \in Graphs /\ Len(parts) \in Nat /\ g.slots \in Nat
      BY <1>1, <1>2 DEF n, x
    <2> HIDE DEF parts
    <2>2. /\ h.root = Node(g.slots) /\ h.pool = full.pool \cup {<<g.slots + Len(parts), Null>>}
          /\ h.room = full.room /\ h.nodes = full.nodes /\ h.slots = full.slots
      <3>1. IsClosed(Closed(full, parts, g.slots), full, parts, g.slots)
        BY <2>1, ClosedIs
      <3> QED BY <3>1 DEF IsClosed
    <2> QED BY <2>2 DEF n, x, y, pool
  <1> HIDE DEF h
  <1>10. h.root # Null
    BY <1>2, <1>9, NodeTypes
  <1>11. Once(h.pool) /\ SlotsOf(h.pool) = kept \cup (x .. h.slots - 1)
    <2> DEFINE slot == x + n
    <2>1. slot \in Nat /\ slot < y /\ x <= slot
      BY <1>1, <1>2, <1>4, <1>8
    <2>2. slot - 1 = x + n - 1 /\ slot + 1 = x + n + 1
      BY <1>1, <1>2
    <2>3. SlotsOf(pool) = kept \cup (x .. slot - 1) \cup (slot + 1 .. y - 1)
      BY <1>6, <2>2, Zenon
    <2>4. h.pool = pool \cup {<<slot, Null>>}
      BY <1>9
    <2> HIDE DEF slot
    <2>5. slot \notin SlotsOf(pool)
      <3>1. slot \notin kept
        BY <1>2, <1>3, <2>1
      <3> QED BY <2>1, <2>3, <3>1
    <2>6. /\ Once(pool \cup {<<slot, Null>>})
          /\ SlotsOf(pool \cup {<<slot, Null>>}) = SlotsOf(pool) \cup {slot}
      BY <1>2, <1>5, <2>1, <2>5, OneMore, Zenon
    <2>7. x .. y - 1 = (x .. slot - 1) \cup {slot} \cup (slot + 1 .. y - 1)
      BY <1>2, <2>1
    <2> QED BY <1>9, <2>3, <2>4, <2>6, <2>7
  <1>12. h.root \in Reads(h)[layout]
    <2> DEFINE child == Node(x)
    <2>1. child.leaf = "node" /\ child.elements = x
      BY <1>2, NodeTypes
    <2>2. <<x + n, Null>> \in h.pool /\ full.pool \subseteq h.pool
      BY <1>9 DEF pool
    <2>3. ASSUME NEW j \in 1 .. n
          PROVE  \E part \in Reads(h)[parts[j]] : <<x + j - 1, part>> \in h.pool
      <3>1. PICK part \in Reads(full)[parts[j]] : <<x + j - 1, part>> \in pool
        BY <1>7
      <3>2. <<x + j - 1, part>> \in h.pool
        BY <1>9, <3>1
      <3>3. part \in Referred(h) /\ parts[j] \in Layouts
        BY <1>1, <3>2, RootIsReferred
      <3>4. part \in Reads(h)[parts[j]]
        <4> DEFINE l == parts[j]
        <4>1. l \in Layouts /\ part \in Reads(full)[l]
          BY <3>1, <3>3
        <4> HIDE DEF l
        <4>2. part \in Reads(h)[l]
          BY <2>2, <3>3, <4>1, ReadsGrow
        <4> QED BY <4>2 DEF l
      <3> QED BY <3>2, <3>4
    <2>4. layout.form # "name" /\ layout.form # "pointer"
      BY DEF IsAggregate
    <2>5. h.root = child
      BY <1>9
    <2> HIDE DEF child
    <2>6. IsRead(h, layout, Reads(h), child)
      BY <1>1, <2>1, <2>2, <2>3, <2>4 DEF IsRead, n
    <2> QED BY <2>5, <2>6, RootIsReferred, ReadsDef
  <1>13. g.pool \subseteq h.pool
    BY <1>5, <1>9
  <1>14. Walked(layout, g, h)
    BY <1>4, <1>9, <1>10, <1>11, <1>12, <1>13 DEF Walked, x, y, kept
  <1> QED BY <1>14 DEF h

LEMMA AggregateFills ==
  ASSUME NEW layout \in Layouts, IsAggregate(layout), \A part \in PartsOf(layout) : Fills(part)
  PROVE  Fills(layout)
  <1> SUFFICES ASSUME NEW g \in Graphs, Fits(layout, g) PROVE Walked(layout, g, BuildNode[layout][g])
    BY DEF Fills
  <1> DEFINE n == Len(layout.parts)
             walks == OfParts(layout, BuildNode)
             open == Opened(g, layout.parts)
             h == BuildNode[layout][g]
  <1>1. PICK total : /\ IsTotal(total, OwnOf(layout), OfParts(layout, Counted))
                     /\ Counted[layout] = total[n]
    BY CountsAddUp
  <1>2. /\ n \in Nat /\ walks \in Seq(Walks) /\ Len(walks) = n
        /\ \A i \in 1 .. n : walks[i] = BuildNode[layout.parts[i]]
    BY LayoutFacts, OfPartsIs, BuildNodeDef
  <1>3. g.nodes \in Nat /\ g.slots \in Nat /\ g.room.nodes \in Nat /\ SlotsOf(g.pool) \subseteq Nat
    BY GraphFields DEF SlotsOf
  <1>4. /\ open \in Graphs /\ open.pool = g.pool /\ open.room = g.room /\ open.nodes = g.nodes + 1
        /\ open.slots = g.slots + n + 1 /\ open.root = Node(g.slots)
    BY <1>2, OpenedIs
  <1>5. /\ total[0].nodes = 1 /\ total[0].slots = n + 1
        /\ Counted[layout].nodes \in Nat /\ Counted[layout].slots \in Nat
        /\ 1 <= Counted[layout].nodes /\ n + 1 <= Counted[layout].slots
    <2>1. n \in 0 .. n
      BY <1>2
    <2> QED BY <1>1, <2>1, TotalsFit
  <1>6. PICK filled : IsFilled(filled, walks, g.slots, open) /\ Filled(walks, g.slots, open) = filled[n]
    <2> HIDE DEF open, walks
    <2> DEFINE start == g.slots
    <2>1. start \in Nat /\ open \in Graphs /\ walks \in Seq(Walks)
      BY <1>2, <1>3, <1>4
    <2> HIDE DEF start, n
    <2>2. \E filled : IsFilled(filled, walks, start, open) /\ Filled(walks, start, open) = filled[Len(walks)]
      BY <2>1, FilledDef, Zenon
    <2> QED BY <1>2, <2>2, Zenon DEF start
  <1>7. filled \in [0 .. n -> Graphs] /\ filled[0] = open
    BY <1>2, <1>6 DEF IsFilled
  <1>8. \A i \in 1 .. n : filled[i] = Element(BuildNode[layout.parts[i]], g.slots + i - 1, filled[i - 1])
    BY <1>2, <1>6 DEF IsFilled
  <1> HIDE DEF open, walks
  <1> DEFINE N == {i \in Nat : i <= n => After(layout, g, total, i, filled[i])}
  <1>9. 0 \in N
    <2>1. Once(g.pool)
      BY DEF Fits
    <2>2. open.root # Null
      BY <1>3, <1>4, NodeTypes
    <2>3. /\ g.slots .. g.slots + 0 - 1 = {} /\ 1 .. 0 = {}
          /\ g.slots + n + 1 .. (g.slots + n + 1) - 1 = {}
      BY <1>2, <1>3
    <2>4. open.slots = g.slots + total[0].slots /\ open.nodes = g.nodes + total[0].nodes
      <3> DEFINE x == g.slots
                 y == g.nodes
      <3>1. x \in Nat /\ y \in Nat /\ n \in Nat
        BY <1>2, <1>3
      <3>2. open.slots = x + n + 1 /\ open.nodes = y + 1
        BY <1>4
      <3> HIDE DEF x, y, n
      <3>3. open.slots = x + (n + 1)
        BY <3>1, <3>2
      <3> QED BY <1>5, <3>2, <3>3 DEF x, y
    <2>5. SlotsOf(open.pool) = SlotsOf(g.pool) \cup (g.slots .. g.slots + 0 - 1)
                                 \cup (g.slots + n + 1 .. open.slots - 1)
      <3> DEFINE z == g.slots + n + 1
      <3>1. open.slots = z /\ open.pool = g.pool /\ z .. z - 1 = {}
        BY <1>4, <2>3
      <3> HIDE DEF z
      <3>2. z .. open.slots - 1 = {}
        BY <3>1
      <3> QED BY <2>3, <3>1, <3>2 DEF z
    <2>6. After(layout, g, total, 0, open)
      BY <1>4, <2>1, <2>2, <2>3, <2>4, <2>5 DEF After
    <2> QED BY <1>7, <2>6
  <1>10. ASSUME NEW m \in N PROVE m + 1 \in N
    <2> SUFFICES ASSUME m + 1 <= n PROVE After(layout, g, total, m + 1, filled[m + 1])
      OBVIOUS
    <2>1. PICK i \in 1 .. n : i = m + 1
      BY <1>2
    <2>2. i - 1 = m /\ m \in 0 .. n /\ After(layout, g, total, m, filled[m])
      BY <1>2, <2>1
    <2> DEFINE f == filled[m]
    <2>3. f \in Graphs /\ After(layout, g, total, i - 1, f)
      BY <1>7, <2>2
    <2>4. Fills(layout.parts[i])
      BY LayoutFacts
    <2>5. filled[i] = Element(BuildNode[layout.parts[i]], g.slots + i - 1, f)
      BY <1>8, <2>2
    <2> HIDE DEF f
    <2>6. After(layout, g, total, i, Element(BuildNode[layout.parts[i]], g.slots + i - 1, f))
      BY <1>1, <2>3, <2>4, ElementFills
    <2> QED BY <2>1, <2>5, <2>6
  <1>11. N \in SUBSET Nat
    OBVIOUS
  <1> HIDE DEF N
  <1>12. N = Nat
    BY <1>9, <1>10, <1>11, SetInduction
  <1> DEFINE full == filled[n]
  <1>13. full \in Graphs /\ After(layout, g, total, n, full)
    <2>1. n \in N /\ n <= n /\ n \in 0 .. n
      BY <1>2, <1>12
    <2> QED BY <1>7, <2>1 DEF N
  <1> HIDE DEF full
  <1>14. full.root # Null
    BY <1>13 DEF After
  <1>15. h = Closed(full, layout.parts, g.slots)
    <2>1. layout.form # "name" /\ layout.form # "pointer"
      BY DEF IsAggregate
    <2>2. h = BuildStruct(layout.parts, walks, g)
      BY <2>1, BuildNodeDef DEF walks
    <2>3. ~(g.nodes >= g.room.nodes)
      <3>1. g.nodes + Counted[layout].nodes <= g.room.nodes
        BY DEF Fits
      <3> DEFINE c == Counted[layout].nodes
                 x == g.nodes
                 y == g.room.nodes
      <3>2. c \in Nat /\ 1 <= c /\ x \in Nat /\ y \in Nat /\ x + c <= y
        BY <1>3, <1>5, <3>1
      <3> HIDE DEF c, x, y
      <3>3. ~(x >= y)
        BY <3>2
      <3> QED BY <3>3 DEF x, y
    <2> HIDE DEF h
    <2>4. full = Filled(walks, g.slots, open)
      BY <1>6 DEF full
    <2> QED BY <1>14, <2>2, <2>3, <2>4 DEF BuildStruct, open
  <1> HIDE DEF h
  <1>16. Walked(layout, g, h)
    BY <1>1, <1>5, <1>13, <1>15, ClosingFills
  <1> QED BY <1>16 DEF h

(* The walk that fills a block takes what the walk that sized it counted.     *)
LEMMA AllFill == \A layout \in Layouts : Fills(layout)
  <1> DEFINE P == {layout \in Layouts : Fills(layout)}
  <1>1. ASSUME NEW layout \in Layouts, PartsOf(layout) \subseteq P PROVE layout \in P
    BY <1>1, LeafFills, AggregateFills
  <1>2. P \in SUBSET Layouts
    OBVIOUS
  <1> HIDE DEF P
  <1>3. P = Layouts
    BY <1>1, <1>2, LayoutInduction
  <1> QED BY <1>3 DEF P

-----------------------------------------------------------------------------
(* The graphs of the call *)

LEMMA GraphIsWhole ==
  ASSUME NEW layout \in Layouts
  PROVE  /\ GraphOf(layout).root # Null
         /\ GraphOf(layout).nodes = GraphOf(layout).room.nodes
         /\ SlotsOf(GraphOf(layout).pool) = 0 .. GraphOf(layout).room.slots - 1
         /\ Once(GraphOf(layout).pool)
         /\ GraphOf(layout).root \in Reads(GraphOf(layout))[layout]
  <1> DEFINE counts == Counted[layout]
             g == [NoGraph EXCEPT !.room = counts]
             h == GraphOf(layout)
  <1>1. counts \in Counts /\ counts.nodes \in Nat /\ counts.slots \in Nat
    BY CountedDef DEF Counts
  <1>2. h = BuildNode[layout][g]
    BY ConversionsAssumption DEF LayoutGraph
  <1> HIDE DEF counts
  <1>3. /\ g \in Graphs /\ g.room = counts /\ g.nodes = 0 /\ g.slots = 0 /\ g.pool = {}
    <2> DEFINE null == Null
    <2>1. null \in FfiTypes
      BY NodeTypes
    <2>2. NoGraph = [room |-> [nodes |-> 0, slots |-> 0], nodes |-> 0, slots |-> 0, pool |-> {}, root |-> null]
      BY DEF NoGraph
    <2> HIDE DEF null
    <2> QED BY <1>1, <2>1, <2>2 DEF Graphs
  <1> HIDE DEF g, h
  <1>4. SlotsOf(g.pool) = {}
    BY <1>3 DEF SlotsOf
  <1>5. Fits(layout, g)
    <2>1. Once(g.pool)
      BY <1>3 DEF Once
    <2> QED BY <1>1, <1>3, <1>4, <2>1 DEF Fits, counts
  <1>6. Walked(layout, g, h)
    BY <1>2, <1>3, <1>5, AllFill DEF Fills
  <1>7. /\ h.room = counts /\ h.nodes = counts.nodes /\ h.slots = counts.slots
    <2>1. h.room = g.room /\ h.nodes = g.nodes + counts.nodes /\ h.slots = g.slots + counts.slots
      BY <1>6 DEF Walked, counts
    <2> QED BY <1>1, <1>3, <2>1
  <1>8. /\ h.root # Null /\ Once(h.pool) /\ h.root \in Reads(h)[layout]
        /\ SlotsOf(h.pool) = SlotsOf(g.pool) \cup (g.slots .. h.slots - 1)
    BY <1>6 DEF Walked
  <1>9. SlotsOf(h.pool) = 0 .. h.room.slots - 1
    BY <1>3, <1>4, <1>7, <1>8
  <1> QED BY <1>7, <1>8, <1>9 DEF h

(* An aggregate of the function type has a layout that is walked. *)
LEMMA ByValueIsLayout ==
  ASSUME fn \in Functions, NEW p \in Positions, ByValue(fn[p])
  PROVE  LayoutOf(fn[p]) \in Layouts
  <1>1. LayoutOf(fn[p]) \in Layouts \cup {NoLayout}
    BY ConversionsAssumption DEF Positions
  <1>2. NoLayout.form = "none"
    BY DEF NoLayout
  <1>3. LayoutOf(fn[p]) # NoLayout
    BY <1>2 DEF ByValue
  <1> QED BY <1>1, <1>3

(* What is built last is the graph of a layout. *)
BuiltIsGraph == built = NoGraph \/ \E layout \in Layouts : built = GraphOf(layout)

(* In every state what was built last is the whole graph of some layout.      *)
THEOREM GraphsAreBuilt == Spec => []BuiltIsGraph
  <1>1. Init => BuiltIsGraph
    BY DEF Init, BuiltIsGraph
  <1>2. ASSUME BuiltIsGraph, IInv, [Next]_vars PROVE BuiltIsGraph'
    <2>1. ASSUME built' = GraphOf(LayoutAt(next)), stage = "attach", next \in Positions, tags[next] # 0
          PROVE  BuiltIsGraph'
      <3>1. tags[next] = TagAt(next) /\ fn \in Functions
        BY <1>2, <2>1 DEF IInv, StageFits, TypeOK
      <3>2. ByValue(fn[next])
        BY <2>1, <3>1 DEF TagAt
      <3>3. LayoutAt(next) \in Layouts
        BY <2>1, <3>1, <3>2, ByValueIsLayout DEF LayoutAt
      <3> QED BY <2>1, <3>3 DEF BuiltIsGraph
    <2>2. CASE AttachFails
      BY <2>1, <2>2 DEF AttachFails
    <2>3. CASE Attach
      BY <2>1, <2>3 DEF Attach
    <2>4. CASE built' = built
      BY <1>2, <2>4 DEF BuiltIsGraph
    <2>5. CASE DescribeFunctionType \/ WriteSignature \/ RefuseArgs \/ Parse \/ ParseFails
      BY <2>4, <2>5 DEF DescribeFunctionType, WriteSignature, RefuseArgs, Parse, ParseFails
    <2>6. CASE SkipPosition \/ BuildFails \/ Finish \/ Collect
      BY <2>4, <2>6 DEF SkipPosition, BuildFails, Finish, Collect
    <2>7. CASE UNCHANGED vars
      BY <2>4, <2>7 DEF vars
    <2> QED BY <1>2, <2>2, <2>3, <2>5, <2>6, <2>7 DEF Next
  <1> QED BY <1>1, <1>2, CallInductive, PTL DEF Spec

(* The walk that fills a block stores once to every slot the other walk made  *)
(* room for, takes every node, and goes beyond neither, however deep a type   *)
(* is nested: urb_napi_build_node never meets its "internal builder           *)
(* overflow", and its slots, which it does not check, are enough.            *)
THEOREM RoomIsFilled == Spec => []CountsAreExact
  <1>1. BuiltIsGraph => CountsAreExact
    <2> SUFFICES ASSUME BuiltIsGraph, built # NoGraph
                 PROVE  /\ built.root # Null
                        /\ built.nodes = built.room.nodes
                        /\ {store[1] : store \in built.pool} = 0 .. built.room.slots - 1
                        /\ \A a, b \in built.pool : a[1] = b[1] => a = b
      BY DEF CountsAreExact
    <2>1. PICK layout \in Layouts : built = GraphOf(layout)
      BY DEF BuiltIsGraph
    <2>2. /\ built.root # Null /\ built.nodes = built.room.nodes
          /\ SlotsOf(built.pool) = 0 .. built.room.slots - 1 /\ Once(built.pool)
      BY <2>1, GraphIsWhole
    <2> QED BY <2>2 DEF SlotsOf, Once
  <1> QED BY <1>1, GraphsAreBuilt, PTL

(* From the entry of an aggregate in a finished descriptor libffi reads the   *)
(* members of that aggregate in their order, and those of its members.  No    *)
(* more is said of an aggregate with a union in it than that it has an entry: *)
(* its members are read one after another, which is not how they lie.        *)
THEOREM LayoutsAreRead == Spec => []PositionsKeepLayouts
  <1>1. IInv /\ PositionsKeepGraphs => PositionsKeepLayouts
    <2> SUFFICES ASSUME IInv, PositionsKeepGraphs, stage = "done"
                 PROVE  /\ Len(attached) = Cardinality({p \in Positions : ByValue(fn[p])})
                        /\ \A p \in Positions : ByValue(fn[p]) =>
                             \E i \in DOMAIN attached :
                               /\ attached[i].tag = tags[p]
                               /\ attached[i].graph.root \in Reads(attached[i].graph)[LayoutOf(fn[p])]
      BY DEF PositionsKeepLayouts
    <2>1. Len(attached) = Cardinality({p \in Positions : ByValue(fn[p])})
      BY DEF PositionsKeepGraphs
    <2>2. ASSUME NEW p \in Positions, ByValue(fn[p])
          PROVE  \E i \in DOMAIN attached :
                   /\ attached[i].tag = tags[p]
                   /\ attached[i].graph.root \in Reads(attached[i].graph)[LayoutOf(fn[p])]
      <3>1. PICK i \in DOMAIN attached :
              attached[i].tag = tags[p] /\ attached[i].graph = GraphOf(LayoutOf(fn[p]))
        BY <2>2 DEF PositionsKeepGraphs
      <3>2. LayoutOf(fn[p]) \in Layouts
        BY <2>2, ByValueIsLayout DEF IInv, TypeOK
      <3> DEFINE layout == LayoutOf(fn[p])
                 graph == attached[i].graph
      <3>3. layout \in Layouts /\ graph = GraphOf(layout)
        BY <3>1, <3>2
      <3> HIDE DEF layout, graph
      <3>4. graph.root \in Reads(graph)[layout]
        BY <3>3, GraphIsWhole
      <3> QED BY <3>1, <3>4 DEF layout, graph
    <2> QED BY <2>1, <2>2
  <1> QED BY <1>1, CallInductive, PositionsKeepTheirs, PTL
=============================================================================
