------------------------------- MODULE Wrapper -------------------------------
(***************************************************************************)
(* The wrapper bindgen prints, in use: load() opens the library and binds   *)
(* every function in turn, and a function that takes or returns records by  *)
(* value copies them to and from memory around the native call.             *)
(*                                                                         *)
(* Memory is counted in words: a primitive or a pointer is one.  A block is  *)
(* named by the parameter it is for.                                       *)
(***************************************************************************)
EXTENDS Bindgen

CONSTANT Longer  \* how many elements more than its field an array of an object may have

ASSUME LongerAssumption == Longer \subseteq Nat

VARIABLES
  library,  \* the handle load() opened: "none", "open", "closed"; "abandoned" when
            \* load() gave up after it
  unbound,  \* functions load() has yet to bind
  usable,   \* load() has returned
  call,     \* the wrapper's call: its function, the parameter it is at, the blocks
            \* __arg holds that are its own; or none
  blocks,   \* the blocks alloc has given and free has not taken
  lost,     \* history: blocks of calls that gave up while preparing
  faults    \* history: what went wrong in copying: "outside", "overrun", "pointee"

wrapvars == <<bindvars, library, unbound, usable, call, blocks, lost, faults>>

NoCall == [fn |-> 0, at |-> 0, held |-> {}, step |-> "none"]

WrapInit ==
  /\ Init
  /\ library = "none" /\ unbound = {} /\ usable = FALSE
  /\ call = NoCall
  /\ blocks = {} /\ lost = {} /\ faults = {}

-----------------------------------------------------------------------------
(* Sizes *)

(* Of a field, where words has the sizes of the records. *)
FieldWords(words, t) ==
  CASE Kind(t) = "array" -> t.count
    [] Kind(t) = "record" -> words[t.key]
    [] OTHER -> 1

Sizes(words, key) == [i \in DOMAIN Fields(key) |-> FieldWords(words, Fields(key)[i].type)]

(* Each field after the one before it; those of a union at the start.        *)
Starts(sizes) ==
  LET start[i \in DOMAIN sizes] == IF i = 1 THEN 0 ELSE start[i - 1] + sizes[i - 1] IN start
Offset(words, key, i) == IF Body(key).kind = "union" THEN 0 ELSE Starts(Sizes(words, key))[i]

RecordWords[key \in Keys] ==
  Max({0} \cup {Offset(RecordWords, key, i) + Sizes(RecordWords, key)[i] : i \in DOMAIN Fields(key)})

(* compileSchema takes what was printed for the record: it says no to null. *)
Compiles[key \in Keys] ==
  \A i \in DOMAIN Fields(key) :
    LET t == Fields(key)[i].type
    IN Kind(t) # "unsupported" /\ (Kind(t) = "record" => Compiles[t.key])

ToRecord(t) == Kind(t) = "pointer" /\ Kind(t.to) = "record"

(* A field that is no record.  writeArray takes the array of the object as   *)
(* long as it is; readArray has the count of the schema.                   *)
FieldTouched(longer, t) == FieldWords(RecordWords, t) + (IF Kind(t) = "array" THEN longer ELSE 0)

(* isRecordSchema says yes to the descriptor of a pointer to a record, which *)
(* is an object too: it is measured as a record of a pointer and the record. *)
NodeTouched(longer, touched, t) ==
  CASE ToRecord(t) /\ Compiles[t.to.key] -> 1 + RecordWords[t.to.key]
    [] Kind(t) = "record" -> touched[t.key]
    [] OTHER -> FieldTouched(longer, t)

(* copy_record has fields of their own for schemas: a pointer is a word. *)
LuaTouched(longer, touched, t) ==
  IF Kind(t) = "record" THEN touched[t.key] ELSE FieldTouched(longer, t)

Touched(longer, touched, t) ==
  IF mode = "node" THEN NodeTouched(longer, touched, t) ELSE LuaTouched(longer, touched, t)

(* How far copyRecord and snapshotRecord go from where the record is, if the *)
(* arrays they copy have so many elements more than their fields.          *)
RecordTouched(longer) ==
  LET touched[key \in Keys] ==
        Max({RecordWords[key]}
              \cup {Offset(RecordWords, key, i) + Touched(longer, touched, Fields(key)[i].type) :
                    i \in DOMAIN Fields(key)})
  IN touched

(* By value in the record: a pointer to a record. *)
HasPointer[key \in Keys] ==
  \E i \in DOMAIN Fields(key) :
    LET t == Fields(key)[i].type
    IN (ToRecord(t) /\ Compiles[t.to.key]) \/ (Kind(t) = "record" /\ HasPointer[t.key])

(* By value in the record: an array. *)
HasArray[key \in Keys] ==
  \E i \in DOMAIN Fields(key) :
    LET t == Fields(key)[i].type IN Kind(t) = "array" \/ (Kind(t) = "record" /\ HasArray[t.key])

CopyFaults(longer, key) ==
  (IF RecordTouched(0)[key] > RecordWords[key] THEN {"outside"} ELSE {})
    \cup (IF RecordTouched(longer)[key] > RecordTouched(0)[key] THEN {"overrun"} ELSE {})
    \cup (IF mode = "node" /\ HasPointer[key] THEN {"pointee"} ELSE {})

-----------------------------------------------------------------------------
(* load() *)

Same == UNCHANGED bindvars

Load ==
  /\ phase = "done" /\ mode # "json" /\ library = "none"
  /\ library' = "open"
  /\ unbound' = Callable
  /\ UNCHANGED <<usable, call, blocks, lost, faults>> /\ Same

(* bindRequired: a symbol the library lacks ends load(), its handle with it. *)
BindRequired ==
  /\ library = "open" /\ unbound # {}
  /\ \/ unbound' = unbound \ {Min(unbound)} /\ UNCHANGED library
     \/ unbound' = {} /\ library' = "abandoned"
  /\ UNCHANGED <<usable, call, blocks, lost, faults>> /\ Same

ReturnFunctions ==
  /\ library = "open" /\ unbound = {} /\ ~usable
  /\ usable' = TRUE
  /\ UNCHANGED <<library, unbound, call, blocks, lost, faults>> /\ Same

(* close() of the wrapper, once. *)
CloseLibrary ==
  /\ usable /\ library = "open" /\ call = NoCall
  /\ library' = "closed"
  /\ UNCHANGED <<unbound, usable, call, blocks, lost, faults>> /\ Same

-----------------------------------------------------------------------------
(* A function that takes or returns records by value.  types[1] is what it  *)
(* returns.                                                                *)

Types == functions[call.fn].types
Current == Types[call.at]
Found(key) == <<Preferred(key), key>> \in PrintedRecords

CallRich(f) ==
  /\ usable /\ library = "open" /\ call = NoCall
  /\ \A i \in DOMAIN functions[f].types :
       Kind(functions[f].types[i]) = "record" => ~Shared(Preferred(functions[f].types[i].key))
  /\ call' = [fn |-> f, at |-> 2, held |-> {}, step |-> "preparing"]
  /\ UNCHANGED <<library, unbound, usable, blocks, lost, faults>> /\ Same

Preparing == call.step = "preparing" /\ call.at <= Len(Types)

(* An argument that is no record, or a pointer to one. *)
PassAsIs ==
  /\ Preparing
  /\ call' = [call EXCEPT !.at = @ + 1]
  /\ UNCHANGED <<library, unbound, usable, blocks, lost, faults>> /\ Same

(* prepareRecordArg, of an object: a block, and the object copied there,     *)
(* those fields it has, and its arrays as long as they are.                *)
PrepareRecord ==
  /\ Preparing /\ Kind(Current) = "record" /\ Found(Current.key)
  /\ call' = [call EXCEPT !.at = @ + 1, !.held = @ \cup {call.at}]
  /\ blocks' = blocks \cup {call.at}
  /\ \E longer \in Longer : faults' \in {faults, faults \cup CopyFaults(longer, Current.key)}
  /\ UNCHANGED <<library, unbound, usable, lost>> /\ Same

(* The schema is not there, alloc fails, or the object does not fit: the     *)
(* try has not begun.  What was prepared before stays, and the block too if  *)
(* there is one.                                                           *)
PrepareThrows ==
  /\ Preparing /\ Kind(Current) = "record"
  /\ \E made \in {{}, IF Found(Current.key) THEN {call.at} ELSE {}} :
       /\ blocks' = {}
       /\ lost' = lost \cup {<<call.fn, i>> : i \in call.held \cup made}
  /\ call' = NoCall
  /\ UNCHANGED <<library, unbound, usable, faults>> /\ Same

(* The native call, and the record it returns taken apart; or either throws. *)
CallNative ==
  /\ call.step = "preparing" /\ call.at > Len(Types)
  /\ \/ /\ Kind(Types[1]) = "record" => Found(Types[1].key)
        /\ call' = [call EXCEPT !.step = "returned"]
        /\ faults' = faults \cup (IF Kind(Types[1]) = "record" THEN CopyFaults(0, Types[1].key) ELSE {})
     \/ call' = [call EXCEPT !.step = "threw"] /\ UNCHANGED faults
  /\ UNCHANGED <<library, unbound, usable, blocks, lost>> /\ Same

(* A slip: only a call that returns frees. *)
FreedIfReturned == IF call.step = "returned" THEN call.held ELSE {}

(* finally: freePreparedRecord of each. *)
Freed == call.held

FreePrepared ==
  /\ call.step \in {"returned", "threw"}
  /\ blocks' = blocks \ Freed
  /\ call' = NoCall
  /\ UNCHANGED <<library, unbound, usable, lost, faults>> /\ Same

WrapperStep ==
  \/ Load \/ BindRequired \/ ReturnFunctions \/ CloseLibrary
  \/ \E f \in RichFunctions : CallRich(f)
  \/ PassAsIs \/ PrepareRecord \/ PrepareThrows \/ CallNative \/ FreePrepared

Next ==
  \/ BindgenStep /\ UNCHANGED <<library, unbound, usable, call, blocks, lost, faults>>
  \/ WrapperStep

Spec == WrapInit /\ [][Next]_wrapvars /\ WF_bindvars(BindgenStep)

-----------------------------------------------------------------------------
(* Properties *)

(* Whatever the native call or the reading of its result does, every block   *)
(* the wrapper made for an argument is freed by the time it returns.  Only   *)
(* a preparation that throws leaves blocks, those of the arguments before    *)
(* it included, for the try comes after (main.cpp:2157, 2463).               *)
PreparedAreFreed == call = NoCall => blocks = {}

(* Copying a record to or from its wrapper's object stays inside the record, *)
(* and stores what it is given, unless the wrapper is for Node and the       *)
(* record has a pointer to a record (main.cpp:2080, 2358).  That is if no    *)
(* array of the object is longer than its field: what is copied is as long   *)
(* as the caller made it, and nothing looks (main.cpp:2053, 2355).  Only a    *)
(* record that has an array, and is an argument, is overrun so.             *)
CopiesStayInside ==
  /\ faults \ {"overrun"} # {} =>
       /\ mode = "node"
       /\ \E f \in RichFunctions : \E t \in Range(functions[f].types) :
            Kind(t) = "record" /\ HasPointer[t.key]
  /\ "overrun" \in faults =>
       \E f \in RichFunctions : \E t \in Range(Tail(functions[f].types)) :
         Kind(t) = "record" /\ HasArray[t.key]

(* A pointer field holds the address it is given (README.md:789), whoever    *)
(* generated the wrapper.                                                    *)
AddressesAreStored == "pointee" \notin faults
=============================================================================
