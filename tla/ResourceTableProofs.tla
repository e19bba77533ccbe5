------------------------- MODULE ResourceTableProofs -------------------------
(* Theorems about ResourceTable, for every table size and set of keys.      *)
EXTENDS ResourceTable, Foundations, FiniteSetTheorems

\* The slot the linear search stops at is one of those it looks for.
LEMMA FirstIsMember ==
    ASSUME NEW S \in SUBSET Slots, S # {}
    PROVE  First(S) \in S /\ First(S) \in Slots
<1>1. S \in SUBSET Nat
  BY TableAssumption DEF Slots
<1>2. \E i \in S : \A j \in S : i <= j
  BY <1>1, LeastNat
<1> QED
  BY <1>2 DEF First

\* Free and Holding are sets of slots (the loops of find() and set()).
LEMMA SearchSets ==
    ASSUME NEW k
    PROVE  Holding(k) \in SUBSET Slots /\ Free \in SUBSET Slots
  BY DEF Holding, Free

\* The inductive invariant: slots are well formed and no key is held twice.
Inv == TypeOK /\ UniqueKeys

\* The resources compiled in are well typed and have different keys.
LEMMA InvInit == Init => Inv
<1> SUFFICES ASSUME Init PROVE Inv
  OBVIOUS
<1>1. \A i \in Slots : resources[i] \in SlotType
  <2> TAKE i \in Slots
  <2>1. CASE i \in DOMAIN Literals
    BY <2>1, TableAssumption DEF Init, SlotType
  <2>2. CASE i \notin DOMAIN Literals
    BY <2>2 DEF Init, SlotType
  <2> QED
    BY <2>1, <2>2
<1>2. TypeOK
  BY <1>1 DEF Init, TypeOK
<1>3. UniqueKeys
  BY TableAssumption DEF Init, UniqueKeys, Empty
<1> QED
  BY <1>2, <1>3 DEF Inv

\* set() keeps the keys distinct: it takes a new slot only when find() failed.
LEMMA InvSet ==
    ASSUME Inv, NEW k \in Keys, NEW v \in Values, set(k, v)
    PROVE  Inv'
<1>1. CASE overwrite(k, v)
  <2> DEFINE i == First(Holding(k))
  <2>1. i \in Slots /\ resources[i].key = k
    BY <1>1, FirstIsMember, SearchSets DEF overwrite, Holding
  <2>2. resources[i] \in SlotType /\ resources[i].key # NULL
    BY <2>1, TableAssumption DEF Inv, TypeOK
  <2>3. resources' = [resources EXCEPT ![i].value = v] /\ UNCHANGED aborted
    BY <1>1 DEF overwrite
  <2> HIDE DEF i
  <2>4. [resources[i] EXCEPT !.value = v] \in SlotType
    BY <2>2 DEF SlotType, Empty
  <2>5. /\ resources' = [resources EXCEPT ![i] = [resources[i] EXCEPT !.value = v]]
        /\ [resources[i] EXCEPT !.value = v].key = resources[i].key
    BY <2>2, <2>3 DEF SlotType, Empty
  <2> QED
    BY <2>1, <2>3, <2>4, <2>5 DEF Inv, TypeOK, UniqueKeys
<1>2. CASE add(k, v)
  <2> DEFINE i == First(Free)
             new == [key |-> k, value |-> v, literal |-> FALSE]
  <2>1. i \in Slots
    BY <1>2, FirstIsMember, SearchSets DEF add
  <2>2. new \in SlotType /\ new.key = k
    BY DEF SlotType
  <2>3. \A j \in Slots : resources[j].key # k
    BY <1>2 DEF add, Holding
  <2>4. resources' = [resources EXCEPT ![i] = new] /\ UNCHANGED aborted
    BY <1>2 DEF add
  <2> HIDE DEF i, new
  <2> QED
    BY <2>1, <2>2, <2>3, <2>4 DEF Inv, TypeOK, UniqueKeys
<1>3. CASE fail_silently(k)
  BY <1>3 DEF fail_silently, Inv, TypeOK, UniqueKeys
<1>4. CASE free_literal(k)
  BY <1>4 DEF free_literal, Inv, TypeOK, UniqueKeys
<1> QED
  BY <1>1, <1>2, <1>3, <1>4 DEF set

\* delete() empties one slot, or none, and so keeps the invariant.
LEMMA InvDelete ==
    ASSUME Inv, NEW k \in Keys, delete(k)
    PROVE  Inv'
<1>1. CASE delete_found(k)
  <2> DEFINE i == First(Holding(k))
  <2>1. i \in Slots /\ resources[i].key = k
    BY <1>1, FirstIsMember, SearchSets DEF delete_found, Holding
  <2>2. Empty \in SlotType /\ Empty.key = NULL
    BY DEF SlotType, Empty
  <2>3. resources' = [resources EXCEPT ![i] = Empty] /\ UNCHANGED aborted
    BY <1>1 DEF delete_found
  <2> HIDE DEF i
  <2> QED
    BY <2>1, <2>2, <2>3 DEF Inv, TypeOK, UniqueKeys
<1>2. CASE delete_missing(k)
  BY <1>2 DEF delete_missing, Inv, TypeOK, UniqueKeys
<1>3. CASE free_literal(k)
  BY <1>3 DEF free_literal, Inv, TypeOK, UniqueKeys
<1> QED
  BY <1>1, <1>2, <1>3 DEF delete

\* Every call of data.c keeps the table well typed and its keys different.
LEMMA InvStep == Inv /\ [Next]_vars => Inv'
<1> SUFFICES ASSUME Inv, [Next]_vars PROVE Inv'
  OBVIOUS
<1>1. ASSUME NEW k \in Keys, get(k) PROVE Inv'
  BY <1>1 DEF get, Inv, TypeOK, UniqueKeys
<1>2. ASSUME NEW k \in Written, delete(k) PROVE Inv'
  BY <1>2, InvDelete, TableAssumption
<1>3. ASSUME NEW k \in Written, NEW v \in Values, set(k, v) PROVE Inv'
  BY <1>3, InvSet, TableAssumption
<1>4. CASE UNCHANGED vars
  BY <1>4 DEF vars, Inv, TypeOK, UniqueKeys
<1> QED
  BY <1>1, <1>2, <1>3, <1>4 DEF Next

\* However slots are filled, freed and filled again, a slot holds a key with its
\* value or nothing, and what get() returns is a value or NULL.
THEOREM SlotsTyped == Spec => []TypeOK
<1>1. Inv => TypeOK
  BY DEF Inv
<1> QED
  BY <1>1, InvInit, InvStep, PTL DEF Spec

\* However slots are freed and reused, no key is ever stored in two of them,
\* so find() has one answer.
THEOREM KeysUnique == Spec => []UniqueKeys
<1>1. Inv => UniqueKeys
  BY DEF Inv
<1> QED
  BY <1>1, InvInit, InvStep, PTL DEF Spec

----------------------------------------------------------------------------
(* The table implements the dictionary of data.h.                           *)

\* What find() finds is what the dictionary holds.
Finds ==
    /\ Contents \in [Keys -> Values \cup {NULL}]
    /\ \A k \in Keys : Holding(k) = {} <=> Contents[k] = NULL
    /\ \A i \in Slots : resources[i].key # NULL =>
           Contents[resources[i].key] = resources[i].value

\* Since keys are distinct, the first slot found is the only one.
LEMMA TableFinds == Inv => Finds
<1> SUFFICES ASSUME Inv PROVE Finds
  OBVIOUS
<1>1. ASSUME NEW k \in Keys, NEW i \in Slots, resources[i].key = k
      PROVE  Holding(k) # {} /\ First(Holding(k)) = i
  <2>1. i \in Holding(k) /\ k # NULL
    BY <1>1, TableAssumption DEF Holding
  <2>2. First(Holding(k)) \in Holding(k) /\ First(Holding(k)) \in Slots
    BY <2>1, FirstIsMember, SearchSets
  <2> QED
    BY <1>1, <2>1, <2>2 DEF Inv, UniqueKeys, Holding
<1>2. ASSUME NEW i \in Slots, resources[i].key # NULL
      PROVE  resources[i].key \in Keys /\ resources[i].value \in Values
  BY <1>2 DEF Inv, TypeOK, SlotType, Empty
<1>3. ASSUME NEW k \in Keys, Holding(k) # {}
      PROVE  Contents[k] \in Values
  <2>1. PICK i \in Slots : resources[i].key = k
    BY <1>3 DEF Holding
  <2> QED
    BY <1>1, <1>2, <1>3, <2>1, TableAssumption DEF Contents
<1>4. ASSUME NEW i \in Slots, resources[i].key # NULL
      PROVE  Contents[resources[i].key] = resources[i].value
  BY <1>1, <1>2, <1>4 DEF Contents
<1>5. \A k \in Keys : Holding(k) = {} <=> Contents[k] = NULL
  BY <1>3, TableAssumption DEF Contents
<1>6. Contents \in [Keys -> Values \cup {NULL}]
  BY <1>3 DEF Contents
<1> QED
  BY <1>4, <1>5, <1>6 DEF Finds

\* The dictionary holds a key exactly when find() finds it.
LEMMA HeldIsFound ==
    ASSUME Inv PROVE D!Held = {k \in Keys : Holding(k) # {}}
  BY TableFinds DEF D!Held, Finds

\* Dictionary counts the keys with the same operator.
LEMMA SameCardinality ==
    ASSUME NEW S PROVE D!Cardinality(S) = Cardinality(S)
  BY DEF D!Cardinality, Cardinality

\* set() finds a free slot exactly when fewer than MAX_RESOURCES keys are held.
LEMMA RoomIsFreeSlot ==
    ASSUME Inv
    PROVE  /\ Free # {} => Cardinality(D!Held) < MAX_RESOURCES
           /\ Free = {} => Cardinality(D!Held) = MAX_RESOURCES
<1> DEFINE Used == Slots \ Free
           key  == [i \in Used |-> resources[i].key]
<1>1. IsFiniteSet(Slots) /\ Cardinality(Slots) = MAX_RESOURCES
  BY TableAssumption, FS_Interval DEF Slots
<1>2. /\ IsFiniteSet(Used)
      /\ Cardinality(Used) <= MAX_RESOURCES
      /\ Cardinality(Used) = MAX_RESOURCES => Used = Slots
      /\ Cardinality(Used) \in Nat
  BY <1>1, FS_Subset, FS_CardinalityType
<1>3. key \in Bijection(Used, D!Held)
  <2>1. \A i \in Used : resources[i].key \in D!Held
    BY HeldIsFound DEF Inv, TypeOK, SlotType, Empty, Free, Holding
  <2>2. \A i, j \in Used : key[i] = key[j] => i = j
    BY DEF Inv, UniqueKeys, Free
  <2>3. \A k \in D!Held : \E i \in Used : key[i] = k
    BY HeldIsFound, TableAssumption DEF Holding, Free
  <2>4. key \in [Used -> D!Held]
    BY <2>1
  <2> HIDE DEF key
  <2> QED
    BY <2>2, <2>3, <2>4 DEF Bijection, Injection, IsInjective, Surjection
<1>4. Cardinality(D!Held) = Cardinality(Used)
  BY <1>2, <1>3, FS_Bijection DEF ExistsBijection
<1>5. Free = {} <=> Used = Slots
  BY SearchSets
<1> HIDE DEF Used
<1> QED
  BY <1>1, <1>2, <1>4, <1>5, TableAssumption

\* A call that changes the slots of key k only changes the dictionary at k only.
LEMMA OtherKeysKept ==
    ASSUME Inv, Inv', NEW k \in Keys,
           \A i \in Slots, x \in Keys \ {k} :
               /\ resources'[i].key = x <=> resources[i].key = x
               /\ resources[i].key = x => resources'[i].value = resources[i].value
    PROVE  \A x \in Keys \ {k} : Contents'[x] = Contents[x]
<1>1. Finds /\ Finds'
  BY TableFinds, PTL
<1> TAKE x \in Keys \ {k}
<1>2. CASE \E i \in Slots : resources[i].key = x
  <2>1. PICK i \in Slots : resources[i].key = x
    BY <1>2
  <2> QED
    BY <1>1, <2>1, TableAssumption DEF Finds
<1>3. CASE ~ \E i \in Slots : resources[i].key = x
  <2>1. Holding(x) = {} /\ Holding(x)' = {}
    BY <1>3 DEF Holding
  <2> QED
    BY <1>1, <2>1 DEF Finds
<1> QED
  BY <1>2, <1>3

\* overwrite() and add() put the value at the key and nowhere else.
LEMMA StepSet ==
    ASSUME Inv, Inv', NEW k \in Keys, NEW v \in Values, set(k, v)
    PROVE  D!Set(k, v) \/ D!Refuse(k) \/ UNCHANGED D!vars
<1>1. Finds /\ Finds'
  BY TableFinds, PTL
<1>2. ASSUME NEW i \in Slots, resources[i].key \in {k, NULL}, resources'[i].key = k,
             resources'[i].value = v, \A j \in Slots \ {i} : resources'[j] = resources[j]
      PROVE  Contents' = [Contents EXCEPT ![k] = v]
  <2>1. Contents'[k] = v
    BY <1>1, <1>2, TableAssumption DEF Finds
  <2>2. \A j \in Slots, x \in Keys \ {k} :
            /\ resources'[j].key = x <=> resources[j].key = x
            /\ resources[j].key = x => resources'[j].value = resources[j].value
    BY <1>2, TableAssumption
  <2>3. \A x \in Keys \ {k} : Contents'[x] = Contents[x]
    BY <2>2, OtherKeysKept
  <2> QED
    BY <1>1, <2>1, <2>3 DEF Finds
<1>3. CASE overwrite(k, v)
  <2> DEFINE i == First(Holding(k))
  <2>1. i \in Slots /\ resources[i].key = k
    BY <1>3, FirstIsMember, SearchSets DEF overwrite, Holding
  <2>2. resources' = [resources EXCEPT ![i].value = v]
    BY <1>3 DEF overwrite
  <2>3. resources[i] \in SlotType /\ k # NULL
    BY <2>1, TableAssumption DEF Inv, TypeOK
  <2> HIDE DEF i
  <2>4. /\ resources'[i].key = k /\ resources'[i].value = v
        /\ \A j \in Slots \ {i} : resources'[j] = resources[j]
    BY <2>1, <2>2, <2>3 DEF Inv, TypeOK, SlotType, Empty
  <2>5. Contents' = [Contents EXCEPT ![k] = v]
    BY <1>2, <2>1, <2>4
  <2>6. k \in D!Held
    BY <1>3, HeldIsFound DEF overwrite
  <2>7. result' = D!Returned("set", k, TRUE)
    BY <1>3 DEF overwrite, Returned, D!Returned
  <2> QED
    BY <2>5, <2>6, <2>7 DEF D!Set
<1>4. CASE add(k, v)
  <2> DEFINE i == First(Free)
  <2>1. i \in Slots /\ resources[i].key = NULL
    BY <1>4, FirstIsMember, SearchSets DEF add, Free
  <2>2. resources' = [resources EXCEPT ![i] = [key |-> k, value |-> v, literal |-> FALSE]]
    BY <1>4 DEF add
  <2> HIDE DEF i
  <2>3. /\ resources'[i].key = k /\ resources'[i].value = v
        /\ \A j \in Slots \ {i} : resources'[j] = resources[j]
    BY <2>1, <2>2 DEF Inv, TypeOK
  <2>4. Contents' = [Contents EXCEPT ![k] = v]
    BY <1>2, <2>1, <2>3
  <2>5. k \notin D!Held /\ Cardinality(D!Held) < MAX_RESOURCES
    BY <1>4, HeldIsFound, RoomIsFreeSlot DEF add
  <2>6. result' = D!Returned("set", k, FALSE)
    BY <1>4 DEF add, Returned, D!Returned
  <2>7. (k \in D!Held) = FALSE
    BY <2>5
  <2>8. result' = D!Returned("set", k, k \in D!Held)
    BY <2>6, <2>7
  <2> QED
    BY <2>4, <2>5, <2>8, SameCardinality DEF D!Set
<1>5. CASE fail_silently(k)
  <2>1. k \notin D!Held /\ Cardinality(D!Held) = MAX_RESOURCES
    BY <1>5, HeldIsFound, RoomIsFreeSlot DEF fail_silently
  <2>2. Contents' = Contents
    BY <1>5 DEF fail_silently, Contents, Holding, First
  <2> QED
    BY <1>5, <2>1, <2>2, SameCardinality DEF fail_silently, D!Refuse, Returned, D!Returned
<1>6. CASE free_literal(k)
  BY <1>6 DEF free_literal, D!vars, Contents, Holding, First
<1> QED
  BY <1>3, <1>4, <1>5, <1>6 DEF set

\* delete() removes the key and nothing else.
LEMMA StepDelete ==
    ASSUME Inv, Inv', NEW k \in Keys, delete(k)
    PROVE  D!Delete(k) \/ UNCHANGED D!vars
<1>1. Finds /\ Finds'
  BY TableFinds, PTL
<1>2. CASE delete_found(k)
  <2> DEFINE i == First(Holding(k))
  <2>1. i \in Slots /\ resources[i].key = k
    BY <1>2, FirstIsMember, SearchSets DEF delete_found, Holding
  <2>2. resources' = [resources EXCEPT ![i] = Empty]
    BY <1>2 DEF delete_found
  <2> HIDE DEF i
  <2>3. /\ resources'[i].key = NULL
        /\ \A j \in Slots \ {i} : resources'[j] = resources[j]
    BY <2>1, <2>2 DEF Inv, TypeOK, Empty
  <2>4. Holding(k)' = {}
    BY <2>1, <2>3, TableAssumption DEF Holding, Inv, UniqueKeys
  <2>5. \A j \in Slots, x \in Keys \ {k} :
            /\ resources'[j].key = x <=> resources[j].key = x
            /\ resources[j].key = x => resources'[j].value = resources[j].value
    BY <2>1, <2>3, TableAssumption
  <2>6. \A x \in Keys \ {k} : Contents'[x] = Contents[x]
    BY <2>5, OtherKeysKept
  <2>7. Contents' = [Contents EXCEPT ![k] = NULL]
    BY <1>1, <2>4, <2>6 DEF Finds
  <2>8. k \in D!Held
    BY <1>2, HeldIsFound DEF delete_found
  <2> QED
    BY <1>2, <2>7, <2>8 DEF delete_found, D!Delete, Returned, D!Returned
<1>3. CASE delete_missing(k)
  <2>1. k \notin D!Held /\ Contents[k] = NULL
    BY <1>1, <1>3, HeldIsFound DEF delete_missing, Finds
  <2>2. Contents' = Contents
    BY <1>3 DEF delete_missing, Contents, Holding, First
  <2>3. Contents = [Contents EXCEPT ![k] = NULL]
    BY <1>1, <2>1 DEF Finds
  <2>4. (k \in D!Held) = FALSE
    BY <2>1
  <2>5. result' = D!Returned("delete", k, k \in D!Held)
    BY <1>3, <2>4 DEF delete_missing, Returned, D!Returned
  <2> QED
    BY <2>2, <2>3, <2>5 DEF D!Delete
<1>4. CASE free_literal(k)
  BY <1>4 DEF free_literal, D!vars, Contents, Holding, First
<1> QED
  BY <1>2, <1>3, <1>4 DEF delete

\* The compiled-in resources are the dictionary's initial contents.
LEMMA InitContents == Init => D!Init
<1> SUFFICES ASSUME Init PROVE D!Init
  OBVIOUS
<1>1. Inv
  BY InvInit
<1>2. Finds
  BY <1>1, TableFinds
<1>3. ASSUME NEW k \in Keys
      PROVE  Contents[k] = IF \E i \in DOMAIN Literals : Literals[i] = k
                           THEN LiteralValue[k] ELSE NULL
  <2>1. DOMAIN Literals \subseteq Slots
    BY TableAssumption DEF Slots
  <2>2. CASE \E i \in DOMAIN Literals : Literals[i] = k
    <3>1. PICK i \in DOMAIN Literals : Literals[i] = k
      BY <2>2
    <3>2. resources[i] = [key |-> k, value |-> LiteralValue[k], literal |-> TRUE]
      BY <2>1, <3>1 DEF Init
    <3> QED
      BY <1>2, <2>1, <2>2, <3>1, <3>2, TableAssumption DEF Finds
  <2>3. CASE ~ \E i \in DOMAIN Literals : Literals[i] = k
    <3>1. Holding(k) = {}
      BY <2>3, TableAssumption DEF Init, Holding, Empty
    <3> QED
      BY <1>2, <2>3, <3>1 DEF Finds
  <2> QED
    BY <2>2, <2>3
<1>4. Contents = [k \in Keys |-> IF \E i \in DOMAIN Literals : Literals[i] = k
                                THEN LiteralValue[k] ELSE NULL]
  BY <1>2, <1>3 DEF Finds
<1> QED
  BY <1>4 DEF Init, D!Init, Returned, D!Returned

\* Every call of data.c is the call of the dictionary, or the one that aborts.
LEMMA StepDictionary == Inv /\ Inv' /\ [Next]_vars => [D!Next]_(D!vars)
<1> SUFFICES ASSUME Inv, Inv', [Next]_vars PROVE [D!Next]_(D!vars)
  OBVIOUS
<1>1. ASSUME NEW k \in Keys, get(k) PROVE D!Get(k)
  <2>1. Contents' = Contents
    BY <1>1 DEF get, Contents, Holding, First
  <2> QED
    BY <1>1, <2>1 DEF get, D!Get, Returned, D!Returned, Contents
<1>2. ASSUME NEW k \in Written, delete(k) PROVE [D!Next]_(D!vars)
  BY <1>2, StepDelete, TableAssumption DEF D!Next
<1>3. ASSUME NEW k \in Written, NEW v \in Values, set(k, v) PROVE [D!Next]_(D!vars)
  BY <1>3, StepSet, TableAssumption DEF D!Next
<1>4. CASE UNCHANGED vars
  BY <1>4 DEF vars, D!vars, Contents, Holding, First
<1> QED
  BY <1>1, <1>2, <1>3, <1>4 DEF Next, D!Next

\* For any number of slots and any compiled-in resources the array is a
\* dictionary of that capacity: what get(), set() and delete() answer, and
\* what they change, is what data.h says, until a call aborts.
THEOREM TableIsDictionary == Spec => ImplementsDictionary
<1>1. Init => Inv /\ D!Init
  BY InvInit, InitContents
<1> QED
  BY <1>1, InvStep, StepDictionary, PTL DEF Spec, ImplementsDictionary, D!Spec
=============================================================================
