------------------------- MODULE ResourceRowsProofs -------------------------
(***************************************************************************)
(* Proofs about ResourceRows for any resources, keys and number of rows.   *)
(*                                                                         *)
(* The inductive invariant adds to the types what AUTOINCREMENT gives: the *)
(* row a Load has selected is still its own, if it is there at all.  That  *)
(* a key's rows have a largest number is carried along as an invariant     *)
(* too: it is the last one inserted.                                       *)
(***************************************************************************)
EXTENDS ResourceRows, TLAPS

\* The row of a key that counts is one of its rows, and the last of them
\* (the PKeyHandler of ResourceLoader.cpp:114-122).
NewestIsThere ==
  \A k \in Keys : RowsOf(k) # {} => NewestRow(k) \in RowsOf(k)

\* If the row that a Load has selected is there, it is the row it selected
\* (ResourceLoader.cpp:124-128).
LoadKnowsItsRow ==
  load # None /\ table[load.row] # None =>
    table[load.row].key = load.key /\ table[load.row].value.shape = load.shape

\* What a resource was last inserted as is still the newest of its key
\* (ResourcePersister.cpp:87,100).
HomeIsThere ==
  \A r \in Resources, k \in Keys : home[r] = k =>
    /\ RowsOf(k) # {}
    /\ NewestValue(k).shape = resource[r].shape
    /\ checkSum[r] = Crc[NewestValue(k).data]

IInv == TypeOK /\ NewestIsThere /\ LoadKnowsItsRow /\ HomeIsThere

\* The newest rows and their values depend on the table only.
LEMMA SameTable ==
  ASSUME UNCHANGED table, NEW k
  PROVE  /\ RowsOf(k)' = RowsOf(k)
         /\ NewestRow(k)' = NewestRow(k)
         /\ NewestValue(k)' = NewestValue(k)
  BY DEF RowsOf, NewestRow, NewestValue

\* An inserted row is the newest of its key, and the other keys keep theirs.
LEMMA InsertedIsNewest ==
  ASSUME TypeOK, NewestIsThere, NEW k \in Keys, NEW v \in Values, Insert(k, v)
  PROVE  /\ RowsOf(k)' # {} /\ NewestRow(k)' \in RowsOf(k)' /\ NewestValue(k)' = v
         /\ \A l \in Keys \ {k} :
              /\ RowsOf(l)' = RowsOf(l) /\ NewestRow(l)' = NewestRow(l)
              /\ NewestValue(l)' = NewestValue(l)
<1> DEFINE n == lastRow + 1
           row == [key |-> k, value |-> v]
<1>1. /\ n \in Numbers /\ lastRow \in Nat
      /\ table \in [Numbers -> Rows \cup {None}]
      /\ table' = [table EXCEPT ![n] = row]
      /\ \A i \in Numbers : i > lastRow => table[i] = None
  BY RowsAssumption DEF TypeOK, Insert, Numbers
<1>2. row # None /\ row.key = k /\ row.value = v
  BY RowsAssumption DEF Rows
<1> HIDE DEF row
<1>3. RowsOf(k)' = RowsOf(k) \cup {n}
  BY <1>1, <1>2 DEF RowsOf
<1>4. \A i \in RowsOf(k)' : i \in Int /\ n >= i
  BY <1>1, <1>3 DEF RowsOf, Numbers
<1>5. NewestRow(k)' = n
  <2>1. \A i \in RowsOf(k)' : (\A j \in RowsOf(k)' : i >= j) <=> i = n
    BY <1>3, <1>4
  <2> QED BY <1>3, <2>1 DEF NewestRow, Max
<1>6. NewestValue(k)' = v
  BY <1>1, <1>2, <1>3, <1>5 DEF NewestValue
<1>7. ASSUME NEW l \in Keys \ {k}
      PROVE  RowsOf(l)' = RowsOf(l)
  BY <1>1, <1>2 DEF RowsOf
<1>8. ASSUME NEW l \in Keys \ {k}
      PROVE  NewestRow(l)' = NewestRow(l)
  BY <1>7 DEF NewestRow
<1>9. ASSUME NEW l \in Keys \ {k}, RowsOf(l) # {} => NewestRow(l) \in RowsOf(l)
      PROVE  NewestValue(l)' = NewestValue(l)
  <2>1. CASE RowsOf(l) = {}
    BY <1>7, <2>1 DEF NewestValue
  <2>2. CASE RowsOf(l) # {}
    <3>1. NewestRow(l) \in Numbers /\ table[NewestRow(l)] # None
      BY <1>9, <2>2 DEF RowsOf
    <3>2. table'[NewestRow(l)] = table[NewestRow(l)]
      BY <1>1, <3>1
    <3> QED BY <1>7, <1>8, <2>2, <3>2 DEF NewestValue
  <2> QED BY <2>1, <2>2
<1> QED BY <1>3, <1>5, <1>6, <1>7, <1>8, <1>9 DEF NewestIsThere

\* A deletion leaves nothing of its key, and the other keys keep their rows.
LEMMA DeletedIsGone ==
  ASSUME TypeOK, NewestIsThere, NEW k \in Keys, Delete(k)
  PROVE  /\ RowsOf(k)' = {} /\ NewestValue(k)' = None
         /\ \A l \in Keys \ {k} :
              /\ RowsOf(l)' = RowsOf(l) /\ NewestRow(l)' = NewestRow(l)
              /\ NewestValue(l)' = NewestValue(l)
<1>1. table' = [i \in Numbers |-> IF i \in RowsOf(k) THEN None ELSE table[i]]
  BY DEF Delete
<1>2. RowsOf(k)' = {}
  BY <1>1 DEF RowsOf
<1>3. ASSUME NEW l \in Keys \ {k}
      PROVE  RowsOf(l)' = RowsOf(l) /\ RowsOf(l) \cap RowsOf(k) = {}
  BY <1>1 DEF RowsOf
<1>4. ASSUME NEW l \in Keys \ {k}
      PROVE  NewestRow(l)' = NewestRow(l)
  BY <1>3 DEF NewestRow
<1>5. ASSUME NEW l \in Keys \ {k}
      PROVE  NewestValue(l)' = NewestValue(l)
  <2>1. CASE RowsOf(l) = {}
    BY <1>3, <2>1 DEF NewestValue
  <2>2. CASE RowsOf(l) # {}
    <3>1. NewestRow(l) \in RowsOf(l)
      BY <2>2 DEF NewestIsThere
    <3>2. NewestRow(l) \in Numbers /\ NewestRow(l) \notin RowsOf(k)
      BY <1>3, <3>1 DEF RowsOf
    <3>3. table'[NewestRow(l)] = table[NewestRow(l)]
      BY <1>1, <3>2
    <3> QED BY <1>3, <1>4, <2>2, <3>3 DEF NewestValue
  <2> QED BY <2>1, <2>2
<1> QED BY <1>2, <1>3, <1>4, <1>5 DEF NewestValue

\* In every case a key that has rows has a newest one.
LEMMA NewestStays ==
  ASSUME TypeOK, NewestIsThere, NEW k \in Keys,
         Delete(k) \/ \E v \in Values : Insert(k, v)
  PROVE  NewestIsThere'
<1> SUFFICES ASSUME NEW l \in Keys, RowsOf(l)' # {}
             PROVE  NewestRow(l)' \in RowsOf(l)'
  BY DEF NewestIsThere
<1>1. CASE Delete(k)
  BY <1>1, DeletedIsGone DEF NewestIsThere
<1>2. CASE \E v \in Values : Insert(k, v)
  BY <1>2, InsertedIsNewest DEF NewestIsThere
<1> QED BY <1>1, <1>2

-----------------------------------------------------------------------------
LEMMA InitInv == Init => IInv
<1> SUFFICES ASSUME Init PROVE IInv
  OBVIOUS
<1>1. TypeOK
  <2>1. checkSum \in [Resources -> Int]
    BY DEF Init, NeverSummed
  <2>2. lastRow \in 0..MaxRows
    BY RowsAssumption DEF Init
  <2>3. conn \in [Holders -> {None, "open", Broken}] /\ leaked = FALSE
    BY DEF Init
  <2>4. table \in [Numbers -> Rows \cup {None}] /\ \A i \in Numbers : table[i] = None
    BY DEF Init
  <2>5. home \in [Resources -> Keys \cup {None}] /\ loaded = None /\ load = None
    BY DEF Init
  <2> QED BY <2>1, <2>2, <2>3, <2>4, <2>5 DEF Init, TypeOK
<1>2. \A k \in Keys : RowsOf(k) = {}
  BY DEF Init, RowsOf
<1> QED
  BY <1>1, <1>2, RowsAssumption DEF Init, IInv, NewestIsThere, LoadKnowsItsRow, HomeIsThere

\* Forgetting homes keeps their type.
LEMMA LeftType ==
  ASSUME TypeOK, NEW k \in Keys
  PROVE  /\ Left(k) \in [Resources -> Keys \cup {None}]
         /\ \A r \in Resources : Left(k)[r] # k /\ Left(k)[r] \in {home[r], None}
  BY RowsAssumption DEF TypeOK, Left

\* What the steps of the table keep of its type.
LEMMA InsertType ==
  ASSUME TypeOK, NEW k \in Keys, NEW v \in Values, Insert(k, v)
  PROVE  /\ table' \in [Numbers -> Rows \cup {None}] /\ lastRow' \in 0..MaxRows
         /\ \A i \in Numbers : i > lastRow' => table'[i] = None
         /\ lastRow' > lastRow
<1>1. lastRow' = lastRow + 1 /\ lastRow' \in Numbers /\ lastRow \in 0..MaxRows
  BY RowsAssumption DEF TypeOK, Insert, Numbers
<1>2. [key |-> k, value |-> v] \in Rows
  BY DEF Rows
<1> QED BY <1>1, <1>2, RowsAssumption DEF TypeOK, Insert, Numbers

LEMMA DeleteType ==
  ASSUME TypeOK, NEW k \in Keys, Delete(k)
  PROVE  /\ table' \in [Numbers -> Rows \cup {None}] /\ lastRow' = lastRow
         /\ \A i \in Numbers : i > lastRow' => table'[i] = None
  BY DEF TypeOK, Delete

LEMMA TypeStep ==
  ASSUME IInv, [Next]_vars
  PROVE  TypeOK'
<1> USE DEF rowVars, resourceVars, loaderVars
<1>0. TypeOK /\ NewestIsThere
  BY DEF IInv
<1>1. ASSUME NEW h \in Holders, OpenDatabase(h) PROVE TypeOK'
  <2>1. leaked => h # "persister"
    BY <1>0, <1>1, RowsAssumption DEF TypeOK, OpenDatabase
  <2>2. load # None => h # "loader"
    BY <1>0, <1>1, RowsAssumption DEF TypeOK, OpenDatabase
  <2>3. conn' \in [Holders -> {None, "open", Broken}]
    BY <1>0, <1>1 DEF TypeOK, OpenDatabase
  <2>4. \A g \in Holders : g # h => conn'[g] = conn[g]
    BY <1>0, <1>1 DEF TypeOK, OpenDatabase
  <2> QED BY <1>0, <1>1, <2>1, <2>2, <2>3, <2>4 DEF TypeOK, OpenDatabase, Holders
<1>2. ASSUME NEW h \in Holders, CloseDatabase(h) PROVE TypeOK'
  BY <1>0, <1>2 DEF TypeOK, CloseDatabase, Holders
<1>3. ASSUME NEW r \in Resources, NEW d \in Data, Modify(r, d) PROVE TypeOK'
  <2>1. [resource[r] EXCEPT !.data = d] \in Values
    BY <1>0 DEF TypeOK, Values
  <2> QED BY <1>0, <1>3, <2>1 DEF TypeOK, Modify
<1>4. ASSUME NEW r \in Resources, NEW v \in Values, New(r, v) PROVE TypeOK'
  BY <1>0, <1>4 DEF TypeOK, New, NeverSummed
<1>5. ASSUME NEW r \in Resources, NEW k \in Keys, PersistReturns(r, k) PROVE TypeOK'
  <2>1. resource[r] \in Values /\ Crc[resource[r].data] \in Int
    BY <1>0, RowsAssumption DEF TypeOK, Values
  <2>2. checkSum' \in [Resources -> Int]
    BY <1>0, <1>5, <2>1 DEF TypeOK, PersistReturns, UpdateChecksum
  <2>3. home' \in [Resources -> Keys \cup {None}]
    BY <1>0, <1>5, LeftType DEF PersistReturns
  <2>4. lastRow' > lastRow /\ lastRow \in Nat /\ lastRow' \in Nat
    BY <1>0, <1>5, <2>1, InsertType, RowsAssumption DEF PersistReturns, TypeOK
  <2>5. load # None => load.row \in Nat
    BY <1>0, RowsAssumption DEF TypeOK, Loads, Numbers
  <2> QED
    BY <1>0, <1>5, <2>1, <2>2, <2>3, <2>4, <2>5, InsertType DEF PersistReturns, TypeOK
<1>6. ASSUME NEW r \in Resources, NEW k \in Keys, PersistThrows(r, k) PROVE TypeOK'
  <2>1. Crc[resource[r].data] \in Int
    BY <1>0, RowsAssumption DEF TypeOK, Values
  <2>2. checkSum' \in [Resources -> Int] /\ home' \in [Resources -> Keys \cup {None}]
    BY <1>0, <1>6, <2>1 DEF TypeOK, PersistThrows, UpdateChecksum
  <2>3. leaked' \in BOOLEAN /\ (leaked' => conn'["persister"] = "open")
    <3>1. CASE UNCHANGED leaked
      BY <1>0, <1>6, <3>1 DEF TypeOK, PersistThrows
    <3>2. CASE conn["persister"] = "open" /\ leaked' \in {leaked, TRUE}
      <4>1. conn' = conn /\ leaked \in BOOLEAN
        BY <1>0, <1>6 DEF PersistThrows, TypeOK
      <4> QED BY <3>2, <4>1
    <3> QED BY <1>6, <3>1, <3>2 DEF PersistThrows
  <2> QED BY <1>0, <1>6, <2>2, <2>3 DEF TypeOK, PersistThrows
<1>7. ASSUME NEW k \in Keys, PersisterLoad(k) PROVE TypeOK'
  BY <1>0, <1>7, DeleteType, LeftType DEF TypeOK, PersisterLoad
<1>8. ASSUME NEW k \in Keys, OtherWrites(k) PROVE TypeOK'
  <2>1. CASE Delete(k)
    BY <1>0, <1>8, <2>1, DeleteType, LeftType DEF TypeOK, OtherWrites
  <2>2. CASE \E v \in Values : Insert(k, v)
    <3>1. lastRow' > lastRow /\ lastRow \in Nat /\ lastRow' \in Nat
      BY <1>0, <2>2, InsertType, RowsAssumption DEF TypeOK
    <3>2. load # None => load.row \in Nat
      BY <1>0, RowsAssumption DEF TypeOK, Loads, Numbers
    <3> QED BY <1>0, <1>8, <2>2, <3>1, <3>2, InsertType, LeftType DEF TypeOK, OtherWrites
  <2> QED BY <1>8, <2>1, <2>2 DEF OtherWrites
<1>9. ASSUME NEW k \in Keys, LoadSelects(k) PROVE TypeOK'
  <2>1. RowsOf(k) # {} /\ NewestRow(k) \in RowsOf(k)
    BY <1>0, <1>9 DEF LoadSelects, NewestIsThere, NewestRow
  <2>2. NewestRow(k) \in Numbers /\ table[NewestRow(k)] \in Rows
    BY <1>0, <2>1 DEF RowsOf, TypeOK
  <2>3. table[NewestRow(k)].value.shape \in Shapes
    BY <2>2 DEF Rows, Values
  <2>4. load' \in Loads /\ load'.row = NewestRow(k)
    BY <1>9, <2>2, <2>3 DEF LoadSelects, Loads
  <2>5. NewestRow(k) <= lastRow
    BY <1>0, <2>1, <2>2, RowsAssumption DEF TypeOK, RowsOf, Numbers
  <2> QED BY <1>0, <1>9, <2>4, <2>5 DEF TypeOK, LoadSelects
<1>10. ASSUME LoadReturns PROVE TypeOK'
  <2>1. load \in Loads /\ table[load.row] \in Rows
    BY <1>0, <1>10 DEF TypeOK, LoadReturns, Loads
  <2>2. [shape |-> load.shape, data |-> table[load.row].value.data] \in Values
    BY <2>1 DEF Loads, Rows, Values
  <2>3. loaded' \in Answers
    BY <1>10, <2>1, <2>2 DEF LoadReturns, Loads, Answers
  <2> QED BY <1>0, <1>10, <2>3 DEF TypeOK, LoadReturns
<1>11. ASSUME LoadThrows PROVE TypeOK'
  BY <1>0, <1>11 DEF TypeOK, LoadThrows
<1>12. ASSUME NEW k \in Keys, RegisterResource(k) \/ UnregisterResource(k) PROVE TypeOK'
  BY <1>0, <1>12 DEF TypeOK, RegisterResource, UnregisterResource
<1>13. ASSUME UnregisterAll PROVE TypeOK'
  BY <1>0, <1>13 DEF TypeOK, UnregisterAll
<1>14. ASSUME Restart PROVE TypeOK'
  <2>1. checkSum' \in [Resources -> Int] /\ home' \in [Resources -> Keys \cup {None}]
    BY <1>14 DEF Restart, NeverSummed
  <2>2. conn' \in [Holders -> {None, "open", Broken}]
    BY <1>14 DEF Restart
  <2>3. leaked' \in BOOLEAN /\ ~leaked'
    BY <1>14 DEF Restart
  <2> QED BY <1>0, <1>14, <2>1, <2>2, <2>3 DEF TypeOK, Restart
<1>15. CASE UNCHANGED vars
  BY <1>0, <1>15 DEF TypeOK, vars
<1> QED
  BY <1>1, <1>2, <1>3, <1>4, <1>5, <1>6, <1>7, <1>8, <1>9, <1>10, <1>11, <1>12, <1>13,
     <1>14, <1>15 DEF Next, PersisterStep, LoaderStep, Holders

\* Every step leaves the table alone, empties a key or adds a row.
LEMMA TableSteps ==
  ASSUME TypeOK, [Next]_vars
  PROVE  \/ UNCHANGED rowVars
         \/ \E k \in Keys : /\ Delete(k) \/ \E v \in Values : Insert(k, v)
                            /\ load' = load
<1>1. \A r \in Resources : resource[r] \in Values
  BY DEF TypeOK
<1> QED
  BY <1>1 DEF Next, PersisterStep, LoaderStep, vars, rowVars, resourceVars, loaderVars, OpenDatabase, CloseDatabase,
     Modify, New, PersistReturns, PersistThrows, PersisterLoad, OtherWrites, LoadSelects,
     LoadReturns, LoadThrows, RegisterResource, UnregisterResource, UnregisterAll, Restart

\* A Load begins, ends or goes on.
LEMMA LoadSteps ==
  ASSUME [Next]_vars
  PROVE  load' = load \/ load' = None \/ \E k \in Keys : LoadSelects(k)
  BY DEF Next, PersisterStep, LoaderStep, vars, rowVars, resourceVars, loaderVars, OpenDatabase, CloseDatabase,
     Modify, New, PersistReturns, PersistThrows, PersisterLoad, OtherWrites, LoadSelects,
     LoadReturns, LoadThrows, RegisterResource, UnregisterResource, UnregisterAll, Restart

LEMMA NewestStep ==
  ASSUME IInv, [Next]_vars
  PROVE  NewestIsThere'
<1>1. CASE UNCHANGED rowVars
  BY <1>1, SameTable DEF IInv, NewestIsThere, rowVars
<1>2. ASSUME NEW k \in Keys, Delete(k) \/ \E v \in Values : Insert(k, v)
      PROVE  NewestIsThere'
  BY <1>2, NewestStays DEF IInv
<1> QED BY <1>1, <1>2, TableSteps DEF IInv

LEMMA LoadStep ==
  ASSUME IInv, [Next]_vars
  PROVE  LoadKnowsItsRow'
<1>0. TypeOK /\ NewestIsThere /\ LoadKnowsItsRow
  BY DEF IInv
<1> SUFFICES ASSUME load' # None, table'[load'.row] # None
             PROVE  table'[load'.row].key = load'.key /\ table'[load'.row].value.shape = load'.shape
  BY DEF LoadKnowsItsRow
<1>1. CASE \E k \in Keys : LoadSelects(k)
  <2> PICK k \in Keys : LoadSelects(k)
    BY <1>1
  <2>1. NewestRow(k) \in RowsOf(k) /\ UNCHANGED table
    BY <1>0 DEF LoadSelects, NewestIsThere, NewestRow, rowVars
  <2> QED BY <2>1 DEF LoadSelects, RowsOf
<1>2. CASE load' = load /\ UNCHANGED table
  BY <1>0, <1>2 DEF LoadKnowsItsRow
<1>3. ASSUME load' = load, NEW k \in Keys, Delete(k) \/ \E v \in Values : Insert(k, v)
      PROVE  table'[load.row] \in {table[load.row], None}
  <2>1. load.row \in Numbers /\ load.row <= lastRow /\ lastRow \in Nat
    BY <1>0, <1>3, RowsAssumption DEF TypeOK, Loads
  <2>2. CASE Delete(k)
    BY <2>1, <2>2 DEF Delete
  <2>3. CASE \E v \in Values : Insert(k, v)
    <3>1. load.row # lastRow + 1
      BY <2>1 DEF Numbers
    <3> QED BY <1>0, <2>1, <2>3, <3>1 DEF Insert, TypeOK
  <2> QED BY <1>3, <2>2, <2>3
<1>4. CASE load' = load /\ \E k \in Keys : Delete(k) \/ \E v \in Values : Insert(k, v)
  <2>1. table'[load.row] = table[load.row]
    BY <1>3, <1>4
  <2> QED BY <1>0, <1>4, <2>1 DEF LoadKnowsItsRow
<1> QED BY <1>0, <1>1, <1>2, <1>4, TableSteps, LoadSteps DEF rowVars

LEMMA HomeStep ==
  ASSUME IInv, [Next]_vars
  PROVE  HomeIsThere'
<1> USE DEF rowVars, resourceVars, loaderVars
<1>0. TypeOK /\ NewestIsThere /\ HomeIsThere /\ None \notin Keys
  BY RowsAssumption DEF IInv
<1> SUFFICES ASSUME NEW s \in Resources, NEW l \in Keys, home'[s] = l
             PROVE  /\ RowsOf(l)' # {}
                    /\ NewestValue(l)'.shape = resource'[s].shape
                    /\ checkSum'[s] = Crc[NewestValue(l)'.data]
  BY DEF HomeIsThere
\* What is left alone in a step that says nothing of s or l.
<1>1. CASE /\ RowsOf(l)' = RowsOf(l) /\ NewestValue(l)' = NewestValue(l)
           /\ home'[s] = home[s] /\ checkSum'[s] = checkSum[s]
           /\ resource'[s].shape = resource[s].shape
  BY <1>0, <1>1 DEF HomeIsThere
\* Somebody writes or removes a key that is not l.
<1>2. ASSUME NEW k \in Keys, Delete(k) \/ \E v \in Values : Insert(k, v),
             home' = Left(k), UNCHANGED resourceVars
      PROVE  /\ l # k /\ home'[s] = home[s]
             /\ RowsOf(l)' = RowsOf(l) /\ NewestValue(l)' = NewestValue(l)
  <2>1. l # k /\ home'[s] = home[s]
    BY <1>0, <1>2, LeftType
  <2>2. CASE Delete(k)
    BY <1>0, <2>1, <2>2, DeletedIsGone
  <2>3. CASE \E v \in Values : Insert(k, v)
    BY <1>0, <2>1, <2>3, InsertedIsNewest
  <2> QED BY <1>2, <2>1, <2>2, <2>3
<1>3. CASE \E k \in Keys : PersisterLoad(k) \/ OtherWrites(k)
  BY <1>1, <1>2, <1>3 DEF PersisterLoad, OtherWrites
<1>4. ASSUME NEW r \in Resources, NEW k \in Keys, PersistReturns(r, k)
      PROVE  /\ RowsOf(l)' # {}
             /\ NewestValue(l)'.shape = resource'[s].shape
             /\ checkSum'[s] = Crc[NewestValue(l)'.data]
  <2>1. resource[r] \in Values /\ Insert(k, resource[r]) /\ resource' = resource
    BY <1>0, <1>4 DEF TypeOK, PersistReturns
  <2>2. CASE s = r
    <3>1. l = k /\ checkSum'[s] = Crc[resource[r].data]
      BY <1>0, <1>4, <2>2, LeftType DEF PersistReturns, UpdateChecksum, TypeOK
    <3>2. RowsOf(k)' # {} /\ NewestValue(k)' = resource[r]
      BY <1>0, <2>1, InsertedIsNewest
    <3> QED BY <2>1, <2>2, <3>1, <3>2
  <2>3. CASE s # r
    <3>1. l # k /\ home'[s] = home[s]
      BY <1>0, <1>4, <2>3, LeftType DEF PersistReturns
    <3>2. checkSum'[s] = checkSum[s]
      BY <1>0, <1>4, <2>3 DEF PersistReturns, UpdateChecksum, TypeOK
    <3>3. RowsOf(l)' = RowsOf(l) /\ NewestValue(l)' = NewestValue(l)
      BY <1>0, <2>1, <3>1, InsertedIsNewest
    <3> QED BY <1>1, <2>1, <3>1, <3>2, <3>3
  <2> QED BY <2>2, <2>3
\* The other steps leave the table alone.
<1>5. CASE UNCHANGED <<table, home, checkSum, resource>>
  BY <1>1, <1>5, SameTable
<1>6. ASSUME NEW r \in Resources, NEW k \in Keys, PersistThrows(r, k)
      PROVE  RowsOf(l)' = RowsOf(l) /\ NewestValue(l)' = NewestValue(l) /\ s # r
  BY <1>0, <1>6, SameTable DEF PersistThrows, TypeOK
<1>7. CASE \E r \in Resources, k \in Keys : PersistThrows(r, k)
  BY <1>0, <1>1, <1>6, <1>7 DEF PersistThrows, UpdateChecksum, TypeOK
<1>8. CASE \E r \in Resources : (\E d \in Data : Modify(r, d)) \/ (\E v \in Values : New(r, v))
  <2>1. RowsOf(l)' = RowsOf(l) /\ NewestValue(l)' = NewestValue(l)
    BY <1>8, SameTable DEF Modify, New
  <2>2. CASE \E r \in Resources, d \in Data : Modify(r, d)
    <3>1. resource'[s].shape = resource[s].shape
      BY <1>0, <2>2 DEF Modify, TypeOK, Values
    <3> QED BY <1>1, <2>1, <2>2, <3>1 DEF Modify
  <2>3. CASE \E r \in Resources, v \in Values : New(r, v)
    BY <1>0, <1>1, <2>1, <2>3 DEF New, TypeOK
  <2> QED BY <1>8, <2>2, <2>3
<1>9. CASE Restart
  BY <1>0, <1>9 DEF Restart
<1> QED
  BY <1>3, <1>4, <1>5, <1>7, <1>8, <1>9 DEF Next, PersisterStep, LoaderStep, vars, OpenDatabase, CloseDatabase,
     LoadSelects, LoadReturns, LoadThrows, RegisterResource, UnregisterResource, UnregisterAll

LEMMA Invariance == Spec => []IInv
<1>1. IInv /\ [Next]_vars => IInv'
  BY TypeStep, NewestStep, LoadStep, HomeStep DEF IInv
<1> QED BY InitInv, <1>1, PTL DEF Spec

\* Types, and the numbers of rows: none is in use that was not given out
\* (ResourcePersister.cpp:58-64), and a Load knows one that was.
THEOREM TypeCorrect == Spec => []TypeOK
<1>1. IInv => TypeOK
  BY DEF IInv
<1> QED BY Invariance, <1>1, PTL

\* The row a Load has found is its own when it opens the blob, however the table was
\* changed in between (ResourceLoader.cpp:124-128).
THEOREM LoadsItsOwnRow == Spec => []LoadKnowsItsRow
<1>1. IInv => LoadKnowsItsRow
  BY DEF IInv
<1> QED BY Invariance, <1>1, PTL

\* Different bytes have different checksums.
CrcTellsApart == \A c, d \in Data : Crc[c] = Crc[d] => c = d

\* Where checksums tell the contents apart, a Persist that is skipped has its data in
\* the table, but for the exceptions that home names (ResourcePersister.cpp:87-100).
THEOREM SkippedIsThere ==
  ASSUME CrcTellsApart
  PROVE  Spec => []SkipsWhatIsThere
<1>1. ASSUME IInv PROVE SkipsWhatIsThere
  <2> SUFFICES ASSUME NEW r \in Resources, home[r] # None, PersistSkips(r, home[r])
               PROVE  RowsOf(home[r]) # {} /\ table[NewestRow(home[r])].value = resource[r]
    BY DEF SkipsWhatIsThere
  <2> PICK k \in Keys : k = home[r]
    BY <1>1 DEF IInv, TypeOK
  <2>1. /\ RowsOf(k) # {} /\ NewestValue(k).shape = resource[r].shape
        /\ checkSum[r] = Crc[NewestValue(k).data]
    BY <1>1 DEF IInv, HomeIsThere
  <2>2. NewestRow(k) \in Numbers /\ table[NewestRow(k)] \in Rows
    BY <1>1, <2>1 DEF IInv, NewestIsThere, RowsOf, TypeOK
  <2>3. NewestValue(k) = table[NewestRow(k)].value /\ NewestValue(k) \in Values
    BY <2>1, <2>2 DEF NewestValue, Rows
  <2>4. resource[r] \in Values
    BY <1>1 DEF IInv, TypeOK
  <2>5. NewestValue(k).data = resource[r].data
    BY <2>1, <2>3, <2>4, CrcTellsApart DEF CrcTellsApart, PersistSkips, Values
  <2>6. NewestValue(k) = resource[r]
    BY <2>1, <2>3, <2>4, <2>5 DEF Values
  <2> QED BY <2>1, <2>3, <2>6
<1> QED BY Invariance, <1>1, PTL

-----------------------------------------------------------------------------
(* The refinement.                                                         *)

Pending ==
  IF load = None \/ table[load.row] = None THEN None
  ELSE [key |-> load.key, value |-> table[load.row].value]

LEMMA ExchangedTwice ==
  ASSUME NEW v \in Values
  PROVE  Exchanged(Exchanged(v)) = v
<1>1. v.shape \in Nat \X Nat /\ v = [shape |-> v.shape, data |-> v.data]
  BY RowsAssumption DEF Values
<1>2. Exchanged(v) = [shape |-> <<v.shape[2], v.shape[1]>>, data |-> v.data]
  BY <1>1 DEF Exchanged
<1>3. Exchanged(Exchanged(v)) = [shape |-> <<v.shape[1], v.shape[2]>>, data |-> v.data]
  BY <1>2 DEF Exchanged
<1> QED BY <1>1, <1>3

LEMMA AbstractInit == Init => Snapshots!Init
  BY DEF Init, Snapshots!Init, NewestValue, RowsOf

\* A step that writes or removes a key.
LEMMA AbstractWrite ==
  ASSUME TypeOK, NewestIsThere, NEW k \in Keys, UNCHANGED <<load, loaded>>,
         Delete(k) \/ \E v \in Values : Insert(k, v)
  PROVE  Snapshots!Next
<1> DEFINE S == [l \in Keys |-> NewestValue(l)]
<1>1. load # None => load.row \in Numbers /\ load.row <= lastRow
  BY DEF TypeOK, Loads
<1>2. CASE Delete(k)
  <2>1. S' = [S EXCEPT ![k] = None]
    BY <1>2, DeletedIsGone
  <2>2. Pending' \in {Pending, None}
    BY <1>1, <1>2 DEF Pending, Delete
  <2> QED BY <2>1, <2>2 DEF Snapshots!Next, Snapshots!Remove, Pending
<1>3. CASE \E v \in Values : Insert(k, v)
  <2> PICK v \in Values : Insert(k, v)
    BY <1>3
  <2>1. S' = [S EXCEPT ![k] = v]
    BY InsertedIsNewest
  <2>2. ASSUME load # None PROVE table'[load.row] = table[load.row]
    <3>1. load.row # lastRow + 1 /\ load.row \in Numbers
      BY <1>1, <2>2, RowsAssumption DEF TypeOK, Numbers
    <3> QED BY <3>1 DEF TypeOK, Insert
  <2>3. Pending' = Pending
    BY <2>2 DEF Pending
  <2> QED BY <2>1, <2>3 DEF Snapshots!Next, Snapshots!Save, Pending
<1> QED BY <1>2, <1>3

LEMMA AbstractBegin ==
  ASSUME TypeOK, NewestIsThere, NEW k \in Keys, LoadSelects(k)
  PROVE  Snapshots!Begin(k)
<1>1. NewestRow(k) \in Numbers /\ table[NewestRow(k)] \in Rows /\ RowsOf(k) # {}
  BY DEF TypeOK, NewestIsThere, LoadSelects, NewestRow, RowsOf
<1>2. NewestValue(k) = table[NewestRow(k)].value /\ NewestValue(k) \in Values
  BY <1>1 DEF NewestValue, Rows
<1>3. load' # None /\ load'.key = k /\ load'.row = NewestRow(k) /\ table' = table
  <2>1. load' \in Loads
    BY <1>1, <1>2 DEF LoadSelects, Loads, Rows, Values
  <2> QED BY <2>1, RowsAssumption DEF LoadSelects, rowVars
<1>4. Pending = None /\ Pending' = [key |-> k, value |-> NewestValue(k)]
  BY <1>1, <1>2, <1>3, RowsAssumption DEF Pending, LoadSelects
<1>5. NewestValue(k) # None
  BY <1>2, RowsAssumption
<1>6. [l \in Keys |-> NewestValue(l)]' = [l \in Keys |-> NewestValue(l)]
  BY <1>3, SameTable
<1>7. loaded' = loaded
  BY DEF LoadSelects
<1> QED BY <1>4, <1>5, <1>6, <1>7 DEF Snapshots!Begin, Pending

LEMMA AbstractReturn ==
  ASSUME TypeOK, LoadKnowsItsRow, LoadReturns
  PROVE  Snapshots!Return
<1> DEFINE value == table[load.row].value
<1>1. load \in Loads /\ table[load.row] \in Rows /\ table[load.row].key = load.key
      /\ value.shape = load.shape
  BY DEF TypeOK, LoadKnowsItsRow, LoadReturns, Loads
<1>2. value \in Values /\ value = [shape |-> load.shape, data |-> value.data]
  BY <1>1 DEF Rows, Values
<1>3. loaded' = [key |-> load.key, value |-> Exchanged(value)]
  BY <1>2 DEF LoadReturns
<1>4. loaded' # None /\ Exchanged(loaded'.value) = value
  <2>1. loaded' \in Answers
    BY <1>1, <1>2, <1>3 DEF Loads, Answers
  <2> QED BY <1>2, <1>3, <2>1, ExchangedTwice, RowsAssumption
<1>5. Pending = [key |-> load.key, value |-> value] /\ Pending # None /\ Pending' = None
  BY <1>1, <1>2, RowsAssumption DEF Pending, LoadReturns, Loads, Rows
<1>6. [l \in Keys |-> NewestValue(l)]' = [l \in Keys |-> NewestValue(l)]
  BY SameTable DEF LoadReturns, rowVars
<1> QED BY <1>3, <1>4, <1>5, <1>6 DEF Snapshots!Return, Pending

\* All other steps change none of what the store sees, or give up a Load.
LEMMA AbstractOther ==
  ASSUME UNCHANGED <<table, loaded>>, load' \in {load, None}
  PROVE  Snapshots!Fail \/ UNCHANGED <<[k \in Keys |-> NewestValue(k)], Pending, loaded>>
<1>1. [k \in Keys |-> NewestValue(k)]' = [k \in Keys |-> NewestValue(k)]
  BY SameTable
<1>2. CASE load' = load
  BY <1>1, <1>2 DEF Pending
<1>3. CASE load' = None
  BY <1>1, <1>3 DEF Snapshots!Fail
<1> QED BY <1>2, <1>3

LEMMA AbstractStep ==
  ASSUME IInv, [Next]_vars
  PROVE  [Snapshots!Next]_<<[k \in Keys |-> NewestValue(k)], Pending,
           IF loaded = None THEN None
           ELSE [key |-> loaded.key, value |-> Exchanged(loaded.value)]>>
<1> USE DEF rowVars, resourceVars, loaderVars
<1>0. TypeOK /\ NewestIsThere /\ LoadKnowsItsRow
  BY DEF IInv
<1>1. ASSUME NEW k \in Keys,
             PersisterLoad(k) \/ OtherWrites(k) \/ \E r \in Resources : PersistReturns(r, k)
      PROVE  Snapshots!Next
  <2>1. UNCHANGED <<load, loaded>> /\ (Delete(k) \/ \E v \in Values : Insert(k, v))
    BY <1>0, <1>1 DEF PersisterLoad, OtherWrites, PersistReturns, TypeOK
  <2> QED BY <1>0, <2>1, AbstractWrite
<1>2. ASSUME NEW k \in Keys, LoadSelects(k) PROVE Snapshots!Next
  BY <1>0, <1>2, AbstractBegin DEF Snapshots!Next
<1>3. ASSUME LoadReturns PROVE Snapshots!Next
  BY <1>0, <1>3, AbstractReturn DEF Snapshots!Next
<1>4. CASE UNCHANGED <<table, loaded>> /\ load' \in {load, None}
  BY <1>4, AbstractOther DEF Snapshots!Next
<1> QED
  BY <1>1, <1>2, <1>3, <1>4 DEF Next, PersisterStep, LoaderStep, vars, OpenDatabase, CloseDatabase, Modify, New,
     PersistThrows, LoadThrows, RegisterResource, UnregisterResource, UnregisterAll, Restart

\* Loads are snapshots: each returns, with its sizes exchanged, what its key held when
\* it began; a later Persist is found before an earlier one
\* (ResourcePersister.cpp:82-113, ResourceLoader.cpp:102-139).
THEOREM Refinement == Spec => ImplementsSnapshots
<1>1. IInv /\ [Next]_vars => [Snapshots!Next]_<<[k \in Keys |-> NewestValue(k)], Pending,
           IF loaded = None THEN None
           ELSE [key |-> loaded.key, value |-> Exchanged(loaded.value)]>>
  BY AbstractStep
<1> QED
  BY AbstractInit, Invariance, <1>1, PTL DEF Spec, ImplementsSnapshots, Snapshots!Spec, Pending
=============================================================================
