----------------------- MODULE InventoryServiceProofs ----------------------
(***************************************************************************)
(* InventoryService keeps its type invariant, answers with parts that were *)
(* live during the call and refuses only with cause, for any number of     *)
(* calls and of edits.  The history of the table only grows, so a moment   *)
(* that bore witness to a read still does; a new read takes the present as *)
(* its moment, which is not before any other.                              *)
(* The price and the refusals of CreateOrder follow, for any catalogue,    *)
(* any edits and any number of calls: the inventory under CreateOrder is   *)
(* still the inventory, so what is proved of its answers carries over.     *)
(***************************************************************************)
EXTENDS InventoryContract, OrderCheckoutProperties, FiniteSetTheorems, FoldLemmas

\* A call that waits has no answer yet, one that is answered is over, and what
\* has been read had a UUID that parses.
PhaseInv ==
  \A c \in Calls :
    /\ pc[c] # "done" => code[c] = NoCode
    /\ pc[c] = "idle" => parts[c] = <<>>
    /\ pc[c] # "idle" => req[c] \in Wants /\ since[c] \in 1 .. Len(versions)
    /\ pc[c] = "serving" /\ req[c].uuids # <<>> => Len(parts[c]) < Len(req[c].uuids)
    /\ pc[c] # "idle" /\ req[c].uuids # <<>> =>
         \A i \in 1 .. Len(parts[c]) : Wanted(c, i) \in PartIds

InventoryInv == TypeOK /\ PhaseInv /\ PartsWereLive /\ RefusalJustified

\* What a call wants is a list of strings.
LEMMA WantedLists == ASSUME NEW w \in Wants PROVE w.uuids \in Seq(Raws)
<1>1. CASE w \in [uuids : {<<raw>> : raw \in Raws}]
  <2>1. PICK raw \in Raws : w.uuids = <<raw>>
    BY <1>1
  <2>. QED  BY <2>1
<1>2. CASE w \in [uuids : RawLists, part_type : PartTypes]
  BY <1>2, InventoryAssumption
<1>. QED  BY <1>1, <1>2 DEF Wants

\* The present table is the last one of the history.
LEMMA Present ==
  ASSUME TypeOK
  PROVE  /\ Len(versions) \in Nat \ {0}
         /\ versions[Len(versions)] \in Table
         /\ \A p \in PartIds : Row(p) \in Rows \cup {NoPart} /\ (Row(p) # NoPart => Row(p).uuid = p)
<1>1. versions \in Seq(Table) /\ versions # <<>>
  BY DEF TypeOK
<1>2. Len(versions) \in Nat \ {0} /\ versions[Len(versions)] \in Table
  BY <1>1
<1>. QED  BY <1>2 DEF Row, Table

\* There are finitely many rows in the table.
LEMMA FiniteTable ==
  ASSUME TypeOK, NEW S, S \subseteq {Row(id) : id \in PartIds} \ {NoPart}
  PROVE  IsFiniteSet(S)
<1>. DEFINE ids == {id \in PartIds : Row(id) \in S}
            row == [id \in ids |-> Row(id)]
<1>1. IsFiniteSet(ids)
  BY FS_Subset, InventoryAssumption
<1>2. row \in Surjection(ids, S)
  BY DEF Surjection
<1>. QED  BY <1>1, <1>2, FS_Surjection DEF ExistsSurjection

\* A listing is a sequence of rows.
LEMMA ListingType ==
  ASSUME TypeOK, NEW S, S \subseteq {Row(id) : id \in PartIds} \ {NoPart},
         NEW s, s \in SetToSeqs(S)
  PROVE  s \in Seq(Rows)
<1>1. Cardinality(S) \in Nat
  BY FiniteTable, FS_CardinalityType
<1>2. S \subseteq Rows
  BY Present
<1>3. s \in [1 .. Cardinality(S) -> S]
  BY DEF SetToSeqs
<1>. QED  BY <1>1, <1>2, <1>3

-----------------------------------------------------------------------------
(* The seeded catalogue satisfies the invariant. *)
LEMMA InventoryInit == Init => InventoryInv
<1>. SUFFICES ASSUME Init PROVE InventoryInv
  OBVIOUS
<1>1. PICK t \in Table : versions = <<t>>
  BY DEF Init
<1>2. versions \in Seq(Table) /\ versions # <<>> /\ Len(versions) = 1
  BY <1>1
<1>3. TypeOK
  BY <1>2 DEF Init, TypeOK
<1>4. PhaseInv /\ PartsWereLive /\ RefusalJustified
  BY DEF Init, PhaseInv, PartsWereLive, RefusalJustified, NoCode
<1>. QED  BY <1>3, <1>4 DEF InventoryInv
\* What a call has read, and why it was refused, do not depend on other calls.
LEMMA OtherCalls ==
  ASSUME InventoryInv, NEW c \in Calls, UNCHANGED versions,
         \A d \in Calls \ {c} : /\ pc'[d] = pc[d] /\ req'[d] = req[d] /\ since'[d] = since[d]
                                /\ parts'[d] = parts[d] /\ code'[d] = code[d],
         (pc[c] # "idle" /\ req[c].uuids # <<>> =>
            /\ code[c] = "OK" => Len(parts[c]) = Len(req[c].uuids)
            /\ ReadsLive(c))',
         (code[c] \in {"INVALID_ARGUMENT", "NOT_FOUND"} => Justified(c))'
  PROVE  PartsWereLive' /\ RefusalJustified'
<1>1. ASSUME NEW d \in Calls \ {c}, pc'[d] # "idle", req'[d].uuids # <<>>
      PROVE  (/\ code[d] = "OK" => Len(parts[d]) = Len(req[d].uuids)
              /\ ReadsLive(d))'
  <2>1. /\ code[d] = "OK" => Len(parts[d]) = Len(req[d].uuids)
        /\ ReadsLive(d)
    BY <1>1 DEF InventoryInv, PartsWereLive
  <2>2. PICK at \in [DOMAIN parts[d] -> Span(d)] :
          /\ \A i, j \in DOMAIN at : i <= j => at[i] <= at[j]
          /\ \A i \in DOMAIN at : parts[d][i] = versions[at[i]][Wanted(d, i)]
    BY <2>1 DEF ReadsLive
  <2>3. /\ at \in [DOMAIN parts'[d] -> Span(d)']
        /\ \A i \in DOMAIN at : parts'[d][i] = versions'[at[i]][Wanted(d, i)']
    BY <2>2 DEF Span, Wanted
  <2>4. ReadsLive(d)'
    BY <2>2, <2>3 DEF ReadsLive
  <2>. QED  BY <2>1, <2>4
<1>2. ASSUME NEW d \in Calls \ {c}, code'[d] \in {"INVALID_ARGUMENT", "NOT_FOUND"}
      PROVE  Justified(d)'
  <2>1. Justified(d)
    BY <1>2 DEF InventoryInv, RefusalJustified
  <2>2. Span(d)' = Span(d) /\ \A i : Wanted(d, i)' = Wanted(d, i)
    BY DEF Span, Wanted
  <2>. QED  BY <2>1, <2>2 DEF Justified
<1>. QED  BY <1>1, <1>2 DEF PartsWereLive, RefusalJustified

\* A new request begins its span at the present version.
LEMMA ReceiveInv ==
  ASSUME InventoryInv, NEW c \in Calls, NEW want \in Wants, Receive(c, want)
  PROVE  InventoryInv'
<1>. USE DEF Receive
<1>1. TypeOK'
  BY Present DEF InventoryInv, TypeOK
<1>2. PhaseInv'
  <2>1. want.uuids # <<>> => Len(want.uuids) > 0
    BY WantedLists
  <2>. QED  BY <2>1, Present DEF InventoryInv, TypeOK, PhaseInv, Wanted
<1>3. PartsWereLive' /\ RefusalJustified'
  <2>1. parts'[c] = <<>> /\ code'[c] = NoCode
    BY DEF InventoryInv, PhaseInv
  <2>2. ReadsLive(c)'
    <3>. DEFINE at == [i \in DOMAIN parts'[c] |-> 0]
    <3>1. DOMAIN parts'[c] = {} /\ at \in [DOMAIN parts'[c] -> Span(c)']
      BY <2>1
    <3>. QED  BY <3>1 DEF ReadsLive
  <2>. QED  BY <2>1, <2>2, OtherCalls DEF NoCode, InventoryInv, TypeOK
<1>. QED  BY <1>1, <1>2, <1>3 DEF InventoryInv

\* A part that cannot be read ends the call at the place in the list it has.
LEMMA RefuseInv ==
  ASSUME InventoryInv, NEW c \in Calls, RefusePart(c)
  PROVE  InventoryInv'
<1>. USE DEF RefusePart, Reading, Answer
<1>1. TypeOK'
  BY DEF InventoryInv, TypeOK, StatusOf, Codes
<1>2. PhaseInv'
  BY DEF InventoryInv, TypeOK, PhaseInv, NoCode, StatusOf, Wanted
<1>3. (req[c].uuids # <<>> => ReadsLive(c))'
  <2>1. req[c].uuids # <<>> => ReadsLive(c)
    BY DEF InventoryInv, PartsWereLive
  <2>. QED  BY <2>1 DEF ReadsLive, Span, Wanted
<1>4. Justified(c)'
  <2>1. /\ Len(parts[c]) \in Nat /\ Len(parts[c]) + 1 \in DOMAIN req[c].uuids
        /\ req[c].uuids # <<>> /\ NextId(c) = Wanted(c, Len(parts[c]) + 1)
    BY WantedLists DEF InventoryInv, TypeOK, PhaseInv, NextId, Wanted
  <2>2. \A j \in 1 .. Len(parts[c]) : Wanted(c, j) \in PartIds
    BY <2>1 DEF InventoryInv, PhaseInv
  <2>3. NextId(c) # Malformed => versions[Len(versions)][NextId(c)] = NoPart
    BY DEF Known, Row
  <2>4. Len(versions) \in Span(c)
    BY Present DEF InventoryInv, PhaseInv, Span
  <2>5. Span(c)' = Span(c) /\ \A i : Wanted(c, i)' = Wanted(c, i)
    BY DEF Span, Wanted
  <2>6. code'[c] = StatusOf(NextId(c))
    BY DEF InventoryInv, TypeOK
  <2>. QED  BY <2>1, <2>2, <2>3, <2>4, <2>5, <2>6 DEF Justified, StatusOf
<1>5. PartsWereLive' /\ RefusalJustified'
  BY <1>3, <1>4, OtherCalls DEF InventoryInv, TypeOK, StatusOf
<1>. QED  BY <1>1, <1>2, <1>5 DEF InventoryInv

\* A call reads one more part, at the present version.
LEMMA ReadPartInv ==
  ASSUME InventoryInv, NEW c \in Calls, ReadPart(c)
  PROVE  InventoryInv'
<1>. DEFINE n == Len(parts[c])
            row == Row(NextId(c))
<1>. USE DEF ReadPart, Reading
<1>1. /\ n \in Nat /\ n + 1 \in DOMAIN req[c].uuids /\ req[c].uuids # <<>>
      /\ NextId(c) = Wanted(c, n + 1) /\ NextId(c) \in PartIds
      /\ pc[c] = "serving" /\ code[c] = NoCode
  <2>1. pc[c] = "serving" /\ code[c] = NoCode /\ req[c].uuids \in Seq(Raws) /\ n \in Nat
        /\ n < Len(req[c].uuids)
    BY WantedLists DEF InventoryInv, TypeOK, PhaseInv
  <2>2. n + 1 \in DOMAIN req[c].uuids /\ req[c].uuids # <<>>
    BY <2>1
  <2>3. NextId(c) = Wanted(c, n + 1) /\ NextId(c) \in PartIds
    BY <2>1, <2>2, InventoryAssumption DEF NextId, Wanted, Known
  <2>. QED  BY <2>1, <2>2, <2>3
<1>2. row \in Rows
  BY <1>1, Present DEF InventoryInv, Known
<1>3. /\ parts'[c] \in Seq(Rows) /\ Len(parts'[c]) = n + 1 /\ parts'[c][n + 1] = row
      /\ \A i \in 1 .. n : parts'[c][i] = parts[c][i]
      /\ parts' \in [Calls -> Seq(Rows)]
      /\ \A d \in Calls \ {c} : parts'[d] = parts[d]
  BY <1>2 DEF InventoryInv, TypeOK
<1>4. /\ UNCHANGED <<versions, req, since>>
      /\ \/ UNCHANGED <<pc, code>> /\ n + 1 < Len(req[c].uuids)
         \/ /\ pc' = [pc EXCEPT ![c] = "done"] /\ code' = [code EXCEPT ![c] = "OK"]
            /\ n + 1 = Len(req[c].uuids)
  BY <1>1, <1>3, WantedLists DEF InventoryInv, TypeOK, PhaseInv, Answer
<1>. HIDE DEF ReadPart, Reading
<1>5. TypeOK'
  BY <1>3, <1>4 DEF InventoryInv, TypeOK, Codes
<1>6. PhaseInv'
  <2>1. \A i \in 1 .. n + 1 : Wanted(c, i) \in PartIds
    BY <1>1 DEF InventoryInv, PhaseInv
  <2>. QED  BY <1>1, <1>3, <1>4, <2>1 DEF InventoryInv, TypeOK, PhaseInv, Wanted, NoCode
<1>7. ReadsLive(c)'
  <2>1. PICK at \in [DOMAIN parts[c] -> Span(c)] :
          /\ \A i, j \in DOMAIN at : i <= j => at[i] <= at[j]
          /\ \A i \in DOMAIN at : parts[c][i] = versions[at[i]][Wanted(c, i)]
    BY <1>1 DEF InventoryInv, PartsWereLive, ReadsLive
  <2>. DEFINE now == Len(versions)
              at2 == [i \in 1 .. n + 1 |-> IF i = n + 1 THEN now ELSE at[i]]
  <2>2. now \in Nat /\ now \in Span(c) /\ \A v \in Span(c) : v \in Nat /\ v <= now
    BY <1>1, Present DEF InventoryInv, PhaseInv, Span
  <2>3. DOMAIN parts[c] = 1 .. n /\ DOMAIN parts'[c] = 1 .. n + 1
    BY <1>3 DEF InventoryInv, TypeOK
  <2>4. at2 \in [DOMAIN parts'[c] -> Span(c)']
    BY <1>1, <1>4, <2>2, <2>3 DEF Span
  <2>5. \A i, j \in DOMAIN at2 : i <= j => at2[i] <= at2[j]
    <3>1. n \in Nat /\ DOMAIN at = 1 .. n /\ DOMAIN at2 = 1 .. n + 1
      BY <1>1, <2>1, <2>3 DEF InventoryInv, TypeOK
    <3>2. \A i \in 1 .. n : at2[i] = at[i] /\ at[i] \in Nat /\ at[i] <= now
      BY <2>1, <2>2, <3>1
    <3>3. at2[n + 1] = now
      BY <3>1
    <3>. HIDE DEF at2, now
    <3>. QED  BY <2>1, <2>2, <3>1, <3>2, <3>3
  <2>6. \A i \in DOMAIN at2 : parts'[c][i] = versions'[at2[i]][Wanted(c, i)']
    <3>1. versions' = versions /\ \A i : Wanted(c, i)' = Wanted(c, i)
      BY <1>4 DEF Wanted
    <3>2. ASSUME NEW i \in 1 .. n
          PROVE  parts'[c][i] = versions'[at2[i]][Wanted(c, i)']
      <4>1. parts'[c][i] = versions[at[i]][Wanted(c, i)]
        BY <1>3, <2>1, <2>3
      <4>2. at2[i] = at[i]
        BY <1>1
      <4>. QED  BY <3>1, <4>1, <4>2
    <3>3. ASSUME NEW i, i = n + 1
          PROVE  parts'[c][i] = versions'[at2[i]][Wanted(c, i)']
      <4>1. at2[i] = now
        BY <1>1, <3>3
      <4>2. parts'[c][i] = versions[now][Wanted(c, i)]
        BY <1>1, <1>3, <3>3 DEF Row
      <4>. QED  BY <3>1, <4>1, <4>2
    <3>4. DOMAIN at2 = 1 .. n \cup {n + 1}
      BY <1>1
    <3>. HIDE DEF at2
    <3>. QED  BY <3>2, <3>3, <3>4
  <2>. HIDE DEF at2
  <2>. QED  BY <2>4, <2>5, <2>6 DEF ReadsLive
<1>8. PartsWereLive' /\ RefusalJustified'
  <2>1. (code[c] = "OK" => Len(parts[c]) = Len(req[c].uuids))'
    BY <1>1, <1>3, <1>4 DEF InventoryInv, TypeOK, NoCode
  <2>2. code'[c] \notin {"INVALID_ARGUMENT", "NOT_FOUND"}
    BY <1>1, <1>4 DEF InventoryInv, TypeOK, NoCode
  <2>3. \A d \in Calls \ {c} : /\ pc'[d] = pc[d] /\ req'[d] = req[d] /\ since'[d] = since[d]
                               /\ parts'[d] = parts[d] /\ code'[d] = code[d]
    BY <1>3, <1>4 DEF InventoryInv, TypeOK
  <2>. QED  BY <1>4, <1>7, <2>1, <2>2, <2>3, OtherCalls
<1>. QED  BY <1>5, <1>6, <1>8 DEF InventoryInv

\* Listing the table and failing end a call without touching another one.
LEMMA ListOrFailInv ==
  ASSUME InventoryInv, NEW c \in Calls, ListAll(c) \/ Fail(c)
  PROVE  InventoryInv'
<1>1. /\ UNCHANGED <<versions, req, since>>
      /\ pc[c] = "serving" /\ pc' = [pc EXCEPT ![c] = "done"]
      /\ \/ req[c].uuids = <<>> /\ code' = [code EXCEPT ![c] = "OK"]
         \/ UNCHANGED parts /\ code' = [code EXCEPT ![c] = "INTERNAL"]
  BY DEF ListAll, Fail, Answer
<1>2. /\ parts' \in [Calls -> Seq(Rows)]
      /\ \A d \in Calls \ {c} : parts'[d] = parts[d]
      /\ req[c].uuids # <<>> => UNCHANGED parts
  <2>1. CASE Fail(c)
    BY <2>1 DEF Fail, InventoryInv, TypeOK
  <2>2. CASE ListAll(c)
    <3>. DEFINE S == {row \in {Row(id) : id \in PartIds} \ {NoPart} : Kept(row, req[c].part_type)}
    <3>1. PICK s \in SetToSeqs(S) : parts' = [parts EXCEPT ![c] = s]
      BY <2>2 DEF ListAll
    <3>2. s \in Seq(Rows)
      BY <3>1, ListingType DEF InventoryInv
    <3>3. req[c].uuids = <<>>
      BY <2>2 DEF ListAll
    <3>. HIDE DEF S
    <3>. QED  BY <3>1, <3>2, <3>3 DEF InventoryInv, TypeOK
  <2>. QED  BY <2>1, <2>2
<1>3. TypeOK'
  BY <1>1, <1>2 DEF InventoryInv, TypeOK, Codes
<1>4. PhaseInv'
  BY <1>1, <1>2 DEF InventoryInv, TypeOK, PhaseInv, Wanted, NoCode
<1>5. req[c].uuids # <<>> => ReadsLive(c)'
  <2>1. SUFFICES ASSUME req[c].uuids # <<>> PROVE ReadsLive(c)'
    OBVIOUS
  <2>2. ReadsLive(c) /\ UNCHANGED parts
    BY <1>1, <1>2, <2>1 DEF InventoryInv, PartsWereLive
  <2>. QED  BY <1>1, <2>2 DEF ReadsLive, Span, Wanted
<1>6. PartsWereLive' /\ RefusalJustified'
  <2>1. code'[c] \notin {"INVALID_ARGUMENT", "NOT_FOUND"}
    BY <1>1 DEF InventoryInv, TypeOK
  <2>2. req'[c].uuids # <<>> => code'[c] # "OK"
    BY <1>1 DEF InventoryInv, TypeOK
  <2>3. \A d \in Calls \ {c} : /\ pc'[d] = pc[d] /\ req'[d] = req[d] /\ since'[d] = since[d]
                               /\ parts'[d] = parts[d] /\ code'[d] = code[d]
    BY <1>1, <1>2 DEF InventoryInv, TypeOK
  <2>. QED  BY <1>1, <1>5, <2>1, <2>2, <2>3, OtherCalls
<1>. QED  BY <1>3, <1>4, <1>6 DEF InventoryInv

\* An edit adds a moment to every call under way and changes no earlier one.
LEMMA EditInv ==
  ASSUME InventoryInv, Edit
  PROVE  InventoryInv'
<1>. DEFINE now == Len(versions)
<1>1. UNCHANGED <<pc, req, since, parts, code>>
  BY DEF Edit
<1>2. /\ versions' \in Seq(Table) /\ versions' # <<>> /\ Len(versions') = now + 1
      /\ \A v \in 1 .. now : versions'[v] = versions[v]
  <2>1. PICK id \in PartIds, row \in Rows \cup {NoPart} :
          /\ row # NoPart => row.uuid = id
          /\ versions' = Append(versions, [versions[now] EXCEPT ![id] = row])
    BY DEF Edit
  <2>2. [versions[now] EXCEPT ![id] = row] \in Table
    BY <2>1, Present DEF InventoryInv, Table
  <2>3. versions \in Seq(Table) /\ now \in Nat
    BY DEF InventoryInv, TypeOK
  <2>. QED  BY <2>1, <2>2, <2>3
<1>3. now \in Nat
  BY Present DEF InventoryInv
<1>4. TypeOK'
  BY <1>1, <1>2, <1>3 DEF InventoryInv, TypeOK
<1>5. PhaseInv'
  <2>1. \A c \in Calls : pc[c] # "idle" => since[c] \in 1 .. Len(versions')
    BY <1>2, <1>3 DEF InventoryInv, PhaseInv
  <2>2. \A c \in Calls : \A i : Wanted(c, i)' = Wanted(c, i)
    BY <1>1 DEF Wanted
  <2>. QED  BY <1>1, <2>1, <2>2 DEF InventoryInv, PhaseInv
<1>6. /\ \A c \in Calls : \A i : Wanted(c, i)' = Wanted(c, i)
      /\ \A c \in Calls : pc[c] # "idle" =>
           /\ Span(c) \subseteq Span(c)'
           /\ \A v \in Span(c) : versions'[v] = versions[v]
  BY <1>1, <1>2, <1>3 DEF InventoryInv, PhaseInv, Wanted, Span
<1>7. PartsWereLive'
  <2>. SUFFICES ASSUME NEW c \in Calls, pc[c] # "idle", req[c].uuids # <<>>
       PROVE  (code[c] = "OK" => Len(parts[c]) = Len(req[c].uuids)) /\ ReadsLive(c)'
    BY <1>1 DEF PartsWereLive
  <2>1. PICK at \in [DOMAIN parts[c] -> Span(c)] :
          /\ \A i, j \in DOMAIN at : i <= j => at[i] <= at[j]
          /\ \A i \in DOMAIN at : parts[c][i] = versions[at[i]][Wanted(c, i)]
    BY DEF InventoryInv, PartsWereLive, ReadsLive
  <2>2. /\ at \in [DOMAIN parts'[c] -> Span(c)']
        /\ \A i \in DOMAIN at : parts'[c][i] = versions'[at[i]][Wanted(c, i)']
    BY <1>1, <1>6, <2>1
  <2>3. ReadsLive(c)'
    BY <2>1, <2>2 DEF ReadsLive
  <2>. QED  BY <2>3 DEF InventoryInv, PartsWereLive
<1>8. RefusalJustified'
  <2>. SUFFICES ASSUME NEW c \in Calls, code[c] \in {"INVALID_ARGUMENT", "NOT_FOUND"}
       PROVE  Justified(c)'
    BY <1>1 DEF RefusalJustified
  <2>1. Justified(c) /\ pc[c] # "idle"
    BY DEF InventoryInv, PhaseInv, RefusalJustified, NoCode
  <2>. QED  BY <1>1, <1>6, <2>1 DEF Justified
<1>. QED  BY <1>4, <1>5, <1>7, <1>8 DEF InventoryInv

(* The invariant depends on the service's variables only. *)
LEMMA InventoryStutter == InventoryInv /\ UNCHANGED vars => InventoryInv'
<1>. SUFFICES ASSUME InventoryInv, UNCHANGED vars PROVE InventoryInv'
  OBVIOUS
<1>1. TypeOK' /\ PhaseInv'
  BY DEF vars, InventoryInv, TypeOK, PhaseInv, Wanted
<1>2. PartsWereLive'
  BY DEF vars, InventoryInv, PartsWereLive, ReadsLive, Span, Wanted
<1>3. RefusalJustified'
  BY DEF vars, InventoryInv, RefusalJustified, Justified, Span, Wanted
<1>. QED  BY <1>1, <1>2, <1>3 DEF InventoryInv

(* Every step of the service keeps the invariant. *)
LEMMA InventoryNext == InventoryInv /\ [Next]_vars => InventoryInv'
<1>. SUFFICES ASSUME InventoryInv, [Next]_vars PROVE InventoryInv'
  OBVIOUS
<1>1. ASSUME NEW c \in Calls, NEW want \in Wants, Receive(c, want) PROVE InventoryInv'
  BY <1>1, ReceiveInv
<1>2. ASSUME NEW c \in Calls, ServeStep(c) \/ Fail(c) PROVE InventoryInv'
  BY <1>2, RefuseInv, ReadPartInv, ListOrFailInv DEF ServeStep
<1>3. CASE Edit
  BY <1>3, EditInv
<1>4. CASE Quiesced \/ UNCHANGED vars
  BY <1>4, InventoryStutter DEF Quiesced
<1>. QED  BY <1>1, <1>2, <1>3, <1>4 DEF Next

\* The inductive invariant holds in every reachable state.
THEOREM InventoryInvariance == Spec => []InventoryInv
BY InventoryInit, InventoryNext, PTL DEF Spec

\* Every variable keeps its type.
THEOREM InventoryTypeCorrect == Spec => []TypeOK
<1>1. InventoryInv => TypeOK
  BY DEF InventoryInv
<1>. QED  BY <1>1, InventoryInvariance, PTL

\* An answer holds the parts asked for, in order, each live during the call at
\* moments that do not go back.
THEOREM LiveParts == Spec => []PartsWereLive
<1>1. InventoryInv => PartsWereLive
  BY DEF InventoryInv
<1>. QED  BY <1>1, InventoryInvariance, PTL

\* A call is refused for the first UUID in its list that is bad, and truly so.
THEOREM RefusalsJustified == Spec => []RefusalJustified
<1>1. InventoryInv => RefusalJustified
  BY DEF InventoryInv
<1>. QED  BY <1>1, InventoryInvariance, PTL

-----------------------------------------------------------------------------
\* A sequence of a finite set has every element of it once.
LEMMA AllOnce ==
  ASSUME NEW S, IsFiniteSet(S), NEW s \in SetToSeqs(S)
  PROVE  /\ DOMAIN s = 1 .. Len(s) /\ Len(s) = Cardinality(S) /\ Len(s) \in Nat
         /\ \A i \in DOMAIN s : s[i] \in S
         /\ \A x \in S : \E i \in DOMAIN s : s[i] = x
<1>. DEFINE n == Cardinality(S)
<1>1. n \in Nat
  BY FS_CardinalityType
<1>2. /\ s \in [1 .. n -> S]
      /\ \A i, j \in 1 .. n : i # j => s[i] # s[j]
  BY DEF SetToSeqs
<1>3. Cardinality(1 .. n) = n
  BY <1>1, FS_Interval
<1>. HIDE DEF n
<1>4. s \in Injection(1 .. n, S)
  BY <1>2 DEF Injection, IsInjective
<1>5. s \in Surjection(1 .. n, S)
  BY <1>3, <1>4, FS_Injection DEF n
<1>6. Len(s) = n /\ DOMAIN s = 1 .. n
  BY <1>1, <1>2
<1>. QED  BY <1>1, <1>2, <1>5, <1>6 DEF Surjection, n

\* A listing made now is a snapshot of the present.
LEMMA ListingNow ==
  ASSUME InventoryInv, NEW c \in Calls, ListAll(c)
  PROVE  Snapshot(c, Len(versions))'
<1>. DEFINE now == Len(versions)
            T == OfType(c, now)
            S == {row \in {Row(id) : id \in PartIds} \ {NoPart} : Kept(row, req[c].part_type)}
<1>1. PICK s \in SetToSeqs(S) : SortedByName(s) /\ parts' = [parts EXCEPT ![c] = s]
  BY DEF ListAll
<1>2. IsFiniteSet(S) /\ s \in Seq(Rows) /\ S \subseteq Rows
  BY <1>1, FiniteTable, ListingType, Present DEF InventoryInv
<1>3. parts'[c] = s /\ versions' = versions /\ req' = req
  BY <1>1 DEF ListAll, Answer, InventoryInv, TypeOK
<1>4. /\ \A p \in T : p \in PartIds /\ Row(p) \in S /\ Row(p).uuid = p
      /\ \A row \in S : row.uuid \in T /\ Row(row.uuid) = row
  <2>1. \A p \in PartIds : Row(p) # NoPart => Row(p) \in Rows /\ Row(p).uuid = p
    BY Present DEF InventoryInv
  <2>2. \A p \in PartIds : p \in T <=> Row(p) # NoPart /\ Kept(Row(p), req[c].part_type)
    BY DEF OfType, Kept, Row
  <2>. QED  BY <2>1, <2>2 DEF OfType
<1>5. Cardinality(T) = Cardinality(S)
  <2>. DEFINE uuid == [row \in S |-> row.uuid]
  <2>. HIDE DEF S, T
  <2>1. uuid \in [S -> T]
    BY <1>4
  <2>2. uuid \in Bijection(S, T)
    BY <1>4, <2>1 DEF Bijection, Injection, Surjection, IsInjective
  <2>. QED  BY <1>2, <2>2, FS_Bijection DEF ExistsBijection
<1>. HIDE DEF S
<1>6. /\ DOMAIN s = 1 .. Len(s) /\ Len(s) = Cardinality(S) /\ Len(s) \in Nat
      /\ \A i \in DOMAIN s : s[i] \in S
      /\ \A x \in S : \E i \in DOMAIN s : s[i] = x
  BY <1>1, <1>2, AllOnce
<1>7. {s[i].uuid : i \in DOMAIN s} = T
  BY <1>4, <1>6
<1>8. \A i \in DOMAIN s : s[i] = versions[now][s[i].uuid]
  BY <1>4, <1>6 DEF Row
<1>9. \A i \in 1 .. Len(s) - 1 : s[i].name <= s[i + 1].name
  BY <1>1, <1>6 DEF SortedByName
<1>10. OfType(c, now)' = T
  BY <1>3 DEF OfType
<1>. QED  BY <1>3, <1>5, <1>6, <1>7, <1>8, <1>9, <1>10 DEF Snapshot

\* A call that lists the table is answered by ListAll or fails, and an answer
\* stands.
LEMMA OnlyListAll ==
  ASSUME InventoryInv, [Next]_vars, NEW c \in Calls, (code[c] = "OK" /\ req[c].uuids = <<>>)'
  PROVE  \/ ListAll(c)
         \/ code[c] = "OK" /\ UNCHANGED <<req[c], since[c], parts[c], code[c]>>
<1>. USE DEF NoCode
<1>1. pc[c] # "done" => code[c] = NoCode
  BY DEF InventoryInv, PhaseInv
<1>2. ASSUME NEW d \in Calls, NEW want \in Wants, Receive(d, want)
      PROVE  code[c] = "OK" /\ UNCHANGED <<req[c], since[c], parts[c], code[c]>>
  BY <1>1, <1>2 DEF Receive, InventoryInv, TypeOK
<1>3. ASSUME NEW d \in Calls, RefusePart(d)
      PROVE  code[c] = "OK" /\ UNCHANGED <<req[c], since[c], parts[c], code[c]>>
  BY <1>3 DEF RefusePart, Answer, StatusOf, InventoryInv, TypeOK
<1>4. ASSUME NEW d \in Calls, ReadPart(d)
      PROVE  code[c] = "OK" /\ UNCHANGED <<req[c], since[c], parts[c], code[c]>>
  <2>1. Reading(d) => req[d].uuids # <<>>
    BY DEF Reading, InventoryInv, TypeOK
  <2>2. d # c
    BY <1>1, <1>4, <2>1 DEF ReadPart, Answer, Reading, InventoryInv, TypeOK
  <2>. QED  BY <1>4, <2>2 DEF ReadPart, Answer, InventoryInv, TypeOK
<1>5. ASSUME NEW d \in Calls \ {c}, ListAll(d)
      PROVE  code[c] = "OK" /\ UNCHANGED <<req[c], since[c], parts[c], code[c]>>
  BY <1>5 DEF ListAll, Answer, InventoryInv, TypeOK
<1>6. ASSUME NEW d \in Calls, Fail(d)
      PROVE  code[c] = "OK" /\ UNCHANGED <<req[c], since[c], parts[c], code[c]>>
  BY <1>6 DEF Fail, Answer, InventoryInv, TypeOK
<1>7. CASE Edit \/ Quiesced \/ UNCHANGED vars
  BY <1>7 DEF Edit, Quiesced, vars
<1>. QED  BY <1>2, <1>3, <1>4, <1>5, <1>6, <1>7 DEF Next, ServeStep

\* The history of the table only grows.
LEMMA HistoryGrows ==
  ASSUME InventoryInv, [Next]_vars
  PROVE  /\ Len(versions) \in Nat /\ Len(versions') \in Nat
         /\ Len(versions) <= Len(versions')
         /\ \A v \in 1 .. Len(versions) : versions'[v] = versions[v]
<1>1. versions \in Seq(Table) /\ Len(versions) \in Nat
  BY DEF InventoryInv, TypeOK
<1>2. CASE Edit
  BY <1>1, <1>2 DEF Edit
<1>3. CASE UNCHANGED versions
  BY <1>1, <1>3
<1>4. Edit \/ UNCHANGED versions
  BY DEF Next, ServeStep, Receive, RefusePart, ReadPart, ListAll, Fail, Quiesced, Answer, vars
<1>. QED  BY <1>2, <1>3, <1>4

(* A whole listing that was a snapshot when answered stays one. *)
LEMMA ListingNext ==
  ASSUME InventoryInv, ListingIsSnapshot, [Next]_vars
  PROVE  ListingIsSnapshot'
<1>. SUFFICES ASSUME NEW c \in Calls, (code[c] = "OK" /\ req[c].uuids = <<>>)'
              PROVE  \E v \in Span(c)' : Snapshot(c, v)'
  BY DEF ListingIsSnapshot
<1>1. CASE ListAll(c)
  <2>1. Len(versions') \in Span(c)'
    <3>1. UNCHANGED <<versions, since>> /\ pc[c] # "idle"
      BY <1>1 DEF ListAll, Answer
    <3>. QED  BY <3>1, Present DEF Span, InventoryInv, PhaseInv
  <2>. QED  BY <1>1, <2>1, ListingNow
<1>2. CASE code[c] = "OK" /\ UNCHANGED <<req[c], since[c], parts[c], code[c]>>
  <2>1. pc[c] # "idle" /\ since[c] \in 1 .. Len(versions)
    BY <1>2 DEF InventoryInv, PhaseInv, NoCode
  <2>2. PICK v \in Span(c) : Snapshot(c, v)
    BY <1>2 DEF ListingIsSnapshot
  <2>3. v \in Span(c)' /\ versions'[v] = versions[v]
    BY <1>2, <2>1, HistoryGrows DEF Span
  <2>4. Snapshot(c, v)'
    BY <1>2, <2>2, <2>3 DEF Snapshot, OfType
  <2>. QED  BY <2>3, <2>4
<1>. QED  BY <1>1, <1>2, OnlyListAll

\* A listing without UUIDs is the table of one moment of the call, of the type
\* asked for, every part once and by name.
THEOREM ListingsAreSnapshots == Spec => []ListingIsSnapshot
<1>1. Init => ListingIsSnapshot
  BY DEF Init, ListingIsSnapshot, NoCode
<1>2. InventoryInv /\ ListingIsSnapshot /\ [Next]_vars => ListingIsSnapshot'
  BY ListingNext
<1>. QED  BY <1>1, <1>2, InventoryInvariance, PTL DEF Spec

-----------------------------------------------------------------------------
\* A call that no edit falls into has the present for its only moment.
LEMMA QuietCall ==
  ASSUME InventoryInv, NEW c \in Calls, since[c] = Len(versions)
  PROVE  Span(c) = {Len(versions)}
BY Present DEF InventoryInv, Span

(* A state that satisfies the invariant meets the contract. *)
LEMMA MetNow == InventoryInv => MeetsContract
<1>. SUFFICES ASSUME InventoryInv, NEW c \in Calls,
                     code[c] \in {"OK", "NOT_FOUND"}, since[c] = Len(versions),
                     req[c].uuids # <<>>,
                     \A i \in DOMAIN req[c].uuids : Wanted(c, i) \in PartIds
              PROVE  LET promise == Contract!ListParts([i \in DOMAIN req[c].uuids |-> Wanted(c, i)])
                     IN  /\ code[c] = promise.code
                         /\ code[c] = "OK" =>
                              [i \in DOMAIN parts[c] |->
                                 [price |-> parts[c][i].price, stock |-> parts[c][i].stock]]
                                = promise.parts
  BY DEF MeetsContract, InventoryInv
<1>. DEFINE now == versions[Len(versions)]
            ids == [i \in DOMAIN req[c].uuids |-> Wanted(c, i)]
            Stocked == {q \in PartIds : now[q] # NoPart}
<1>1. /\ pc[c] # "idle" /\ req[c].uuids \in Seq(Raws) /\ parts[c] \in Seq(Rows)
      /\ Span(c) = {Len(versions)}
  BY WantedLists, QuietCall DEF InventoryInv, TypeOK, PhaseInv, NoCode
<1>2. Contract!ListParts(ids) =
        IF \A i \in DOMAIN req[c].uuids : Wanted(c, i) \in Stocked
          THEN [code |-> "OK",
                parts |-> [i \in DOMAIN req[c].uuids |->
                             [price |-> now[Wanted(c, i)].price, stock |-> now[Wanted(c, i)].stock]]]
          ELSE [code |-> "NOT_FOUND", parts |-> <<>>]
  BY DEF Contract!ListParts, CatalogOf
<1>3. CASE code[c] = "OK"
  <2>1. Len(parts[c]) = Len(req[c].uuids) /\ ReadsLive(c)
    BY <1>1, <1>3 DEF InventoryInv, PartsWereLive
  <2>2. DOMAIN parts[c] = DOMAIN req[c].uuids
    BY <1>1, <2>1
  <2>3. \A i \in DOMAIN parts[c] : parts[c][i] = now[Wanted(c, i)] /\ parts[c][i] \in Rows
    BY <1>1, <2>1 DEF ReadsLive
  <2>4. \A i \in DOMAIN req[c].uuids : Wanted(c, i) \in Stocked
    BY <2>2, <2>3, InventoryAssumption
  <2>5. Contract!ListParts(ids) =
          [code |-> "OK",
           parts |-> [i \in DOMAIN parts[c] |->
                        [price |-> now[Wanted(c, i)].price, stock |-> now[Wanted(c, i)].stock]]]
    BY <1>2, <2>2, <2>4
  <2>6. [i \in DOMAIN parts[c] |->
           [price |-> now[Wanted(c, i)].price, stock |-> now[Wanted(c, i)].stock]]
          = [i \in DOMAIN parts[c] |-> [price |-> parts[c][i].price, stock |-> parts[c][i].stock]]
    BY <2>3
  <2>7. /\ Contract!ListParts(ids).code = "OK"
        /\ Contract!ListParts(ids).parts
             = [i \in DOMAIN parts[c] |-> [price |-> parts[c][i].price, stock |-> parts[c][i].stock]]
    <3>. HIDE DEF ids, now
    <3>. QED  BY <2>5, <2>6
  <2>. QED  BY <1>3, <2>7
<1>4. CASE code[c] = "NOT_FOUND"
  <2>1. Justified(c)
    BY <1>4 DEF InventoryInv, RefusalJustified
  <2>2. PICK i \in DOMAIN req[c].uuids : now[Wanted(c, i)] = NoPart
    BY <1>1, <2>1, InventoryAssumption DEF Justified
  <2>3. Contract!ListParts(ids).code = "NOT_FOUND"
    BY <1>2, <2>2
  <2>. QED  BY <1>4, <2>3
<1>. QED  BY <1>3, <1>4

\* A ListParts that no edit falls into answers what OrderService is modelled with.
THEOREM InventoryContractMet == Spec => []MeetsContract
BY MetNow, InventoryInvariance, PTL

-----------------------------------------------------------------------------
\* What CreateOrder tells its client follows from what ListParts answered.
AnswerInv ==
  \A c \in Calls :
    /\ pc[c] = "idle" => answer[c].code = 0
    /\ pc[c] # "idle" => ship[c] \in Ships /\ req[c].uuids = Uuids(ship[c])
    /\ answer[c].code = 201 =>
         /\ pc[c] = "done" /\ code[c] = "OK" /\ InStock(parts[c])
         /\ answer[c].price = TotalPrice(parts[c])
    /\ answer[c].code = 404 => pc[c] = "done" /\ code[c] = "NOT_FOUND"
    /\ answer[c].code = 409 => pc[c] = "done" /\ code[c] = "OK" /\ ~InStock(parts[c])

CheckoutInv == TypeOK /\ DOMAIN answer = Calls /\ DOMAIN ship = Calls /\ AnswerInv

-----------------------------------------------------------------------------
(* A step of the composition is a step of InventoryService or none. *)
LEMMA CheckoutStep == [CheckoutNext]_<<vars, checkoutVars>> => [Next]_vars
<1>1. ASSUME NEW c \in Calls, NEW choice \in Ships, CreateOrder(c, choice)
      PROVE  \E want \in Wants : Receive(c, want)
  <2>1. [uuids |-> Uuids(choice), part_type |-> PART_TYPE_UNSPECIFIED] \in Wants
    BY CheckoutAssumption DEF Wants
  <2>. QED  BY <1>1, <2>1 DEF CreateOrder
<1>2. ASSUME NEW c \in Calls, ListFailed(c) \/ OutOfStock(c) \/ SaveOrder(c) \/ CallLost(c)
      PROVE  UNCHANGED vars
  BY <1>2 DEF ListFailed, OutOfStock, SaveOrder, CallLost, Say
<1>3. CASE InventoryStep
  BY <1>3 DEF InventoryStep, Next
<1>. QED  BY <1>1, <1>2, <1>3 DEF CheckoutNext, Next

\* The inventory behaves as it does without this caller.
THEOREM InventoryUnderneath == CheckoutSpec => Spec
<1>1. CheckoutInit => Init
  BY DEF CheckoutInit
<1>. QED  BY <1>1, CheckoutStep, PTL DEF CheckoutSpec, Spec

\* A call that is answered is left alone by the inventory.
LEMMA DoneStays ==
  ASSUME TypeOK, [Next]_vars, NEW c \in Calls
  PROVE  /\ pc[c] = "done" => pc'[c] = "done" /\ UNCHANGED <<code[c], parts[c]>>
         /\ pc[c] # "idle" => pc'[c] # "idle" /\ UNCHANGED req[c]
BY DEF TypeOK, Next, vars, Receive, ServeStep, RefusePart, ReadPart, ListAll, Fail, Edit,
       Quiesced, Reading, Answer

(* No order is being created at the start. *)
LEMMA CheckoutInitInv == CheckoutInit => CheckoutInv
<1>. SUFFICES ASSUME CheckoutInit PROVE CheckoutInv  OBVIOUS
<1>1. TypeOK
  BY InventoryInit DEF CheckoutInit, InventoryInv
<1>. QED  BY <1>1 DEF CheckoutInit, Init, CheckoutInv, AnswerInv, NoAnswer

\* The client posts its choice.
LEMMA CreateOrderInv ==
  ASSUME CheckoutInv, NEW c \in Calls, NEW choice \in Ships, CreateOrder(c, choice)
  PROVE  AnswerInv' /\ DOMAIN ship' = Calls /\ DOMAIN answer' = Calls
BY DEF CheckoutInv, AnswerInv, TypeOK, CreateOrder, Receive

\* It is answered.
LEMMA SayInv ==
  ASSUME CheckoutInv, NEW c \in Calls,
         ListFailed(c) \/ OutOfStock(c) \/ SaveOrder(c) \/ CallLost(c)
  PROVE  AnswerInv' /\ DOMAIN ship' = Calls /\ DOMAIN answer' = Calls
BY DEF CheckoutInv, AnswerInv, ListFailed, OutOfStock, SaveOrder, CallLost, Listed, Say, Refusal,
       NoAnswer, vars

\* The inventory goes on.
LEMMA InventoryStepInv ==
  ASSUME CheckoutInv, InventoryStep \/ UNCHANGED <<vars, checkoutVars>>
  PROVE  AnswerInv' /\ DOMAIN ship' = Calls /\ DOMAIN answer' = Calls
<1>1. UNCHANGED <<ship, answer>> /\ [Next]_vars
  BY DEF InventoryStep, checkoutVars, Next
<1>2. ASSUME NEW c \in Calls
      PROVE  (pc[c] = "idle") = (pc'[c] = "idle")
  BY <1>2 DEF InventoryStep, ServeStep, RefusePart, ReadPart, ListAll, Fail, Edit, Reading, Answer,
     CheckoutInv, TypeOK, vars
<1>. QED  BY <1>1, <1>2, DoneStays DEF CheckoutInv, AnswerInv

(* Every step of the composition keeps what each request has been told. *)
LEMMA CheckoutNextInv ==
  ASSUME CheckoutInv, TypeOK', [CheckoutNext]_<<vars, checkoutVars>>
  PROVE  CheckoutInv'
BY CreateOrderInv, SayInv, InventoryStepInv DEF CheckoutNext, CheckoutInv

(* CreateOrder prices an order from the parts one ListParts call returned
   (service.go:102-119), and answers only what that call's end allows. *)
THEOREM CheckoutInvariance == CheckoutSpec => []CheckoutInv
BY CheckoutInitInv, CheckoutNextInv, InventoryUnderneath, InventoryTypeCorrect, PTL
   DEF CheckoutSpec

-----------------------------------------------------------------------------
\* What is asked for is what the client chose.
LEMMA AsksForChoice ==
  ASSUME CheckoutInv, NEW c \in Calls, pc[c] # "idle"
  PROVE  /\ Uuids(ship[c]) \in Seq(PartIds) /\ Uuids(ship[c]) # <<>>
         /\ \A i \in DOMAIN Uuids(ship[c]) : Wanted(c, i) = Component(c, i)
<1>1. ship[c] \in Ships /\ req[c].uuids = Uuids(ship[c])
  BY DEF CheckoutInv, AnswerInv
<1>2. Uuids(ship[c]) \in Seq(PartIds) /\ Uuids(ship[c]) # <<>>
  BY <1>1, CheckoutAssumption DEF Uuids
<1>3. \A i \in DOMAIN Uuids(ship[c]) : Uuids(ship[c])[i] \in PartIds
  BY <1>2
<1>. QED  BY <1>1, <1>2, <1>3, CheckoutAssumption DEF Wanted, Component

\* The price of a created order is the sum of prices its components had, one after
\* the other, while the call lasted, when all of them were in stock
\* (order/pkg/service/service.go:103-119).
THEOREM LivePrices == CheckoutSpec => []PricedLive
<1>1. ASSUME CheckoutInv, PartsWereLive PROVE PricedLive
  <2> SUFFICES ASSUME NEW c \in Calls, answer[c].code = 201
               PROVE  \E at \in [DOMAIN Uuids(ship[c]) -> Span(c)] :
                        /\ \A i, j \in DOMAIN at : i <= j => at[i] <= at[j]
                        /\ \A i \in DOMAIN at :
                             /\ versions[at[i]][Component(c, i)] # NoPart
                             /\ versions[at[i]][Component(c, i)].stock > 0
                        /\ answer[c].price =
                             TotalPrice([i \in DOMAIN at |-> versions[at[i]][Component(c, i)]])
    BY DEF PricedLive
  <2>1. /\ pc[c] = "done" /\ code[c] = "OK" /\ req[c].uuids = Uuids(ship[c])
        /\ InStock(parts[c]) /\ answer[c].price = TotalPrice(parts[c])
    BY <1>1 DEF CheckoutInv, AnswerInv
  <2>2. Len(parts[c]) = Len(Uuids(ship[c])) /\ ReadsLive(c)
    BY <1>1, <2>1, AsksForChoice DEF PartsWereLive
  <2>3. parts[c] \in Seq(Rows) /\ DOMAIN parts[c] = DOMAIN Uuids(ship[c])
    BY <1>1, <2>1, <2>2, AsksForChoice DEF CheckoutInv, TypeOK
  <2>4. PICK at \in [DOMAIN parts[c] -> Span(c)] :
          /\ \A i, j \in DOMAIN at : i <= j => at[i] <= at[j]
          /\ \A i \in DOMAIN at : parts[c][i] = versions[at[i]][Wanted(c, i)]
    BY <2>2 DEF ReadsLive
  <2>5. \A i \in DOMAIN at : versions[at[i]][Component(c, i)] = parts[c][i]
    BY <1>1, <2>1, <2>3, <2>4, AsksForChoice
  <2>6. \A i \in DOMAIN at : parts[c][i] # NoPart /\ parts[c][i].stock > 0
    BY <2>1, <2>3, <2>4, InventoryAssumption DEF InStock
  <2>7. [i \in DOMAIN at |-> versions[at[i]][Component(c, i)]] = parts[c]
    BY <2>3, <2>4, <2>5
  <2>8. at \in [DOMAIN Uuids(ship[c]) -> Span(c)]
    BY <2>3, <2>4
  <2>9. /\ \A i \in DOMAIN at : /\ versions[at[i]][Component(c, i)] # NoPart
                                /\ versions[at[i]][Component(c, i)].stock > 0
        /\ answer[c].price =
             TotalPrice([i \in DOMAIN at |-> versions[at[i]][Component(c, i)]])
    BY <2>1, <2>4, <2>5, <2>6, <2>7
  <2>. QED  BY <2>4, <2>8, <2>9
<1>. QED  BY <1>1, CheckoutInvariance, InventoryUnderneath, LiveParts, PTL

\* A component that is said to be missing or sold out was so during the call.
THEOREM JustRefusals == CheckoutSpec => []RefusedJustly
<1>1. ASSUME CheckoutInv, PartsWereLive, RefusalJustified PROVE RefusedJustly
  <2>1. ASSUME NEW c \in Calls, answer[c].code = 404
        PROVE  \E v \in Span(c), i \in DOMAIN Uuids(ship[c]) :
                 versions[v][Component(c, i)] = NoPart
    <3>1. pc[c] # "idle" /\ code[c] = "NOT_FOUND" /\ req[c].uuids = Uuids(ship[c])
      BY <1>1, <2>1 DEF CheckoutInv, AnswerInv
    <3>2. Justified(c)
      BY <1>1, <3>1 DEF RefusalJustified
    <3>. QED  BY <1>1, <3>1, <3>2, AsksForChoice DEF Justified
  <2>2. ASSUME NEW c \in Calls, answer[c].code = 409
        PROVE  \E v \in Span(c), i \in DOMAIN Uuids(ship[c]) :
                 /\ versions[v][Component(c, i)] # NoPart
                 /\ versions[v][Component(c, i)].stock <= 0
    <3>1. /\ pc[c] = "done" /\ code[c] = "OK" /\ req[c].uuids = Uuids(ship[c])
          /\ ~InStock(parts[c])
      BY <1>1, <2>2 DEF CheckoutInv, AnswerInv
    <3>2. Len(parts[c]) = Len(Uuids(ship[c])) /\ ReadsLive(c)
      BY <1>1, <3>1, AsksForChoice DEF PartsWereLive
    <3>3. parts[c] \in Seq(Rows) /\ DOMAIN parts[c] = DOMAIN Uuids(ship[c])
      BY <1>1, <3>1, <3>2, AsksForChoice DEF CheckoutInv, TypeOK
    <3>4. PICK i \in DOMAIN parts[c] : ~(parts[c][i].stock > 0)
      BY <3>1 DEF InStock
    <3>5. parts[c][i] # NoPart /\ parts[c][i].stock <= 0
      <4>1. parts[c][i] \in Rows
        BY <3>3, <3>4
      <4>2. parts[c][i] \in Part /\ parts[c][i] # NoPart
        BY <4>1, InventoryAssumption
      <4>3. parts[c][i].stock \in Int
        BY <4>2 DEF Part
      <4>. QED  BY <3>4, <4>2, <4>3
    <3>6. PICK v \in Span(c) : parts[c][i] = versions[v][Wanted(c, i)]
      BY <3>2, <3>4 DEF ReadsLive
    <3>. QED  BY <1>1, <3>1, <3>3, <3>4, <3>5, <3>6, AsksForChoice
  <2>. QED  BY <2>1, <2>2 DEF RefusedJustly
<1>. QED
  BY <1>1, CheckoutInvariance, InventoryUnderneath, LiveParts, RefusalsJustified, PTL

-----------------------------------------------------------------------------
\* The price loop of CreateOrder keeps the sum in an int64.
LEMMA PriceIsWrapped ==
  ASSUME NEW list, list \in Seq(Rows)
  PROVE  SumsTo(list, TotalPrice(list))
<1>. DEFINE N == Len(list)
            price == [i \in DOMAIN list |-> list[i].price]
<1>1. N \in Nat /\ DOMAIN list = 1 .. N /\ \A i \in 1 .. N : list[i] \in Rows
  OBVIOUS
<1>2. \A i \in 1 .. N : list[i].price \in Int
  BY <1>1, InventoryAssumption DEF Part
<1>3. price \in [1 .. N -> Int] /\ \A i \in 1 .. N : list[i].price = price[i]
  BY <1>1, <1>2
<1>4. /\ TotalPrice(list) = WrappedTotal(list, Int64Bound)
      /\ ExactTotal(price) = Sum(price)
  <2>1. \A n : Int64(n) = Wrap(n, Int64Bound)
    BY DEF Int64, Wrap
  <2>. QED  BY <2>1 DEF TotalPrice, WrappedTotal, ExactTotal, Sum, FoldLeft, MapThenFoldSet
<1>. HIDE DEF price, N
<1>5. PICK sum \in [0 .. N -> Int] :
        /\ IsSum(sum, N, price) /\ Sum(price) = sum[N]
        /\ WrappedTotal(list, Int64Bound) = Wrap(sum[N], Int64Bound)
  BY <1>1, <1>3, PricingAssumption, WrappedOnce
<1>6. sum[N] \in Int
  BY <1>1
<1>7. /\ TotalPrice(list) \in -Int64Bound .. Int64Bound - 1
      /\ \E q \in Int : TotalPrice(list) = sum[N] + (2 * Int64Bound) * q
  BY <1>4, <1>5, <1>6, PricingAssumption, WrapIs
<1>8. (TotalPrice(list) - sum[N]) % (2 * Int64Bound) = 0
  <2>. DEFINE m == 2 * Int64Bound
  <2>1. PICK q \in Int : TotalPrice(list) = sum[N] + m * q
    BY <1>7
  <2>2. m \in Nat \ {0} /\ 0 \in 0 .. m - 1
    BY PricingAssumption
  <2>. HIDE DEF m
  <2>3. TotalPrice(list) - sum[N] = m * q + 0
    BY <1>6, <2>1, <2>2
  <2>4. (TotalPrice(list) - sum[N]) % m = 0
    BY <2>2, <2>3, Remainder
  <2>. QED  BY <2>4 DEF m
<1>. QED  BY <1>4, <1>5, <1>7, <1>8 DEF SumsTo, price

\* A created order's price is an int64 that differs from the exact sum of the prices
\* it was given by a multiple of 2^64, whatever the catalogue and however many parts.
THEOREM TotalsExact == CheckoutSpec => []TotalExact
<1>1. CheckoutInv => TotalExact
  <2>. SUFFICES ASSUME CheckoutInv, NEW c \in Calls, answer[c].code = 201
                PROVE  SumsTo(parts[c], answer[c].price)
    BY DEF TotalExact
  <2>1. answer[c].price = TotalPrice(parts[c]) /\ parts[c] \in Seq(Rows)
    BY DEF CheckoutInv, AnswerInv, TypeOK
  <2>. QED  BY <2>1, PriceIsWrapped
<1>. QED  BY <1>1, CheckoutInvariance, PTL
=============================================================================
