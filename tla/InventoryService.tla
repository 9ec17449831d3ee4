-------------------------- MODULE InventoryService -------------------------
(***************************************************************************)
(* InventoryService: each gRPC call is served by a goroutine that reads    *)
(* table `parts' and never writes it.  A call that names parts reads them  *)
(* one after the other, each in a query of its own, and a call that names  *)
(* none reads the whole table in one query; others may edit the table in   *)
(* between.  `versions' is the history of the table, its last element the  *)
(* present content.                                                        *)
(***************************************************************************)
EXTENDS Integers, Sequences, SequencesExt

CONSTANTS PartIds,      \* UUIDs
          Raws,         \* strings a client may send for a UUID
          Parse,        \* uuid.Parse: Raws -> PartIds, or Malformed
          Malformed,
          Rows,         \* rows that may ever be in the table
          NoPart,       \* "no such row"
          RawLists,     \* lists of UUIDs a client may send to ListParts
          PartTypes,    \* values of the open enum PartType a client may send
          Calls,        \* one per gRPC call
          MaxVersions   \* bound on the number of edits

PART_TYPE_UNSPECIFIED == 0

\* A name stands for its rank in the order of strings.
Part == [uuid : PartIds, name : Nat, part_type : Int, price : Int, stock : Int]

ASSUME InventoryAssumption ==
  /\ Parse \in [Raws -> PartIds \cup {Malformed}] /\ Malformed \notin PartIds
  /\ Rows \subseteq Part /\ NoPart \notin Part
  /\ RawLists \subseteq Seq(Raws)
  /\ IsFiniteSet(PartIds)
  /\ MaxVersions \in Nat \ {0}

VARIABLES versions,     \* every content table parts has had
          pc,           \* idle, serving or done
          req,          \* the call's request
          since,        \* the version the call found when it arrived
          parts,        \* what it has read, or answers
          code          \* gRPC status code of its answer

vars == <<versions, pc, req, since, parts, code>>

Table == {t \in [PartIds -> Rows \cup {NoPart}] :
            \A p \in PartIds : t[p] # NoPart => t[p].uuid = p}

Wants == [uuids : {<<raw>> : raw \in Raws}]                 \* GetPart
    \cup [uuids : RawLists, part_type : PartTypes]          \* ListParts

NoCode == "none"
Codes == {"OK", "INVALID_ARGUMENT", "NOT_FOUND", "INTERNAL"}

TypeOK ==
  /\ versions \in Seq(Table) /\ versions # <<>>
  /\ pc \in [Calls -> {"idle", "serving", "done"}]
  /\ req \in [Calls -> Wants \cup {<<>>}]
  /\ since \in [Calls -> 0 .. Len(versions)]
  /\ parts \in [Calls -> Seq(Rows)]
  /\ code \in [Calls -> Codes \cup {NoCode}]

Init ==
  /\ \E t \in Table : versions = <<t>>
  /\ pc = [c \in Calls |-> "idle"]
  /\ req = [c \in Calls |-> <<>>]
  /\ since = [c \in Calls |-> 0]
  /\ parts = [c \in Calls |-> <<>>]
  /\ code = [c \in Calls |-> NoCode]

-----------------------------------------------------------------------------
Receive(c, want) ==
  /\ pc[c] = "idle"
  /\ pc' = [pc EXCEPT ![c] = "serving"]
  /\ req' = [req EXCEPT ![c] = want]
  /\ since' = [since EXCEPT ![c] = Len(versions)]
  /\ UNCHANGED <<versions, parts, code>>

\* Mutation: the rows are those the process was started with.
RowAtStart(id) == versions[1][id]

\* SELECT ... FROM parts WHERE uuid = $1.
Row(id) == versions[Len(versions)][id]

Known(id) == id # Malformed /\ Row(id) # NoPart

Answer(c, status) ==
  /\ pc' = [pc EXCEPT ![c] = "done"]
  /\ code' = [code EXCEPT ![c] = status]
  /\ UNCHANGED <<versions, req, since>>

\* The call names parts, and some of them have not been read yet.
Reading(c) == pc[c] = "serving" /\ Len(parts[c]) < Len(req[c].uuids)

\* The UUID to be read next, as it parses.
NextId(c) == Parse[req[c].uuids[Len(parts[c]) + 1]]

\* Mutation: what does not parse is looked up, and not found.
StatusNotFound(id) == "NOT_FOUND"

\* toStatusErr, for the errors of a UUID that is malformed or unknown.
StatusOf(id) == IF id = Malformed THEN "INVALID_ARGUMENT" ELSE "NOT_FOUND"

\* The first UUID that is malformed, or in no row, ends the call.
RefusePart(c) ==
  /\ Reading(c)
  /\ ~Known(NextId(c))
  /\ Answer(c, StatusOf(NextId(c)))
  /\ UNCHANGED parts

\* Mutation: the part goes to the front of the slice.
ReadPartReversed(c) ==
  /\ Reading(c)
  /\ Known(NextId(c))
  /\ parts' = [parts EXCEPT ![c] = <<Row(NextId(c))>> \o @]
  /\ IF Len(parts'[c]) = Len(req[c].uuids)
       THEN Answer(c, "OK")
       ELSE UNCHANGED <<versions, pc, req, since, code>>

\* One turn of the loop of ListParts, the last one answering; all of GetPart.
ReadPart(c) ==
  /\ Reading(c)
  /\ Known(NextId(c))
  /\ parts' = [parts EXCEPT ![c] = Append(@, Row(NextId(c)))]
  /\ IF Len(parts'[c]) = Len(req[c].uuids)
       THEN Answer(c, "OK")
       ELSE UNCHANGED <<versions, pc, req, since, code>>

\* Mutation: PART_TYPE_UNSPECIFIED is a type like the others.
KeptExactly(row, part_type) == row.part_type = part_type

\* The filter of ListParts.
Kept(row, part_type) == part_type \in {PART_TYPE_UNSPECIFIED, row.part_type}

\* sort.Slice leaves rows of one name in any order.
SortedByName(s) == \A i, j \in DOMAIN s : i < j => s[i].name <= s[j].name

\* ListParts without UUIDs.
ListAll(c) ==
  /\ pc[c] = "serving" /\ req[c].uuids = <<>>
  /\ \E s \in SetToSeqs({row \in {Row(id) : id \in PartIds} \ {NoPart} :
                           Kept(row, req[c].part_type)}) :
       SortedByName(s) /\ parts' = [parts EXCEPT ![c] = s]
  /\ Answer(c, "OK")

\* A query fails, or the caller has gone and the context is cancelled.  There is
\* no query when the next UUID does not parse.
Fail(c) ==
  /\ pc[c] = "serving"
  /\ Reading(c) => NextId(c) # Malformed
  /\ Answer(c, "INTERNAL")
  /\ UNCHANGED parts

\* The owner of the catalogue adds, changes or removes a row.
Edit ==
  /\ Len(versions) < MaxVersions
  /\ \E id \in PartIds, row \in Rows \cup {NoPart} :
       /\ row # NoPart => row.uuid = id
       /\ row # Row(id)
       /\ versions' = Append(versions, [versions[Len(versions)] EXCEPT ![id] = row])
  /\ UNCHANGED <<pc, req, since, parts, code>>

Quiesced == (\A c \in Calls : pc[c] = "done") /\ UNCHANGED vars

ServeStep(c) == RefusePart(c) \/ ReadPart(c) \/ ListAll(c)

Next ==
  \/ \E c \in Calls : \/ \E want \in Wants : Receive(c, want)
                      \/ ServeStep(c)
                      \/ Fail(c)
  \/ Edit
  \/ Quiesced

Spec == Init /\ [][Next]_vars
=============================================================================
