------------------------ MODULE InventoryProperties ------------------------
(***************************************************************************)
(* What a caller of InventoryService may rely on while others edit the     *)
(* catalogue.                                                              *)
(***************************************************************************)
EXTENDS InventoryService

\* The moments of a call, as versions of the table.
Span(c) == since[c] .. Len(versions)

Wanted(c, i) == Parse[req[c].uuids[i]]

\* What c has read so far are the parts it wants, in its order, each as the
\* table had it at a moment of the call, and the moments do not go back.
ReadsLive(c) ==
  \E at \in [DOMAIN parts[c] -> Span(c)] :
    /\ \A i, j \in DOMAIN at : i <= j => at[i] <= at[j]
    /\ \A i \in DOMAIN at : parts[c][i] = versions[at[i]][Wanted(c, i)]

\* The answer to a call that names parts is all of them, in the order asked for,
\* twice if asked for twice; each was in the table like that while the call
\* lasted, although an edit can fall between two reads
\* (inventory/pkg/service/service.go:71-93).
PartsWereLive ==
  \A c \in Calls : pc[c] # "idle" /\ req[c].uuids # <<>> =>
    /\ code[c] = "OK" => Len(parts[c]) = Len(req[c].uuids)
    /\ ReadsLive(c)

\* The first UUID that c has not read is malformed, or was in no row at some
\* moment of the call, and the code of c's answer says which.
Justified(c) ==
  LET i == Len(parts[c]) + 1
  IN  /\ i \in DOMAIN req[c].uuids
      /\ \A j \in 1 .. i - 1 : Wanted(c, j) \in PartIds
      /\ IF Wanted(c, i) = Malformed
           THEN code[c] = "INVALID_ARGUMENT"
           ELSE /\ code[c] = "NOT_FOUND"
                /\ \E v \in Span(c) : versions[v][Wanted(c, i)] = NoPart

\* A call is refused for the first bad UUID in its list: NOT_FOUND never hides a
\* malformed UUID before it, nor INVALID_ARGUMENT a missing part (service.go:74-85,
\* api/grpc.go:47-56).
RefusalJustified ==
  \A c \in Calls : code[c] \in {"INVALID_ARGUMENT", "NOT_FOUND"} => Justified(c)

\* The parts of version v that are of the type c asks for.
OfType(c, v) ==
  {p \in PartIds :
     /\ versions[v][p] # NoPart
     /\ req[c].part_type # PART_TYPE_UNSPECIFIED =>
          versions[v][p].part_type = req[c].part_type}

\* What c has read is version v, filtered by type and sorted by name.
Snapshot(c, v) ==
  /\ Len(parts[c]) = Cardinality(OfType(c, v))
  /\ {parts[c][i].uuid : i \in DOMAIN parts[c]} = OfType(c, v)
  /\ \A i \in DOMAIN parts[c] : parts[c][i] = versions[v][parts[c][i].uuid]
  /\ \A i \in 1 .. Len(parts[c]) - 1 : parts[c][i].name <= parts[c][i + 1].name

\* Without UUIDs the answer is the table of one moment, filtered by type:
\* every part of the type once, by name, and nothing else, however the table is
\* edited (service.go:95-114).
ListingIsSnapshot ==
  \A c \in Calls : code[c] = "OK" /\ req[c].uuids = <<>> => \E v \in Span(c) : Snapshot(c, v)
=============================================================================
