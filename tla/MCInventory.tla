---------------------------- MODULE MCInventory ----------------------------
(***************************************************************************)
(* Small instances of InventoryService for TLC: two parts, one of which    *)
(* has two possible prices, of one name, so that the order of a listing is *)
(* open, and UUIDs spelt in two ways or malformed.                         *)
(***************************************************************************)
EXTENDS InventoryContract

CONSTANTS hull, engine, c1

MCParse == [raw \in Raws |-> CASE raw = "hull"        -> hull
                               [] raw = "urn:uuid:hull" -> hull
                               [] raw = "engine"      -> engine
                               [] OTHER               -> Malformed]

MCRaws == {"hull", "urn:uuid:hull", "engine", ""}

Row1(id, name, type, price) ==
  [uuid |-> id, name |-> name, part_type |-> type, price |-> price, stock |-> 1]

MCRows == {Row1(hull, 1, 1, 5), Row1(hull, 1, 1, 7), Row1(engine, 1, 2, 3),
           Row1(engine, 0, 2, 4)}

MCRawLists == {<<>>, <<"engine", "hull">>, <<"hull", "urn:uuid:hull">>,
               <<"hull", "engine", "hull">>, <<"engine", "">>, <<"", "engine">>}
=============================================================================
