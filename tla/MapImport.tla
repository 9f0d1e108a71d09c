------------------------------ MODULE MapImport ------------------------------
(***************************************************************************)
(* How geosvrd makes its map: DatabaseManager reads the table of road      *)
(* segments and merges the segments of a road into one record              *)
(* (dedup_raw_data); MapManager turns the records into nodes, roads and    *)
(* edges (import_data) and these into a Boost graph (import_map_data).     *)
(*                                                                         *)
(* SELECT has no ORDER BY: the rows come in any order.  Of a position only *)
(* its node is kept.  The columns traffic_flow and type come from the      *)
(* first row of a road like mainid.                                        *)
(***************************************************************************)
EXTENDS Integers, Sequences, SequencesExt, FiniteSets, FiniteSetsExt

CONSTANTS Tables   \* tables of segments, each a set of rows

\* A row is a segment of road mainid; segments of a road are numbered by subid
\* along the road.
Rows == [mainid : Nat, subid : Nat, startid : Nat, endid : Nat]

ASSUME TablesAssumption ==
  \A t \in Tables : /\ t # {} /\ \A r \in t : r \in Rows
                    /\ \A r, s \in t : r.mainid = s.mainid /\ r.subid = s.subid => r = s

VARIABLES
  table,   \* the table
  raw,     \* raw_data_, the rows in the order they came
  dedup,   \* deduped_data_
  nodes,   \* the ids in nodes_
  edges,   \* edges_ and roads_, two vectors filled together
  map,     \* the id of each vertex of map_, by descriptor
  stage    \* "fetch", "import", "build", "done", or "ub" after a wild read

importVars == <<table, raw, dedup, nodes, edges, map, stage>>

------------------------------------------------------------------------------
\* The road's record in deduped_data_, if it has one.
Known(id) == {i \in DOMAIN dedup : dedup[i].mainid = id}

\* Mutant: a later row extends the road whatever its subid.
Extends_Always(row, i) == TRUE

Extends(row, i) == row.subid > dedup[i].subid

Extended(row, i) == [dedup[i] EXCEPT !.subid = row.subid, !.endid = row.endid]

\* store_raw_data and dedup_raw_data
Fetch(row) ==
  /\ stage = "fetch" /\ row \in table \ ToSet(raw)
  /\ raw' = Append(raw, row)
  /\ dedup' = IF Known(row.mainid) = {} THEN Append(dedup, row)
              ELSE [i \in DOMAIN dedup |->
                      IF i = Min(Known(row.mainid)) /\ Extends(row, i)
                        THEN Extended(row, i) ELSE dedup[i]]
  /\ UNCHANGED <<table, nodes, edges, map, stage>>

\* mysql_fetch_row returns no more rows.
Fetched ==
  /\ stage = "fetch" /\ ToSet(raw) = table
  /\ stage' = "import"
  /\ UNCHANGED <<table, raw, dedup, nodes, edges, map>>

EndsOf(d) == <<d.startid, d.endid>>

\* Mutant: only the start nodes are collected.
Collected_Starts == [i \in DOMAIN dedup |-> dedup[i].startid]

\* The nodes of all records, in order; the bitmap keeps the first of each.
Collected == [k \in 1 .. 2 * Len(dedup) |->
                EndsOf(dedup[(k + 1) \div 2])[IF k % 2 = 1 THEN 1 ELSE 2]]
FirstOnly(s) ==
  LET kept[k \in 0 .. Len(s)] ==
        IF k = 0 THEN <<>>
        ELSE IF s[k] \in ToSet(kept[k-1]) THEN kept[k-1] ELSE Append(kept[k-1], s[k])
  IN kept[Len(s)]

\* import_data
ImportData ==
  /\ stage = "import"
  /\ nodes' = FirstOnly(Collected)
  /\ edges' = [i \in DOMAIN dedup |-> [road |-> dedup[i].mainid, ends |-> EndsOf(dedup[i])]]
  /\ stage' = "build"
  /\ UNCHANGED <<table, raw, dedup, map>>

\* The vertices of the graph: nodes_.size() of them, and more when an edge
\* names a larger descriptor.
Vertices == 0 .. Max({Len(nodes) - 1} \cup UNION {ToSet(edges[i].ends) : i \in DOMAIN edges})

\* import_map_data: a vertex takes its id and position from the node of that
\* id; without one the loop ends at nodes_.end(), which is read all the same.
BuildMap ==
  /\ stage = "build"
  /\ IF Vertices \subseteq ToSet(nodes)
       THEN map' = [v \in Vertices |-> v] /\ stage' = "done"
       ELSE stage' = "ub" /\ UNCHANGED map
  /\ UNCHANGED <<table, raw, dedup, nodes, edges>>

ImportInit ==
  /\ table \in Tables
  /\ raw = <<>> /\ dedup = <<>> /\ nodes = <<>> /\ edges = <<>>
  /\ map = <<>> /\ stage = "fetch"

ImportNext == (\E row \in table : Fetch(row)) \/ Fetched \/ ImportData \/ BuildMap

ImportSpec == ImportInit /\ [][ImportNext]_importVars

------------------------------------------------------------------------------
(***************************************************************************)
(* Properties.                                                             *)
(***************************************************************************)

\* Every variable holds a value of its type.
ImportTypeOK ==
  /\ table \in Tables /\ raw \in Seq(table) /\ IsInjective(raw)
  /\ dedup \in Seq(Rows)
  /\ nodes \in Seq(Nat)
  /\ stage \in {"fetch", "import", "build", "done", "ub"}

Segments(id) == {r \in table : r.mainid = id}
FirstSegment(id) == CHOOSE r \in Segments(id) : \A s \in Segments(id) : r.subid <= s.subid
LastSegment(id) == CHOOSE r \in Segments(id) : \A s \in Segments(id) : r.subid >= s.subid
CameFirst(id) == CHOOSE i \in DOMAIN raw : /\ raw[i].mainid = id
                                           /\ \A j \in 1 .. i - 1 : raw[j].mainid # id

\* Whatever the order of the rows, every road is imported once and ends
\* where its last segment ends; it starts where its first segment starts
\* provided that segment came before the others of its road.
RoadsSpanTheirSegments ==
  stage # "fetch" =>
    /\ {dedup[i].mainid : i \in DOMAIN dedup} = {r.mainid : r \in table}
    /\ \A i, j \in DOMAIN dedup : dedup[i].mainid = dedup[j].mainid => i = j
    /\ \A i \in DOMAIN dedup :
         LET id == dedup[i].mainid
         IN /\ dedup[i].endid = LastSegment(id).endid
            /\ raw[CameFirst(id)] = FirstSegment(id) =>
                 dedup[i].startid = FirstSegment(id).startid

\* The roads of dedup_raw_data are those of the table, in states of the right
\* types.
RoadsAreSound == ImportTypeOK /\ RoadsSpanTheirSegments

\* The nodes at the ends of the merged roads.
UsedNodes == UNION {ToSet(EndsOf(dedup[i])) : i \in DOMAIN dedup}

\* The graph is what the route search takes it for: the descriptor of a
\* vertex is the id of its node, and each edge joins two of them.  The
\* import reads past nodes_ only when some number below the largest node id
\* is not the end of any merged road.
DescriptorsAreIds ==
  /\ stage = "done" => \A i \in DOMAIN edges : \A v \in ToSet(edges[i].ends) :
                      v \in DOMAIN map /\ map[v] = v
  /\ stage = "ub" => \E v \in 0 .. Max(UsedNodes) : v \notin UsedNodes

------------------------------------------------------------------------------
(***************************************************************************)
(* The inductive invariant behind these properties.                        *)
(***************************************************************************)

\* d is the record that the rows rs give its road: it reaches as far as the
\* furthest of them, from where the one that came first starts.
RecordOf(d, rs) ==
  /\ \E j \in DOMAIN rs : /\ rs[j].mainid = d.mainid
                          /\ rs[j].subid = d.subid /\ rs[j].endid = d.endid
  /\ \A j \in DOMAIN rs : rs[j].mainid = d.mainid => rs[j].subid <= d.subid
  /\ \E j \in DOMAIN rs : /\ rs[j].mainid = d.mainid /\ rs[j].startid = d.startid
                          /\ \A k \in 1 .. j - 1 : rs[k].mainid # d.mainid

\* There is one record for each road of the rows that came so far.
RecordsAreMerged ==
  /\ \A i \in DOMAIN dedup : RecordOf(dedup[i], raw)
  /\ \A j \in DOMAIN raw : \E i \in DOMAIN dedup : dedup[i].mainid = raw[j].mainid
  /\ \A i, j \in DOMAIN dedup : dedup[i].mainid = dedup[j].mainid => i = j

\* The graph is made of these records.
GraphIsMade ==
  /\ stage # "fetch" => ToSet(raw) = table
  /\ stage \in {"build", "done", "ub"} =>
       /\ IsInjective(nodes) /\ ToSet(nodes) = UsedNodes
       /\ edges = [i \in DOMAIN dedup |-> [road |-> dedup[i].mainid, ends |-> EndsOf(dedup[i])]]
  /\ stage = "done" => map = [v \in Vertices |-> v]
  /\ stage = "ub" => ~(Vertices \subseteq ToSet(nodes))

ImportInv == ImportTypeOK /\ RecordsAreMerged /\ GraphIsMade

=============================================================================
