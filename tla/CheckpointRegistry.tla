------------------------- MODULE CheckpointRegistry -------------------------
(***************************************************************************)
(* The checkpoints table of xnch-train (train/registry.py) as a set of     *)
(* rows, and its operations as operators on that set.  Each is one SQLite  *)
(* transaction: it happens as a whole or, when it raises, not at all.      *)
(* sqlite gives a new row a rowid above those of the rows it has, so the   *)
(* rowid orders the rows that are there by age, though a rowid is given    *)
(* again once the newest row is deleted.                                   *)
(***************************************************************************)
EXTENDS Naturals, FiniteSets, FiniteSetsExt

NextRowid(rows) == Max({0} \cup {r.rowid : r \in rows}) + 1

(* Mutant: INSERT OR REPLACE.                                              *)
CanAlways(rows, id, path) == TRUE

(* INSERT OR ABORT under PRIMARY KEY checkpoint_id and UNIQUE path.        *)
CanRegister(rows, id, path) == \A r \in rows : r.id # id /\ r.path # path

Registered(rows, id, path, date) ==
  rows \cup {[id |-> id, path |-> path, date |-> date, rowid |-> NextRowid(rows)]}

(* ORDER BY date DESC, rowid DESC                                          *)
Newer(a, b) == \/ a.date > b.date
               \/ a.date = b.date /\ a.rowid > b.rowid

(* retain: the max_candidates newest rows stay, the others are deleted.    *)
Retained(rows, max) ==
  {r \in rows : Cardinality({s \in rows : Newer(s, r)}) < max}

(* current: the newest checkpoint.                                         *)
Current(rows) == {r \in rows : \A s \in rows : ~Newer(s, r)}

(* get_path, as the set of the path or of nothing.                         *)
PathOf(rows, id) == {r.path : r \in {s \in rows : s.id = id}}
=============================================================================
