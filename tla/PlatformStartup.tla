-------------------------- MODULE PlatformStartup --------------------------
(***************************************************************************)
(* The platform's SQLite schema: the server's lifespan creates the tables  *)
(* and then runs the alembic upgrade that creates the same tables.  An     *)
(* operator may run the upgrade from a command line, and any of the two    *)
(* processes may die between two statements; each statement commits alone. *)
(***************************************************************************)
EXTENDS Naturals, Sequences, FiniteSets

CONSTANT Entities   \* the entities of COLUMNS, in order

ASSUME StartupEntities == /\ Entities \in Seq(STRING) /\ Entities # << >>
                          /\ \A i, j \in DOMAIN Entities :
                               Entities[i] = Entities[j] => i = j

VARIABLES
  tables,   \* tables of platform.db
  stamp,    \* alembic_version: "absent", "empty" or the revision
  proc      \* the server and the command line: what they do, and at which entity

startupVars == <<tables, stamp, proc>>

AllTables == {Entities[i] : i \in DOMAIN Entities}
Baseline == "0001_baseline"
Process == {"server", "alembic"}
Enter(p, pc) == proc' = [proc EXCEPT ![p] = [pc |-> pc, i |-> 1]]
Doing(p, pc) == proc[p].pc = pc

StartupInit ==
  /\ tables = {} /\ stamp = "absent"
  /\ proc = [p \in Process |-> [pc |-> "down", i |-> 1]]

(* Faulty: the migration comes first, and the tables it lacks afterwards.  *)
UpgradeFirst == Doing("server", "down") /\ Enter("server", "upgrade") /\ UNCHANGED <<tables, stamp>>

Lifespan ==
  /\ Doing("server", "down")
  /\ Enter("server", "ensure")
  /\ UNCHANGED <<tables, stamp>>

(* Faulty: the last entity is forgotten.                                   *)
EnsureAllButOne(pc, next) ==
  /\ Doing("server", pc)
  /\ IF proc["server"].i >= Len(Entities)
     THEN Enter("server", next) /\ UNCHANGED tables
     ELSE /\ tables' = tables \cup {Entities[proc["server"].i]}
          /\ proc' = [proc EXCEPT !["server"].i = @ + 1]
  /\ UNCHANGED stamp

(* ensure_schema(), in the lifespan before the upgrade ("ensure") and      *)
(* after one that raised ("again").                                        *)
EnsureSchema(pc, next) ==
  /\ Doing("server", pc)
  /\ IF proc["server"].i > Len(Entities)
     THEN Enter("server", next) /\ UNCHANGED tables
     ELSE /\ tables' = tables \cup {Entities[proc["server"].i]}
          /\ proc' = [proc EXCEPT !["server"].i = @ + 1]
  /\ UNCHANGED stamp

CommandLine ==
  /\ Doing("alembic", "down")
  /\ Enter("alembic", "upgrade")
  /\ UNCHANGED <<tables, stamp>>

(* A raised exception is swallowed by the server, and ends the other.      *)
Raise(p) == Enter(p, IF p = "server" THEN "again" ELSE "down")
Finished(p) == Enter(p, IF p = "server" THEN "serving" ELSE "down")

(* upgrade head: nothing to do at the revision; else the version table is  *)
(* made and the entities are created one by one.                           *)
Upgrade(p) ==
  /\ Doing(p, "upgrade")
  /\ IF stamp = Baseline THEN Finished(p) /\ UNCHANGED stamp
     ELSE Enter(p, "create") /\ stamp' = "empty"
  /\ UNCHANGED tables
CreateTable(p) ==
  /\ Doing(p, "create") /\ proc[p].i <= Len(Entities)
  /\ LET entity == Entities[proc[p].i]
     IN IF entity \in tables THEN Raise(p) /\ UNCHANGED tables
        ELSE /\ tables' = tables \cup {entity}
             /\ proc' = [proc EXCEPT ![p].i = @ + 1]
  /\ UNCHANGED stamp
StampBaseline(p) ==
  /\ Doing(p, "create") /\ proc[p].i > Len(Entities)
  /\ stamp' = Baseline /\ Finished(p)
  /\ UNCHANGED tables

(* The database is locked, or alembic.ini or a script cannot be read.      *)
UpgradeRaises(p) ==
  /\ proc[p].pc \in {"upgrade", "create"}
  /\ Raise(p)
  /\ UNCHANGED <<tables, stamp>>
Die(p) ==
  /\ ~Doing(p, "down")
  /\ Enter(p, "down")
  /\ UNCHANGED <<tables, stamp>>

StartupNext ==
  \/ Lifespan \/ CommandLine
  \/ EnsureSchema("ensure", "upgrade") \/ EnsureSchema("again", "serving")
  \/ \E p \in Process : Upgrade(p) \/ CreateTable(p) \/ StampBaseline(p)
                          \/ UpgradeRaises(p) \/ Die(p)
StartupSpec == StartupInit /\ [][StartupNext]_startupVars
----------------------------------------------------------------------------
(* Whatever was killed or failed before, a server that serves has every    *)
(* table a capability stores into, and a stamped database has them too.    *)
ServingHasTables ==
  Doing("server", "serving") \/ stamp = Baseline => tables = AllTables

(* Because the tables are created first, the server never records the      *)
(* revision: the upgrade it runs can only fail, or find it recorded.  One  *)
(* that is recorded, a command line recorded that found no table.          *)
ServerNeverStamps ==
  [][stamp' = Baseline /\ stamp # Baseline =>
       Doing("alembic", "create") /\ ~ Doing("alembic", "create")']_startupVars
=============================================================================
