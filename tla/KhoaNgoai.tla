----------------------------- MODULE KhoaNgoai ------------------------------
(***************************************************************************)
(* References between the tables of the addons (khoa ngoai: foreign key),  *)
(* and the loading of modules that creates their foreign keys              *)
(* (src/odoo/modules/loading.py, registry.py, and Many2one in fields.py).  *)
(*                                                                         *)
(* A module loads after those it depends on.  While a module is updated,   *)
(* the models loaded so far are set up: a reference to a model that is not *)
(* there yet becomes one to `_unknown', for as long as the process lives,  *)
(* and gets no foreign key.  What a delete then does to the rows that      *)
(* refer to the deleted one is up to the foreign keys there are.           *)
(*                                                                         *)
(* A module is updated and committed before its new state is written: the  *)
(* state is committed with the next module.  A process may be killed at    *)
(* any time.                                                               *)
(***************************************************************************)
CONSTANTS
  Module,     \* addons
  Depends,    \* `depends' of the manifest of each
  Table,      \* their models
  DefinedBy,  \* the module of each model
  Field,      \* Many2one fields
  From, To,   \* the model of each field and its comodel
  OnDelete,   \* what the field says of a deleted target
  Row,        \* records; an id is never used again
  In,         \* the model of each record
  Null        \* an empty reference

ASSUME ModuleAssumption == /\ Depends \in [Module -> SUBSET Module]
                           /\ DefinedBy \in [Table -> Module]
ASSUME FieldAssumption  == /\ From \in [Field -> Table] /\ To \in [Field -> Table]
                           /\ OnDelete \in [Field -> {"cascade", "restrict", "set null"}]
ASSUME RowAssumption    == In \in [Row -> Table] /\ Null \notin Row

VARIABLES
  state,      \* state of each module, committed
  fk,         \* the fields with a foreign key
  life, value,\* the records and what their fields refer to
  phase,      \* of the server process
  config,     \* modules to update, of its command line
  seen,       \* state of each module, as the process sees it
  update,     \* the registry is loaded with update_module
  loaded,     \* modules in the registry
  unknown     \* fields whose comodel is `_unknown' in this process

process == <<phase, config, seen, update, loaded, unknown>>
vars    == <<state, fk, life, value, process>>

ModuleState == {"uninstalled", "to install", "to upgrade", "installed"}

TypeOK ==
  /\ state   \in [Module -> ModuleState]
  /\ fk      \subseteq Field
  /\ life    \in [Row -> {"none", "live", "gone"}]
  /\ value   \in [Field -> [Row -> Row \cup {Null}]]
  /\ phase   \in {"down", "loading", "serving"}
  /\ config  \subseteq Module
  /\ seen    \in [Module -> ModuleState]
  /\ update  \in BOOLEAN
  /\ loaded  \subseteq Module
  /\ unknown \subseteq Field

\* A new database.
Init ==
  /\ state   = [m \in Module |-> "uninstalled"]
  /\ fk      = {}
  /\ life    = [x \in Row |-> "none"]
  /\ value   = [f \in Field |-> [x \in Row |-> Null]]
  /\ phase   = "down"
  /\ config  = {}
  /\ seen    = [m \in Module |-> "uninstalled"]
  /\ update  = FALSE
  /\ loaded  = {}
  /\ unknown = {}

ModuleOf(f)  == DefinedBy[From[f]]
TargetOf(f)  == DefinedBy[To[f]]

-----------------------------------------------------------------------------
(* Loading the registry *)

Installed(s, m) == s[m] \in {"to upgrade", "installed"}

\* button_upgrade takes along what depends on an installed module, and
\* button_install what a new one depends on.
Complete(u) ==
  \A m \in Module, n \in Module :
    n \in Depends[m] =>
      /\ Installed(state, m) /\ Installed(state, n) /\ n \in u => m \in u
      /\ m \in u => Installed(state, n) \/ n \in u

Marked(s, u) ==
  [m \in Module |-> IF m \notin u THEN s[m]
                    ELSE IF Installed(s, m) THEN "to upgrade" ELSE "to install"]

\* odoo-bin, with -i or -u of the modules in u.  Nothing is committed yet.
Start(u) ==
  /\ phase = "down"
  /\ Complete(u)
  /\ phase'   = "loading"
  /\ config'  = u
  /\ seen'    = Marked(state, u)
  /\ update'  = (u # {})
  /\ loaded'  = {}
  /\ unknown' = {}
  /\ UNCHANGED <<state, fk, life, value>>

\* _button_immediate_function, from the menu Apps: the marks are committed and
\* the same process builds a new registry.
ButtonImmediate(u) ==
  /\ phase = "serving"
  /\ u # {} /\ Complete(u)
  /\ phase'  = "loading"
  /\ state'  = Marked(state, u)
  /\ seen'   = Marked(state, u)
  /\ update' = TRUE
  /\ loaded' = {}
  /\ UNCHANGED <<fk, life, value, config, unknown>>

\* load_marked_modules: installed modules first, then new ones.
Marks(m) ==
  \/ Installed(seen, m)
  \/ /\ seen[m] = "to install" /\ update
     /\ \A n \in Module : Installed(seen, n) => n \in loaded

\* Mutant of Loadable: the graph forgets the dependencies of a new module.
Loadable_AnyOrder(m) == m \notin loaded /\ Marks(m)

\* The graph yields a module after those it depends on.
Loadable(m) == m \notin loaded /\ Marks(m) /\ Depends[m] \subseteq loaded

\* setup_nonrelated with the models of the modules in L.
Dangling(L) == {f \in Field : ModuleOf(f) \in L /\ TargetOf(f) \notin L}

LoadOnly(m) ==
  /\ phase = "loading"
  /\ Loadable(m)
  /\ seen[m] = "installed"
  /\ loaded' = loaded \cup {m}
  /\ UNCHANGED <<state, fk, life, value, phase, config, seen, update, unknown>>

\* Models are set up before and after the module is loaded.
SetUp(m) == unknown \cup Dangling(loaded) \cup Dangling(loaded \cup {m})

\* What ALTER TABLE ... ADD FOREIGN KEY accepts.
Sound(f) == \A x \in Row : life[x] = "live" /\ value[f][x] # Null => life[value[f][x]] = "live"

\* init_models, check_foreign_keys: those of the module that are known.  If one
\* cannot be added the loading fails.
NewKeys(m) == {f \in Field : ModuleOf(f) = m /\ f \notin SetUp(m)}

\* The tables are committed with the states there were before.
UpdateModule(m) ==
  /\ phase = "loading"
  /\ Loadable(m)
  /\ seen[m] \in {"to install", "to upgrade"}
  /\ \A f \in NewKeys(m) \ fk : Sound(f)
  /\ unknown' = SetUp(m)
  /\ fk'      = fk \cup NewKeys(m)
  /\ state'   = seen
  /\ seen'    = [seen EXCEPT ![m] = "installed"]
  /\ loaded'  = loaded \cup {m}
  /\ UNCHANGED <<life, value, phase, config, update>>

\* The last set-up; the command line has been carried out.
Serve ==
  /\ phase = "loading"
  /\ \A m \in Module : ~Loadable(m)
  /\ phase'   = "serving"
  /\ config'  = {}
  /\ state'   = seen
  /\ unknown' = unknown \cup Dangling(loaded)
  /\ UNCHANGED <<fk, life, value, seen, update, loaded>>

\* Mutant of Reset: a new module is not offered again.
Reset_Uninstallable(s) ==
  [m \in Module |-> IF Installed(s, m) THEN "installed" ELSE "uninstallable"]

\* reset_modules_state
Reset(s) == [m \in Module |-> IF Installed(s, m) THEN "installed" ELSE "uninstalled"]

\* An error: what is committed stays, and the next request has the process load
\* a registry again, updating modules of its command line.
Fail(again) ==
  /\ phase = "loading"
  /\ again \subseteq config \cap {m \in Module : Installed(state, m)}
  /\ state'  = Reset(state)
  /\ seen'   = Marked(Reset(state), again)
  /\ update' = FALSE
  /\ loaded' = {}
  /\ UNCHANGED <<fk, life, value, phase, config, unknown>>

\* The process is stopped or killed.
Stop ==
  /\ phase # "down"
  /\ phase'   = "down"
  /\ config'  = {}
  /\ seen'    = state
  /\ update'  = FALSE
  /\ loaded'  = {}
  /\ unknown' = {}
  /\ UNCHANGED <<state, fk, life, value>>

-----------------------------------------------------------------------------
(* Records *)

Serves(x) == phase = "serving" /\ DefinedBy[In[x]] \in loaded

Create(x) ==
  /\ Serves(x)
  /\ life[x] = "none"
  /\ life' = [life EXCEPT ![x] = "live"]
  /\ UNCHANGED <<state, fk, value, process>>

\* What a reference can be set to: a form may be out of date and name a deleted
\* record, which a foreign key refuses.
Choice(f) ==
  {y \in Row : /\ f \notin unknown
               /\ In[y] = To[f]
               /\ life[y] = "live" \/ (life[y] = "gone" /\ f \notin fk)}

Write(x, f, y) ==
  /\ Serves(x)
  /\ life[x] = "live"
  /\ From[f] = In[x]
  /\ y \in Choice(f) \cup {Null}
  /\ value' = [value EXCEPT ![f][x] = y]
  /\ UNCHANGED <<state, fk, life, process>>

Refers(f, x, D) == life[x] = "live" /\ value[f][x] \in D

\* Mutant of Doomed: only the rows that refer to x itself are deleted with it.
Doomed_Once(x) ==
  {x} \cup {y \in Row : \E f \in fk : OnDelete[f] = "cascade" /\ Refers(f, y, {x})}

CascadeClosed(S) ==
  \A y \in Row, f \in fk : OnDelete[f] = "cascade" /\ Refers(f, y, S) => y \in S

\* x and what ON DELETE CASCADE deletes with it.
Doomed(x) ==
  {y \in Row : \A S \in SUBSET Row : x \in S /\ CascadeClosed(S) => y \in S}

\* The rows D are deleted, if nothing restricts it.
DeleteRows(D) ==
  /\ \A f \in fk, y \in Row : OnDelete[f] = "restrict" => ~Refers(f, y, D)
  /\ life'  = [y \in Row |-> IF y \in D THEN "gone" ELSE life[y]]
  /\ value' = [f \in Field |-> [y \in Row |->
                 IF y \in D \/ (f \in fk /\ OnDelete[f] = "set null" /\ Refers(f, y, D))
                 THEN Null ELSE value[f][y]]]

Delete(x) ==
  /\ Serves(x)
  /\ life[x] = "live"
  /\ \E D \in {Doomed(x)} : DeleteRows(D)
  /\ UNCHANGED <<state, fk, process>>

-----------------------------------------------------------------------------
Next ==
  \/ \E u \in SUBSET Module : Start(u) \/ ButtonImmediate(u) \/ Fail(u)
  \/ \E m \in Module : LoadOnly(m) \/ UpdateModule(m)
  \/ Serve
  \/ Stop
  \/ \E x \in Row : Create(x) \/ Delete(x)
  \/ \E x \in Row, f \in Field, y \in Row \cup {Null} : Write(x, f, y)

Spec == Init /\ [][Next]_vars

-----------------------------------------------------------------------------
(* Properties *)

\* The module of f depends, directly or not, on that of its comodel.
DependsClosed(S) == \A m \in S : Depends[m] \subseteq S

Covered(f) == \A S \in SUBSET Module : ModuleOf(f) \in S /\ DependsClosed(S) => TargetOf(f) \in S

\* A module that counts as installed, be its update interrupted or its process
\* killed, has the foreign keys of its covered references, and no process takes
\* such a reference for one to `_unknown'.
CoveredHasKey ==
  \A f \in Field : Covered(f) =>
    f \notin unknown /\ (Installed(state, ModuleOf(f)) => f \in fk)

\* "ondelete" of the fields of khach_hang and its documents: a covered reference
\* of a record never names a record that was deleted, whatever was deleted in
\* cascade, by an out-of-date form or before the module was updated.
CoveredIsWhole == \A f \in Field : Covered(f) => Sound(f)

\* "ondelete='restrict'" of the register (van_ban.py), there to protect the
\* digitised files: the record a document refers to is not deleted.
RestrictProtects == \A f \in Field : OnDelete[f] = "restrict" => Sound(f)
=============================================================================
