-------------------------- MODULE KhoaNgoaiProofs ---------------------------
(***************************************************************************)
(* Theorems about KhoaNgoai, for any modules, references and records.  The *)
(* registry is closed under dependencies at every step (LoadedClosed), so  *)
(* a covered reference is never unknown and gets its key before its module *)
(* counts as installed (Keys); a reference with a key is whole (KeysSound),*)
(* and one without a key has no record to be kept in (Rows, Values).       *)
(***************************************************************************)
EXTENDS KhoaNgoai, TLAPS

-----------------------------------------------------------------------------
(* Every variable keeps its type.                                          *)
LEMMA TypeInit == Init => TypeOK
<1> SUFFICES ASSUME Init
             PROVE  TypeOK
  OBVIOUS
<1>1. value \in [Field -> [Row -> Row \cup {Null}]]
  BY DEF Init
<1>2. life \in [Row -> {"none", "live", "gone"}]
  BY DEF Init
<1>3. state \in [Module -> ModuleState] /\ seen \in [Module -> ModuleState]
  BY DEF Init, ModuleState
<1> QED
  BY <1>1, <1>2, <1>3 DEF Init, TypeOK

LEMMA MarkedType ==
  ASSUME NEW s \in [Module -> ModuleState], NEW u \in SUBSET Module
  PROVE  Marked(s, u) \in [Module -> ModuleState] /\ Reset(s) \in [Module -> ModuleState]
  BY DEF Marked, Reset, ModuleState

LEMMA TypeNext == TypeOK /\ [Next]_vars => TypeOK'
<1> SUFFICES ASSUME TypeOK, [Next]_vars
             PROVE  TypeOK'
  OBVIOUS
<1> USE DEF TypeOK
<1>1. CASE UNCHANGED vars
  BY <1>1 DEF vars, process
<1>2. ASSUME NEW u \in SUBSET Module, Start(u)
      PROVE  TypeOK'
  BY <1>2, MarkedType DEF Start
<1>3. ASSUME NEW u \in SUBSET Module, ButtonImmediate(u)
      PROVE  TypeOK'
  BY <1>3, MarkedType DEF ButtonImmediate
<1>4. ASSUME NEW u \in SUBSET Module, Fail(u)
      PROVE  TypeOK'
  BY <1>4, MarkedType DEF Fail
<1>5. ASSUME NEW m \in Module, LoadOnly(m)
      PROVE  TypeOK'
  BY <1>5 DEF LoadOnly
<1>6. ASSUME NEW m \in Module, UpdateModule(m)
      PROVE  TypeOK'
  <2>1. SetUp(m) \subseteq Field /\ NewKeys(m) \subseteq Field
    BY DEF SetUp, Dangling, NewKeys
  <2> QED
    BY <1>6, <2>1 DEF UpdateModule, ModuleState
<1>7. CASE Serve
  BY <1>7 DEF Serve, Dangling
<1>8. CASE Stop
  BY <1>8 DEF Stop
<1>9. ASSUME NEW x \in Row, Create(x)
      PROVE  TypeOK'
  BY <1>9 DEF Create, process
<1>10. ASSUME NEW x \in Row, Delete(x)
       PROVE  TypeOK'
  <2>1. PICK D \in {Doomed(x)} : DeleteRows(D)
    BY <1>10 DEF Delete
  <2>2. life' \in [Row -> {"none", "live", "gone"}] /\ value' \in [Field -> [Row -> Row \cup {Null}]]
    BY <2>1 DEF DeleteRows
  <2> QED
    BY <1>10, <2>2 DEF Delete, process
<1>11. ASSUME NEW x \in Row, NEW f \in Field, NEW y \in Row \cup {Null}, Write(x, f, y)
       PROVE  TypeOK'
  BY <1>11 DEF Write, process
<1> QED
  BY <1>1, <1>2, <1>3, <1>4, <1>5, <1>6, <1>7, <1>8, <1>9, <1>10, <1>11 DEF Next

THEOREM TypeCorrect == Spec => []TypeOK
  BY TypeInit, TypeNext, PTL DEF Spec

-----------------------------------------------------------------------------
(* Modules *)

\* What is loaded is closed, and counts as installed.
LoadedClosed == DependsClosed(loaded)

LoadedInstalled ==
  \A m \in loaded : Installed(seen, m) /\ (phase = "serving" => Installed(state, m))

\* A process never takes an installed module for one that is not.
SeenKeeps == \A m \in Module : Installed(state, m) => Installed(seen, m)

\* A covered reference is known; it has its key once its module is installed.
Keys ==
  \A f \in Field : Covered(f) =>
    f \notin unknown /\ (Installed(seen, ModuleOf(f)) => f \in fk)

LoadInv == TypeOK /\ LoadedClosed /\ LoadedInstalled /\ SeenKeeps /\ Keys

LEMMA OwnerIsModule == \A f \in Field : ModuleOf(f) \in Module
  BY ModuleAssumption, FieldAssumption DEF ModuleOf

LEMMA LoadInit == Init => LoadInv
  BY TypeInit, OwnerIsModule
     DEF Init, LoadInv, LoadedClosed, DependsClosed, LoadedInstalled, SeenKeeps, Keys, Installed

\* Marking and resetting modules installs none and loses none.
LEMMA MarkedInstalled ==
  ASSUME NEW s \in [Module -> ModuleState], NEW u \in SUBSET Module, NEW m \in Module
  PROVE  /\ Installed(Marked(s, u), m) <=> Installed(s, m)
         /\ Installed(Reset(s), m) <=> Installed(s, m)
  BY DEF Marked, Reset, Installed

\* In a closed registry no covered reference dangles.
LEMMA CoveredIsKnown ==
  ASSUME NEW f \in Field, Covered(f), NEW L \in SUBSET Module, DependsClosed(L)
  PROVE  f \notin Dangling(L)
  BY DEF Covered, Dangling

LEMMA LoadNext == LoadInv /\ [Next]_vars => LoadInv'
<1> SUFFICES ASSUME LoadInv, [Next]_vars
             PROVE  LoadInv'
  OBVIOUS
<1>0. TypeOK /\ TypeOK'
  BY TypeNext DEF LoadInv
<1> USE ModuleAssumption, OwnerIsModule
    DEF LoadInv, LoadedClosed, LoadedInstalled, SeenKeeps, Keys
<1>1. CASE UNCHANGED <<state, fk, process>>
  BY <1>0, <1>1 DEF process, DependsClosed, Installed, Covered
<1>2. ASSUME NEW u \in SUBSET Module, Start(u)
      PROVE  LoadInv'
  <2>1. \A m \in Module : Installed(seen', m) <=> Installed(state, m)
    BY <1>0, <1>2, MarkedInstalled DEF Start, TypeOK
  <2>2. Keys'
    BY <1>2, <2>1 DEF Start
  <2> QED
    BY <1>0, <1>2, <2>1, <2>2 DEF Start, DependsClosed, Installed
<1>3. ASSUME NEW u \in SUBSET Module, ButtonImmediate(u)
      PROVE  LoadInv'
  <2>1. /\ seen' = state' /\ loaded' = {} /\ fk' = fk /\ unknown' = unknown
        /\ \A m \in Module : Installed(seen', m) <=> Installed(state, m)
    BY <1>0, <1>3, MarkedInstalled DEF ButtonImmediate, TypeOK
  <2> QED
    BY <1>0, <2>1 DEF DependsClosed, Installed
<1>4. ASSUME NEW u \in SUBSET Module, Fail(u)
      PROVE  LoadInv'
  <2>1. /\ loaded' = {} /\ fk' = fk /\ unknown' = unknown
        /\ \A m \in Module : /\ Installed(seen', m) <=> Installed(state, m)
                             /\ Installed(state', m) <=> Installed(state, m)
    BY <1>0, <1>4, MarkedInstalled, MarkedType DEF Fail, TypeOK
  <2> QED
    BY <1>0, <2>1 DEF DependsClosed
<1>5. ASSUME NEW m \in Module, LoadOnly(m)
      PROVE  LoadInv'
  <2>1. DependsClosed(loaded')
    BY <1>5 DEF LoadOnly, Loadable, DependsClosed
  <2>2. Installed(seen, m)
    BY <1>5 DEF LoadOnly, Installed
  <2> QED
    BY <1>0, <1>5, <2>1, <2>2 DEF LoadOnly, Installed
<1>6. ASSUME NEW m \in Module, UpdateModule(m)
      PROVE  LoadInv'
  <2>1. DependsClosed(loaded \cup {m})
    BY <1>6 DEF UpdateModule, Loadable, DependsClosed
  <2>2. /\ \A n \in Module : Installed(seen', n) <=> Installed(seen, n) \/ n = m
        /\ state' = seen /\ loaded' = loaded \cup {m} /\ phase' = "loading"
    BY <1>0, <1>6 DEF UpdateModule, Installed, TypeOK
  <2>3. ASSUME NEW f \in Field, Covered(f)
        PROVE  f \notin unknown' /\ (Installed(seen', ModuleOf(f)) => f \in fk')
    <3>1. f \notin SetUp(m)
      BY <1>0, <2>1, <2>3, CoveredIsKnown DEF SetUp, TypeOK
    <3> QED
      BY <1>6, <2>2, <2>3, <3>1 DEF UpdateModule, NewKeys
  <2>4. LoadedInstalled' /\ SeenKeeps'
    BY <1>0, <2>2 DEF TypeOK, Installed
  <2> QED
    BY <1>0, <2>1, <2>2, <2>3, <2>4
<1>7. CASE Serve
  <2>1. \A f \in Field : Covered(f) => f \notin unknown'
    BY <1>0, <1>7, CoveredIsKnown DEF Serve, TypeOK
  <2> QED
    BY <1>0, <1>7, <2>1 DEF Serve, Installed
<1>8. CASE Stop
  BY <1>0, <1>8 DEF Stop, DependsClosed
<1> QED
  BY <1>1, <1>2, <1>3, <1>4, <1>5, <1>6, <1>7, <1>8
     DEF Next, Create, Delete, Write, vars

LEMMA LoadInvariant == Spec => []LoadInv
  BY LoadInit, LoadNext, PTL DEF Spec

(* However installations and updates are interrupted, a module that counts *)
(* as installed has the foreign keys of all references that follow the     *)
(* dependencies of the modules, and they are known to every process.       *)
THEOREM KeysOfInstalled == Spec => []CoveredHasKey
<1>1. LoadInv => CoveredHasKey
  BY OwnerIsModule DEF LoadInv, Keys, SeenKeeps, CoveredHasKey
<1> QED
  BY <1>1, LoadInvariant, PTL

-----------------------------------------------------------------------------
(* Records *)

\* There are records of installed modules only.
Rows == \A x \in Row : life[x] # "none" => Installed(state, DefinedBy[In[x]])

\* Only a live record has references, those of its model.
Values == \A f \in Field, x \in Row : value[f][x] # Null => In[x] = From[f] /\ life[x] = "live"

\* A reference with a foreign key names no deleted record.
KeysSound == \A f \in fk : Sound(f)

RowInv == LoadInv /\ Rows /\ Values /\ KeysSound

LEMMA ValueType ==
  ASSUME TypeOK, NEW f \in Field, NEW x \in Row
  PROVE  value[f][x] \in Row \cup {Null}
<1>1. value[f] \in [Row -> Row \cup {Null}]
  BY DEF TypeOK
<1> QED
  BY <1>1

LEMMA KeyIsField == TypeOK => \A f \in fk : f \in Field
  BY DEF TypeOK

LEMMA RowInit == Init => RowInv
  BY LoadInit DEF Init, RowInv, Rows, Values, KeysSound, Sound

\* What is deleted in cascade is closed under the cascade.
LEMMA DoomedClosed ==
  ASSUME NEW x \in Row
  PROVE  x \in Doomed(x) /\ Doomed(x) \subseteq Row /\ CascadeClosed(Doomed(x))
  BY DEF Doomed, CascadeClosed, Refers

LEMMA RowNext == RowInv /\ [Next]_vars => RowInv'
<1> SUFFICES ASSUME RowInv, [Next]_vars
             PROVE  RowInv'
  OBVIOUS
<1>0. LoadInv' /\ TypeOK
  BY LoadNext DEF RowInv, LoadInv
<1>a. \A x \in Row : DefinedBy[In[x]] \in Module
  BY RowAssumption, ModuleAssumption
<1>b. Rows /\ Values /\ KeysSound
  BY DEF RowInv
<1> USE DEF RowInv
<1>1. CASE UNCHANGED <<life, value, fk>> /\ (\A m \in Module : Installed(state, m) => Installed(state', m))
  BY <1>0, <1>1, <1>a, <1>b DEF Sound, Rows, Values, KeysSound
<1>2. ASSUME NEW m \in Module, UpdateModule(m)
      PROVE  RowInv'
  <2>1. /\ UNCHANGED <<life, value>> /\ fk' = fk \cup NewKeys(m)
        /\ \A n \in Module : Installed(state, n) => Installed(state', n)
        /\ \A f \in NewKeys(m) : Sound(f)
    BY <1>b, <1>2 DEF UpdateModule, LoadInv, SeenKeeps, KeysSound
  <2> QED
    BY <1>0, <1>a, <1>b, <2>1 DEF Sound, Rows, Values, KeysSound
<1>3. ASSUME NEW x \in Row, Create(x)
      PROVE  RowInv'
  <2>1. /\ life[x] = "none" /\ life'[x] = "live"
        /\ \A y \in Row \ {x} : life'[y] = life[y]
        /\ UNCHANGED <<state, fk, value>>
    BY <1>0, <1>3 DEF Create, TypeOK
  <2>2. Installed(state, DefinedBy[In[x]])
    BY <1>3 DEF Create, Serves, LoadInv, LoadedInstalled
  <2>3. Rows'
    BY <1>b, <2>1, <2>2 DEF Installed, Rows
  <2>4. Values'
    BY <1>b, <2>1 DEF Values
  <2>5. ASSUME NEW f \in fk
        PROVE  Sound(f)'
    <3>1. f \in Field /\ value[f][x] = Null
      BY <1>0, <1>b, <2>1, KeyIsField DEF Values
    <3>2. \A y \in Row : value[f][y] # Null => value[f][y] \in Row
      BY <1>0, <3>1, ValueType
    <3>3. Sound(f)
      BY <1>b DEF KeysSound
    <3> QED
      BY ONLY <2>1, <3>1, <3>2, <3>3 DEF Sound
  <2> QED
    BY <1>0, <2>1, <2>3, <2>4, <2>5 DEF KeysSound
<1>4. ASSUME NEW x \in Row, Delete(x)
      PROVE  RowInv'
  <2> DEFINE D == Doomed(x)
  <2>1. DeleteRows(D) /\ UNCHANGED <<state, fk>> /\ life[x] = "live"
    BY <1>4 DEF Delete
  <2>2. D \subseteq Row /\ CascadeClosed(D)
    BY DoomedClosed
  <2> HIDE DEF D
  <2>3. \A y \in Row : life'[y] = IF y \in D THEN "gone" ELSE life[y]
    BY <2>1 DEF DeleteRows
  <2>4. \A f \in Field, y \in Row :
          value'[f][y] = IF y \in D \/ (f \in fk /\ OnDelete[f] = "set null" /\ Refers(f, y, D))
                         THEN Null ELSE value[f][y]
    BY <2>1 DEF DeleteRows
  <2>5. ASSUME NEW f \in fk, NEW y \in Row, life'[y] = "live", value'[f][y] # Null
        PROVE  life'[value'[f][y]] = "live"
    <3>1. f \in Field /\ value[f][y] \in Row \cup {Null} /\ Sound(f)
      BY <1>0, <1>b, KeyIsField, ValueType DEF KeysSound
    <3>2. y \notin D /\ life[y] = "live"
      BY <2>3, <2>5
    <3>3. value'[f][y] = value[f][y] /\ value[f][y] \in Row /\ life[value[f][y]] = "live"
      BY ONLY <2>4, <2>5, <3>1, <3>2 DEF Sound
    <3>4. ~Refers(f, y, D)
      <4>1. CASE OnDelete[f] = "cascade"
        BY <2>2, <3>2, <4>1 DEF CascadeClosed
      <4>2. CASE OnDelete[f] = "restrict"
        BY <2>1, <4>2 DEF DeleteRows
      <4>3. CASE OnDelete[f] = "set null"
        BY <2>4, <2>5, <3>1, <4>3
      <4> QED
        BY <3>1, <4>1, <4>2, <4>3, FieldAssumption
    <3>5. value[f][y] \notin D
      BY <3>2, <3>4 DEF Refers
    <3> QED
      BY <2>3, <3>3, <3>5
  <2>6. KeysSound'
    <3>1. fk' = fk
      BY <2>1
    <3> QED
      BY ONLY <2>5, <3>1 DEF KeysSound, Sound
  <2>7. \A y \in Row : y \in D => life[y] # "none"
    <3> DEFINE S == {y \in Row : life[y] # "none"}
    <3>1. CascadeClosed(S) /\ x \in S
      BY <2>1 DEF CascadeClosed, Refers
    <3> QED
      BY <3>1 DEF D, Doomed
  <2>8. Rows'
    BY <1>b, <2>1, <2>3, <2>7 DEF Installed, Rows
  <2>9. Values'
    <3>1. \A f \in Field, y \in Row : value'[f][y] # Null => y \notin D /\ value[f][y] # Null
      BY ONLY <2>4
    <3> QED
      BY ONLY <1>b, <2>3, <3>1 DEF Values
  <2> QED
    BY <1>0, <2>6, <2>8, <2>9
<1>5. ASSUME NEW x \in Row, NEW f \in Field, NEW y \in Row \cup {Null}, Write(x, f, y)
      PROVE  RowInv'
  <2>1. /\ value'[f][x] = y /\ life[x] = "live" /\ In[x] = From[f]
        /\ \A g \in Field, z \in Row : g # f \/ z # x => value'[g][z] = value[g][z]
        /\ UNCHANGED <<state, fk, life>>
        /\ f \in fk /\ y # Null => life[y] = "live"
    BY <1>0, <1>5 DEF Write, Choice, TypeOK
  <2>2. Rows'
    BY <1>b, <2>1 DEF Installed, Rows
  <2>3. Values'
    BY ONLY <1>b, <2>1 DEF Values
  <2>4. \A g \in fk : g \in Field
    BY <1>0, KeyIsField
  <2>5. KeysSound'
    BY ONLY <1>b, <2>1, <2>4 DEF KeysSound, Sound
  <2> QED
    BY <1>0, <2>2, <2>3, <2>5
<1>6. ASSUME NEW u \in SUBSET Module, Start(u) \/ ButtonImmediate(u) \/ Fail(u)
      PROVE  UNCHANGED <<life, value, fk>> /\ (\A m \in Module : Installed(state, m) => Installed(state', m))
  <2>1. UNCHANGED <<life, value, fk>> /\ state' \in {state, Marked(state, u), Reset(state)}
    BY <1>6 DEF Start, ButtonImmediate, Fail
  <2>2. state \in [Module -> ModuleState]
    BY <1>0 DEF TypeOK
  <2> QED
    <3>1. CASE state' = state
      BY <2>1, <3>1 DEF Installed
    <3>2. CASE state' = Marked(state, u)
      BY <2>1, <2>2, <3>2, MarkedInstalled
    <3>3. CASE state' = Reset(state)
      BY <2>1, <2>2, <3>3, MarkedInstalled
    <3> QED
      BY <2>1, <3>1, <3>2, <3>3
<1>7. ASSUME NEW m \in Module, LoadOnly(m)
      PROVE  UNCHANGED <<life, value, fk>> /\ state' = state
  BY <1>7 DEF LoadOnly
<1>8. Serve \/ Stop =>
        UNCHANGED <<life, value, fk>> /\ (\A m \in Module : Installed(state, m) => Installed(state', m))
  BY DEF Serve, Stop, LoadInv, SeenKeeps, Installed
<1>9. UNCHANGED vars => UNCHANGED <<life, value, fk>> /\ state' = state
  BY DEF vars
<1>10. state' = state => \A m \in Module : Installed(state, m) => Installed(state', m)
  BY DEF Installed
<1> QED
  BY <1>1, <1>2, <1>3, <1>4, <1>5, <1>6, <1>7, <1>8, <1>9, <1>10 DEF Next

LEMMA RowInvariant == Spec => []RowInv
  BY RowInit, RowNext, PTL DEF Spec

(* A reference that follows the dependencies never names a record that is  *)
(* gone, for any graph of references and any mix of cascades, restrictions *)
(* and emptied references.                                                 *)
THEOREM ReferencesWhole == Spec => []CoveredIsWhole
<1>1. RowInv => CoveredIsWhole
  <2> SUFFICES ASSUME RowInv, NEW f \in Field, Covered(f), f \notin fk
               PROVE  Sound(f)
    BY DEF RowInv, KeysSound, CoveredIsWhole
  <2>1. ~Installed(state, ModuleOf(f))
    BY OwnerIsModule DEF RowInv, LoadInv, Keys, SeenKeeps
  <2>2. \A x \in Row : value[f][x] = Null
    BY <2>1 DEF RowInv, Rows, Values, ModuleOf
  <2> QED
    BY <2>2 DEF Sound
<1> QED
  BY <1>1, RowInvariant, PTL
=============================================================================
