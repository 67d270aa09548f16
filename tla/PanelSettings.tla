------------------------------ MODULE PanelSettings ------------------------------
(***************************************************************************)
(* The settings document: stored group by group, read over the documented  *)
(* defaults, and patched by panels that each load it, apply their patch,   *)
(* check the whole document and write back the groups they touched         *)
(* (service/settings.go, domain/settings_patch.go and the group files,     *)
(* repository/postgres/settings.go).  Three groups stand for the six: one  *)
(* with a rule across its fields, one that holds a password the panel      *)
(* never sees and a reference to another table, one with a bound.          *)
(***************************************************************************)
EXTENDS Integers, FiniteSets

CONSTANTS
  Editors,       \* panels with a PATCH in hand
  Patches,       \* what they may send: a value for each key named
  MaxPatches,    \* bound: patches begun
  MaxDbFaults    \* bound: statements that fail

Groups == {"saver", "network", "logging"}
Order == [network |-> 1, saver |-> 2, logging |-> 3]   \* touchedGroups
Keys == {<<"saver", "on">>, <<"saver", "url">>, <<"network", "password">>,
         <<"network", "binding">>, <<"logging", "days">>}
On == <<"saver", "on">>
Url == <<"saver", "url">>
Password == <<"network", "password">>
Binding == <<"network", "binding">>
Days == <<"logging", "days">>
KeysOf(g) == {k \in Keys : k[1] = g}
GroupsOf(patch) == {k[1] : k \in DOMAIN patch}

Mask == 9                                        \* ProxyPasswordMask
Values == 0..2
DefaultSettings == [k \in Keys |-> IF k = Days THEN 2 ELSE 0]
Default(g) == [k \in KeysOf(g) |-> DefaultSettings[k]]
NoRow == <<>>                                    \* absent, or written by a build this one cannot read

\* The panel sees no other secret than the proxy's, so it echoes no other one.
PanelSettingsAssumption ==
  /\ {MaxPatches, MaxDbFaults} \subseteq Nat
  /\ \A patch \in Patches : \A k \in DOMAIN patch :
       k \in Keys /\ patch[k] \in Values \union IF k = Password THEN {Mask} ELSE {}

VARIABLES
  rows,      \* the settings table
  pool,      \* the proxy row a binding may name is stored
  editor,    \* per panel: its patch, the document it computed, the groups left to write
  owed,      \* history: per key, what the last undisturbed patch was told is stored, or Mask
  patches, dbFaults

settingsVars == <<rows, pool, editor, owed, patches, dbFaults>>

Editor == [at : {"idle", "load", "check", "save"}, patch : Patches \union {<<>>},
           next : [Keys -> Values] \union {<<>>}, todo : SUBSET Groups, shared : SUBSET Groups]
Idle == [at |-> "idle", patch |-> <<>>, next |-> <<>>, todo |-> {}, shared |-> {}]

Init ==
  /\ rows \in [Groups -> {NoRow}] \union
       {[g \in Groups |-> IF g = "network" THEN Default(g) ELSE NoRow]}
  /\ pool \in BOOLEAN
  /\ editor = [e \in Editors |-> Idle]
  /\ owed = [k \in Keys |-> Mask]
  /\ patches = 0 /\ dbFaults = 0

Become(e, x) == editor' = [editor EXCEPT ![e] = x]
Busy(e) == editor[e].at # "idle"
Sets(patch, k) == k \in DOMAIN patch /\ patch[k] # Mask

\* Settings: a stored group over the defaults, key by key of the document.
Row(g) == IF rows[g] = NoRow THEN Default(g) ELSE rows[g]
Settings == [k \in Keys |-> Row(k[1])[k]]

\* A panel sends its PATCH; from here on it disturbs, and is disturbed by, the others that
\* touch a group of its.
Send(e) ==
  \E patch \in Patches :
    LET mine == GroupsOf(patch)
        busy == {o \in Editors \ {e} : Busy(o)} IN
    /\ ~Busy(e) /\ patches < MaxPatches
    /\ patches' = patches + 1
    /\ editor' = [o \in Editors |->
         IF o = e THEN [Idle EXCEPT !.at = "load", !.patch = patch,
                        !.shared = mine \intersect UNION {GroupsOf(editor[b].patch) : b \in busy}]
         ELSE IF o \in busy
           THEN [editor[o] EXCEPT !.shared = @ \union (mine \intersect GroupsOf(editor[o].patch))]
           ELSE editor[o]]
    /\ owed' = [k \in Keys |-> IF Sets(patch, k) THEN Mask ELSE owed[k]]
    /\ UNCHANGED <<rows, pool, dbFaults>>

\* mergeProxyPassword: the mask stands for the password already stored.
Merged(sent, current) == IF sent = Mask THEN current ELSE sent

\* Settings.Update: the keys the patch carries, over the document as it was loaded.
Applied(patch, current) ==
  [k \in Keys |-> IF k \notin DOMAIN patch THEN current[k]
                  ELSE IF k = Password THEN Merged(patch[k], current[k]) ELSE patch[k]]

\* Settings.Validate: the rules across keys and the bounds.
Validate(doc) == (doc[On] = 1 => doc[Url] # 0) /\ doc[Days] >= 1

\* mutant: every group is written, touched or not
TouchedEvery(patch) == Groups
\* touchedGroups
Touched(patch) == GroupsOf(patch)

\* Load, Update, and the refusal of a document that does not hold together: nothing is
\* written then.
Load(e) ==
  LET next == Applied(editor[e].patch, Settings) IN
  /\ editor[e].at = "load"
  /\ Become(e, IF Validate(next)
                 THEN [editor[e] EXCEPT !.at = "check", !.next = next,
                                        !.todo = Touched(editor[e].patch)]
                 ELSE Idle)
  /\ UNCHANGED <<rows, pool, owed, patches, dbFaults>>

\* checkBoundPools: only a patch that names a pool row asks for it.
CheckBoundPools(e) ==
  LET patch == editor[e].patch
      names == Binding \in DOMAIN patch /\ patch[Binding] # 0 IN
  /\ editor[e].at = "check"
  /\ Become(e, IF names /\ ~pool THEN Idle ELSE [editor[e] EXCEPT !.at = "save"])
  /\ UNCHANGED <<rows, pool, owed, patches, dbFaults>>

\* groupValue: the whole group, as this panel computed it.
RowToStore(e, g) == [k \in KeysOf(g) |-> editor[e].next[k]]

\* Save: one upsert a group, in the order of the groups.
Save(e) ==
  \E g \in editor[e].todo :
    /\ editor[e].at = "save" /\ \A h \in editor[e].todo : Order[g] <= Order[h]
    /\ rows' = [rows EXCEPT ![g] = RowToStore(e, g)]
    /\ Become(e, [editor[e] EXCEPT !.todo = editor[e].todo \ {g}])
    /\ UNCHANGED <<pool, owed, patches, dbFaults>>

\* A read or a write fails: the groups already written stay written.
Fail(e) ==
  /\ Busy(e) /\ dbFaults < MaxDbFaults
  /\ dbFaults' = dbFaults + 1
  /\ Become(e, Idle)
  /\ UNCHANGED <<rows, pool, owed, patches>>

Answer(e) ==
  LET mine == editor[e] IN
  /\ mine.at = "save" /\ mine.todo = {}
  /\ owed' = [k \in Keys |-> IF k[1] \in mine.shared THEN Mask
                             ELSE IF Sets(mine.patch, k) THEN mine.patch[k] ELSE owed[k]]
  /\ Become(e, Idle)
  /\ UNCHANGED <<rows, pool, patches, dbFaults>>

\* The proxy row goes without a look at the bindings that name it.
DeletePool ==
  /\ pool /\ pool' = FALSE
  /\ UNCHANGED <<rows, editor, owed, patches, dbFaults>>

Next ==
  \/ \E e \in Editors : Send(e) \/ Load(e) \/ CheckBoundPools(e) \/ Save(e) \/ Fail(e) \/ Answer(e)
  \/ DeletePool

Spec == Init /\ [][Next]_settingsVars

-----------------------------------------------------------------------------

TypeOK ==
  /\ rows \in [Groups -> {NoRow} \union UNION {[KeysOf(g) -> Values] : g \in Groups}]
  /\ \A g \in Groups : rows[g] = NoRow \/ rows[g] \in [KeysOf(g) -> Values]
  /\ pool \in BOOLEAN
  /\ editor \in [Editors -> Editor]
  /\ owed \in [Keys -> Values \union {Mask}]
  /\ patches \in Nat /\ dbFaults \in Nat

\* Whatever patches interleave and whichever of their statements fail, the stored document
\* is one Validate would accept: each group is written whole, as one panel checked it, so
\* two patches that are each sound cannot leave a document that is not
\* (settings_patch.go Validate: "the ones a per-field check cannot see").
StoredHolds == Validate(Settings)

\* A panel that was told its patch is stored, and that no other patch of the same group ran
\* beside, finds it there until somebody changes that key: a patch of another group never
\* takes it back (settings.go Update: "two concurrent PATCHes of different groups cannot
\* clobber each other"), and a patch that echoes the masked URL keeps the password.
ToldIsStored == \A k \in Keys : owed[k] # Mask => Settings[k] = owed[k]

SettingsSound == StoredHolds /\ ToldIsStored

\* The strengthening of the proof. Whoever runs beside another one of its group knows; what
\* a panel sets is owed to nobody meanwhile; what it computed validates, and keeps what is
\* owed; what it wrote undisturbed is still there.
Disturbed ==
  \A e, o \in Editors : e # o /\ Busy(e) /\ Busy(o) =>
    GroupsOf(editor[e].patch) \intersect GroupsOf(editor[o].patch) \subseteq editor[e].shared
Silenced ==
  \A e \in Editors : Busy(e) => \A k \in Keys : Sets(editor[e].patch, k) => owed[k] = Mask
ComputedBy(x) ==
  /\ x.next \in [Keys -> Values] /\ Validate(x.next)
  /\ x.todo \subseteq GroupsOf(x.patch)
  /\ x.at = "check" => x.todo = GroupsOf(x.patch)
  /\ \A k \in Keys :
       /\ Sets(x.patch, k) => x.next[k] = x.patch[k]
       /\ k[1] \in GroupsOf(x.patch) /\ owed[k] # Mask => x.next[k] = owed[k]
Computed == \A e \in Editors : editor[e].at \in {"check", "save"} => ComputedBy(editor[e])
WrittenBy(x) ==
  \A k \in Keys : k[1] \in GroupsOf(x.patch) \ (x.todo \union x.shared) => Settings[k] = x.next[k]
Written == \A e \in Editors : editor[e].at = "save" => WrittenBy(editor[e])
SettingsInv ==
  TypeOK /\ StoredHolds /\ ToldIsStored /\ Disturbed /\ Silenced /\ Computed /\ Written

\* What two panels that retune different keys of one group would expect, and what writing
\* the group whole does not give.
SameGroupKept ==
  [][\A e \in Editors, k \in Keys :
       (/\ Answer(e) /\ Sets(editor[e].patch, k)
        /\ \A o \in Editors \ {e} : k \notin DOMAIN editor[o].patch)
         => Settings[k] = editor[e].patch[k]]_settingsVars

=============================================================================
