--------------------------- MODULE SnapshotProofs ---------------------------
(***************************************************************************)
(* Proofs that CreateSnapshot is idempotent where nothing lands late: by   *)
(* name where the lookup by name can be relied on, by name and source      *)
(* volume where the list can, which is its fallback.                       *)
(***************************************************************************)
EXTENDS ContractProofs

USE DEF store, handling

\* A call that has come past the lookup by name, or past the list, works on a
\* name that is not taken: at all, or by a snapshot of its volume.
NameUnused(h) ==
  /\ req[h].op = "CreateSnapshot" /\ pc[h] \in {"ListSnapshots", "GetVolume", "Write"}
  => SnapshotsNamed(req[h].name) = {}
SourceUnused(h) ==
  /\ req[h].op = "CreateSnapshot" /\ pc[h] \in {"GetVolume", "Write"}
  => SnapshotsNamed(req[h].name) \cap SnapshotsOf(req[h].volume) = {}

NamesUnused == \A h \in Handlers : NameUnused(h)
SourcesUnused == \A h \in Handlers : SourceUnused(h)

\* Lookups of snapshots never fail, nor lack the id of what they found.
NameLookupsWork == "GET_SNAPSHOT" \notin Flaky /\ "id" \notin Omits

\* The list of a volume's snapshots fits on one page, of which CreateSnapshot
\* asks for no other.
PagesFit ==
  \A v \in VolumeIds : IsFiniteSet(SnapshotsOf(v)) /\ Cardinality(SnapshotsOf(v)) <= PageSize

-----------------------------------------------------------------------------
\* How snapshots change: one is added by a CreateSnapshot, or there are no
\* others than before.
Adds(r) ==
  /\ r.op = "CreateSnapshot"
  /\ \E s \in SnapshotIds :
       snaps' = [snaps EXCEPT ![s] = [st |-> "live", name |-> r.name, source |-> r.volume]]
Fewer ==
  \A s \in SnapshotIds : snaps'[s].st = "live" =>
    /\ snaps[s].st = "live"
    /\ snaps'[s].name = snaps[s].name /\ snaps'[s].source = snaps[s].source

LEMMA SnapshotEffects ==
  ASSUME TypeInv, NEW r \in Requests, NEW id, Performed(Message(r), id)
  PROVE  Adds(r) \/ Fewer
<1> DEFINE m == Message(r)
<1>1. snaps \in [SnapshotIds -> SnapshotType]
  BY DEF TypeInv, TypeOK
<1>2. CASE UNCHANGED snaps
  BY <1>2 DEF Fewer
<1>3. CASE m.perform = "CREATE_SNAPSHOT"
  <2>1. r.op = "CreateSnapshot"
    BY <1>3, PerformsAssumption
    DEF Performs, Message, NoMessage, CreateVolume, DeleteVolume, AttachVolume,
        DetachVolume, ExpandVolume, DeleteSnapshot
  <2>2. m.name = r.name /\ m.volume = r.volume
    BY <2>1 DEF Message, CreateSnapshot, NoMessage
  <2>3. QED
    BY <1>3, <2>1, <2>2 DEF Performed, Minted, Snapped, Changed, Adds
<1>4. CASE m.perform = "DELETE_SNAPSHOT" /\ snaps' = [snaps EXCEPT ![m.snapshot].st = "gone"]
  BY <1>1, <1>4 DEF Fewer, SnapshotType
<1>5. QED
  BY <1>2, <1>3, <1>4 DEF Performed, Minted, Snapped, Changed

LEMMA StepsToSnapshots ==
  ASSUME TypeInv, NEW h \in Handlers, Step(h)
  PROVE  Fewer \/ (pc[h] = "Write" /\ Adds(req[h]))
<1>1. CASE Moves(h) \/ RepliesUnwritten(h) \/ TimesOut(h)
  BY <1>1 DEF Moves, Goto, RepliesUnwritten, AnswerRead, TimesOut, Fewer
<1>2. ASSUME pc[h] = "Write", NEW id, Performed(Message(req[h]), id)
      PROVE  Adds(req[h]) \/ Fewer
  BY <1>2, SnapshotEffects DEF TypeInv, CallsChecked
<1>3. CASE RepliesWritten(h) \/ Dies(h)
  BY <1>2, <1>3 DEF RepliesWritten, Dies, Fewer
<1>4. QED
  BY <1>1, <1>3, StepShapes

\* No other steps change them, where nothing lands late.
LEMMA SnapshotsChange ==
  ASSUME BaseInv, [Next]_vars
  PROVE  Fewer \/ \E h \in Handlers : pc[h] = "Write" /\ Adds(req[h])
<1>1. ASSUME NEW h \in Handlers, NEW r \in Requests,
             Reject(h, r) \/ Mock(h, r) \/ Accept(h, r)
      PROVE  Fewer
  BY <1>1 DEF Reject, Mock, Accept, Fewer
<1>2. CASE Crash \/ UNCHANGED vars
  BY <1>2 DEF Crash, vars, Fewer
<1>3. QED
  BY <1>1, <1>2, StepsToSnapshots DEF Next, Arrive, BaseInv, NoneLate

\* With no new snapshots none come to have a name, or a source.
LEMMA FewerNamed ==
  ASSUME Fewer, NEW n, NEW v
  PROVE  /\ SnapshotsNamed(n)' \subseteq SnapshotsNamed(n)
         /\ SnapshotsOf(v)' \subseteq SnapshotsOf(v)
BY DEF Fewer, SnapshotsNamed, SnapshotsOf, LiveSnapshot

\* A new one disturbs its own name only.
LEMMA AddedNamed ==
  ASSUME TypeInv, NEW r, Adds(r), NEW n, n # r.name, NEW v
  PROVE  /\ SnapshotsNamed(n)' \subseteq SnapshotsNamed(n)
         /\ SnapshotsNamed(n)' \cap SnapshotsOf(v)' \subseteq SnapshotsNamed(n) \cap SnapshotsOf(v)
<1>1. snaps \in [SnapshotIds -> SnapshotType]
  BY DEF TypeInv, TypeOK
<1>2. PICK s \in SnapshotIds :
        snaps' = [snaps EXCEPT ![s] = [st |-> "live", name |-> r.name, source |-> r.volume]]
  BY DEF Adds
<1>3. snaps'[s].name = r.name /\ \A t \in SnapshotIds \ {s} : snaps'[t] = snaps[t]
  BY <1>1, <1>2
<1>4. QED
  BY <1>3 DEF SnapshotsNamed, SnapshotsOf, LiveSnapshot

-----------------------------------------------------------------------------
\* Another handler's step leaves a call where it is, or ends it.
LEMMA OthersStay ==
  ASSUME TypeInv, NEW h \in Handlers, Step(h), NEW g \in Handlers, g # h, pc'[g] # "idle"
  PROVE  pc'[g] = pc[g] /\ req'[g] = req[g]
<1>1. CASE Moves(h)
  BY <1>1 DEF Moves, Goto, TypeInv, TypeOK
<1>2. CASE RepliesUnwritten(h) \/ RepliesWritten(h) \/ TimesOut(h)
  BY <1>2 DEF RepliesUnwritten, AnswerRead, RepliesWritten, TimesOut, Answer, TypeInv, TypeOK
<1>3. CASE Dies(h)
  BY <1>3 DEF Dies, Panic, Restart
<1>4. QED
  BY <1>1, <1>2, <1>3, StepShapes

\* It makes no snapshot of the name the call is about, which is locked.
LEMMA OthersUnused ==
  ASSUME BaseInv, NEW h \in Handlers, Step(h), NEW g \in Handlers, g # h, pc'[g] # "idle",
         NEW n, n = req[g].name, NEW v, req[g].op = "CreateSnapshot"
  PROVE  /\ SnapshotsNamed(n)' \subseteq SnapshotsNamed(n)
         /\ SnapshotsNamed(n)' \cap SnapshotsOf(v)' \subseteq SnapshotsNamed(n) \cap SnapshotsOf(v)
<1>1. Active(g)
  BY OthersStay DEF BaseInv, Active
<1>2. CASE Fewer
  BY <1>2, FewerNamed
<1>3. CASE pc[h] = "Write" /\ Adds(req[h])
  <2>1. Keys(req[g]) \cap Keys(req[h]) = {}
    BY <1>1, <1>3 DEF BaseInv, LockInv, Active
  <2>2. n # req[h].name
    BY <1>3, <2>1 DEF Adds, Keys
  <2>3. QED
    BY <1>3, <2>2, AddedNamed DEF BaseInv
<1>4. QED
  BY <1>2, <1>3, StepsToSnapshots DEF BaseInv

\* A handler that goes on does so with the same call.
LEMMA OwnCall ==
  ASSUME TypeInv, NEW h \in Handlers, Step(h), pc'[h] # "idle"
  PROVE  req'[h] = req[h]
<1>1. \A a : ~Answer(h, a)
  BY DEF Answer, TypeInv, TypeOK
<1>2. QED
  BY <1>1, StepShapes DEF Moves, Goto, RepliesUnwritten, AnswerRead, RepliesWritten, TimesOut,
                          Dies, Panic, Restart

\* How a CreateSnapshot gets on.
LEMMA SnapshotMoves ==
  ASSUME TypeInv, NEW h \in Handlers, Step(h), req[h].op = "CreateSnapshot", pc'[h] # "idle"
  PROVE  /\ UNCHANGED store /\ req'[h] = req[h]
         /\ \/ SnapshotGetsByName(h) /\ pc'[h] = "ListSnapshots"
            \/ SnapshotLists(h) /\ pc'[h] = "GetVolume" /\ pc[h] = "ListSnapshots"
            \/ SnapshotGetsVolume(h) /\ pc'[h] = "Write" /\ pc[h] = "GetVolume"
<1>1. pc \in [Handlers -> Calls \cup {"idle"}] /\ pc[h] # "idle"
  BY StepShapes DEF TypeInv, TypeOK
<1>2. \A a : ~Answer(h, a)
  BY <1>1 DEF Answer
<1>3. \A a, U : ~Restart(a, U)
  BY DEF Restart
<1>4. \A c : Goto(h, c) => c = pc'[h] /\ UNCHANGED store /\ req'[h] = req[h]
  BY <1>1 DEF Goto
<1>5. CASE SnapshotGetsByName(h)
  BY <1>2, <1>4, <1>5 DEF SnapshotGetsByName, AnswerRead
<1>6. CASE SnapshotLists(h)
  BY <1>2, <1>3, <1>4, <1>6 DEF SnapshotLists, AnswerRead, Panic, At
<1>7. CASE SnapshotGetsVolume(h)
  BY <1>2, <1>4, <1>7 DEF SnapshotGetsVolume, AnswerRead, At
<1>8. CASE WriteDone(h) \/ WriteRefused(h) \/ WriteFails(h) \/ WriteTimesOut(h)
  BY <1>2, <1>3, <1>8
  DEF WriteDone, WriteRefused, WriteFails, WriteTimesOut, AnswerRead, Panic
<1>9. QED
  BY <1>5, <1>6, <1>7, <1>8
  DEF Step, At, CreateVolumeGetsSnapshot, CreateVolumeGetsByName, PublishGetsVolume,
      ValidateGetsVolume, ExpandGetsVolume, ListGetsSnapshot, ListLists

\* The lookup by name that finds nothing shows that there is nothing.
LEMMA NameLookedUp ==
  ASSUME NameLookupsWork, NEW h \in Handlers, SnapshotGetsByName(h),
         pc'[h] = "ListSnapshots", TypeInv
  PROVE  SnapshotsNamed(req[h].name) = {}
<1>1. pc \in [Handlers -> Calls \cup {"idle"}]
  BY DEF TypeInv, TypeOK
<1>2. PICK res \in GetSnapshotByName(req[h].name) : ~(res.ok /\ ~res.nil)
  BY <1>1 DEF SnapshotGetsByName, AnswerRead, Answer
<1>3. QED
  BY <1>2 DEF NameLookupsWork, GetSnapshotByName, SnapshotLookup, LookedUp, Failures, Ok, Nil, Err

\* A page that holds all of a volume's snapshots is the list of them, if no
\* entry is nil.
LEMMA WholeList ==
  ASSUME "LIST_SNAPSHOTS" \notin Flaky, PagesFit,
         NEW v \in VolumeIds, v # None, NEW res \in ListSnapshots(v)
  PROVE  res.ok /\ (None \notin res.found => res.found = SnapshotsOf(v))
<1> DEFINE all == SnapshotsOf(v)
           page == IF Cardinality(all) <= PageSize THEN Cardinality(all) ELSE PageSize
           pages == {S \in SUBSET all : Cardinality(S) = page}
           nilled == UNION {{(S \ {s}) \cup {None} : s \in S} : S \in pages}
<1>1. IsFiniteSet(all) /\ page = Cardinality(all)
  BY DEF PagesFit
<1>2. PICK S \in pages \cup nilled : res = Ok(S)
  BY DEF ListSnapshots, Failures
<1>3. ASSUME None \notin S PROVE S = all
  <2>1. S \in SUBSET all /\ Cardinality(S) = Cardinality(all)
    BY <1>1, <1>3
  <2>2. QED
    BY <1>1, <2>1, FS_Subset
<1>4. QED
  BY <1>2, <1>3 DEF Ok

\* A list without the name shows that no snapshot of the volume has it.
LEMMA NameNotListed ==
  ASSUME "LIST_SNAPSHOTS" \notin Flaky, PagesFit,
         NEW h \in Handlers, SnapshotLists(h), pc'[h] = "GetVolume", TypeInv
  PROVE  SnapshotsNamed(req[h].name) \cap SnapshotsOf(req[h].volume) = {}
<1> DEFINE r == req[h]
           listed(res) == IF res.ok THEN res.found ELSE {}
           same(res) == {s \in listed(res) \ {None} : snaps[s].name = r.name}
<1>1. pc \in [Handlers -> Calls \cup {"idle"}] /\ req[h] \in Requests /\ ~Malformed(req[h])
  BY DEF SnapshotLists, At, TypeInv, TypeOK, CallsChecked
<1>2. r.volume \in VolumeIds /\ r.volume # None
  BY <1>1, RequestsAssumption, IdsAssumption DEF SnapshotLists, At, Malformed, RequestType
<1>3. PICK res \in ListSnapshots(r.volume) :
        same(res) \cup (listed(res) \cap {None}) = {}
  BY <1>1 DEF SnapshotLists, AnswerRead, Answer, Panic, Restart
<1>4. res.ok /\ res.found = SnapshotsOf(r.volume)
  BY <1>2, <1>3, WholeList
<1>5. QED
  BY <1>3, <1>4, IdsAssumption DEF SnapshotsNamed, SnapshotsOf

-----------------------------------------------------------------------------
\* A call that is accepted is still before its lookups.
LEMMA AcceptedUnused ==
  ASSUME TypeInv, NEW h \in Handlers, NEW r \in Requests, Accept(h, r), NEW g \in Handlers
  PROVE  /\ NameUnused(g) => NameUnused(g)'
         /\ SourceUnused(g) => SourceUnused(g)'
<1>1. UNCHANGED snaps
  BY DEF Accept
<1>2. CASE g # h
  <2>1. pc'[g] = pc[g] /\ req'[g] = req[g]
    BY <1>2 DEF Accept, TypeInv, TypeOK
  <2>2. QED
    BY <1>1, <2>1 DEF NameUnused, SourceUnused, SnapshotsNamed, SnapshotsOf, LiveSnapshot
<1>3. CASE g = h
  <2>1. pc'[g] = FirstCall(r) /\ req'[g] = r
    BY <1>3 DEF Accept, TypeInv, TypeOK
  <2>2. QED
    BY <2>1 DEF FirstCall, NameUnused, SourceUnused
<1>4. QED
  BY <1>2, <1>3

\* What neither moves a call nor touches the store.
LEMMA StillUnused ==
  ASSUME UNCHANGED <<snaps, pc, req>>, NEW g \in Handlers
  PROVE  /\ NameUnused(g) => NameUnused(g)'
         /\ SourceUnused(g) => SourceUnused(g)'
BY DEF NameUnused, SourceUnused, SnapshotsNamed, SnapshotsOf, LiveSnapshot

\* The steps that serve no call: there is nothing to show for their own handler.
LEMMA OtherStepsUnused ==
  ASSUME BaseInv, [Next]_vars, NEW g \in Handlers, ~\E h \in Handlers : Step(h)
  PROVE  /\ NameUnused(g) => NameUnused(g)'
         /\ SourceUnused(g) => SourceUnused(g)'
<1>1. ASSUME NEW h \in Handlers, NEW r \in Requests, Reject(h, r) \/ Mock(h, r)
      PROVE  UNCHANGED <<snaps, pc, req>>
  BY <1>1 DEF Reject, Mock
<1>2. CASE UNCHANGED vars
  BY <1>2, StillUnused DEF vars
<1>3. CASE Crash
  BY <1>3 DEF Crash, Restart, NameUnused, SourceUnused
<1>4. QED
  BY <1>1, <1>2, <1>3, StillUnused, AcceptedUnused DEF Next, Arrive, BaseInv, NoneLate

LEMMA NamesUnusedNext ==
  ASSUME NameLookupsWork, BaseInv, NamesUnused, [Next]_vars
  PROVE  NamesUnused'
<1> SUFFICES ASSUME NEW g \in Handlers PROVE NameUnused(g)'
  BY DEF NamesUnused
<1>1. NameUnused(g)
  BY DEF NamesUnused
<1>2. ASSUME NEW h \in Handlers, Step(h), pc'[g] # "idle", req'[g].op = "CreateSnapshot"
      PROVE  NameUnused(g)'
  <2>1. CASE g # h
    <3>1. pc'[g] = pc[g] /\ req'[g] = req[g]
      BY <1>2, <2>1, OthersStay DEF BaseInv
    <3>2. ASSUME NEW n, n = req[g].name PROVE SnapshotsNamed(n)' \subseteq SnapshotsNamed(n)
      BY <1>2, <2>1, <3>1, <3>2, OthersUnused
    <3>3. QED
      BY <1>1, <3>1, <3>2 DEF NameUnused, SnapshotsNamed
  <2>2. CASE g = h
    <3>1. req[h].op = "CreateSnapshot"
      BY <1>2, <2>2, OwnCall DEF BaseInv
    <3>2. SnapshotsNamed(req[h].name) = {}
      BY <1>1, <1>2, <2>2, <3>1, SnapshotMoves, NameLookedUp DEF BaseInv, NameUnused
    <3>3. UNCHANGED store /\ req'[h] = req[h]
      BY <1>2, <2>2, <3>1, SnapshotMoves DEF BaseInv
    <3>4. QED
      BY <2>2, <3>2, <3>3 DEF NameUnused, SnapshotsNamed, LiveSnapshot
  <2>3. QED
    BY <2>1, <2>2
<1>3. QED
  BY <1>1, <1>2, OtherStepsUnused DEF NameUnused

LEMMA SourcesUnusedNext ==
  ASSUME "LIST_SNAPSHOTS" \notin Flaky, PagesFit,
         BaseInv, SourcesUnused, [Next]_vars
  PROVE  SourcesUnused'
<1> SUFFICES ASSUME NEW g \in Handlers PROVE SourceUnused(g)'
  BY DEF SourcesUnused
<1>1. SourceUnused(g)
  BY DEF SourcesUnused
<1>2. ASSUME NEW h \in Handlers, Step(h), pc'[g] # "idle", req'[g].op = "CreateSnapshot"
      PROVE  SourceUnused(g)'
  <2>1. CASE g # h
    <3>1. pc'[g] = pc[g] /\ req'[g] = req[g]
      BY <1>2, <2>1, OthersStay DEF BaseInv
    <3>2. ASSUME NEW n, n = req[g].name, NEW v
          PROVE  SnapshotsNamed(n)' \cap SnapshotsOf(v)' \subseteq SnapshotsNamed(n) \cap SnapshotsOf(v)
      BY <1>2, <2>1, <3>1, <3>2, OthersUnused
    <3>3. QED
      BY <1>1, <3>1, <3>2 DEF SourceUnused, SnapshotsNamed, SnapshotsOf
  <2>2. CASE g = h
    <3>1. req[h].op = "CreateSnapshot"
      BY <1>2, <2>2, OwnCall DEF BaseInv
    <3>2. pc'[h] \in {"GetVolume", "Write"} =>
            SnapshotsNamed(req[h].name) \cap SnapshotsOf(req[h].volume) = {}
      BY <1>1, <1>2, <2>2, <3>1, SnapshotMoves, NameNotListed DEF BaseInv, SourceUnused
    <3>3. UNCHANGED store /\ req'[h] = req[h]
      BY <1>2, <2>2, <3>1, SnapshotMoves DEF BaseInv
    <3>4. QED
      BY <2>2, <3>2, <3>3 DEF SourceUnused, SnapshotsNamed, SnapshotsOf, LiveSnapshot
  <2>3. QED
    BY <2>1, <2>2
<1>3. QED
  BY <1>1, <1>2, OtherStepsUnused DEF SourceUnused

-----------------------------------------------------------------------------
\* CreateSnapshot never takes a name twice, when the lookup by name can be
\* relied on: any number of calls for it may be served, also for different
\* volumes, their answers be lost and the process crash.
THEOREM SnapshotNamesUnique ==
  ASSUME NameLookupsWork, MaxLate = 0
  PROVE  Spec => []NoDuplicateSnapshot
<1> DEFINE Inv == BaseInv /\ NamesUnused /\ NoDuplicateSnapshot
<1>1. Init => Inv
  BY BaseInvInit
  DEF Init, StoreInit, NoSnapshot, NamesUnused, NameUnused, NoDuplicateSnapshot, LiveSnapshot
<1>2. Inv /\ [Next]_vars => Inv'
  <2> SUFFICES ASSUME Inv, [Next]_vars PROVE NoDuplicateSnapshot'
    BY BaseInvNext, NamesUnusedNext
  <2>1. CASE Fewer
    BY <2>1 DEF Fewer, NoDuplicateSnapshot, LiveSnapshot
  <2>2. ASSUME NEW h \in Handlers, pc[h] = "Write", Adds(req[h])
        PROVE  NoDuplicateSnapshot'
    <3>1. SnapshotsNamed(req[h].name) = {}
      BY <2>2 DEF NamesUnused, NameUnused, Adds
    <3>2. snaps \in [SnapshotIds -> SnapshotType]
      BY DEF BaseInv, TypeInv, TypeOK
    <3>3. PICK s \in SnapshotIds :
            /\ snaps'[s].name = req[h].name
            /\ \A t \in SnapshotIds \ {s} : snaps'[t] = snaps[t]
      BY <2>2, <3>2 DEF Adds
    <3>4. QED
      BY <3>1, <3>3 DEF NoDuplicateSnapshot, SnapshotsNamed, LiveSnapshot
  <2>3. QED
    BY <2>1, <2>2, SnapshotsChange
<1>3. QED
  BY <1>1, <1>2, PTL DEF Spec

\* CreateSnapshot never takes a name twice for one volume, when the list of a
\* volume's snapshots can be relied on and stays within a page, though the
\* lookup by name may fail, or find nothing to be an empty answer; a nil entry
\* of the list ends the process before a snapshot is made.
THEOREM SnapshotsOfVolumeUnique ==
  ASSUME "LIST_SNAPSHOTS" \notin Flaky, MaxLate = 0
  PROVE  Spec /\ []PagesFit => []NoDuplicateSnapshotOfVolume
<1> DEFINE Inv == BaseInv /\ SourcesUnused /\ NoDuplicateSnapshotOfVolume
<1>1. Init => Inv
  BY BaseInvInit
  DEF Init, StoreInit, NoSnapshot, SourcesUnused, SourceUnused, NoDuplicateSnapshotOfVolume,
      LiveSnapshot
<1>2. Inv /\ PagesFit /\ [Next]_vars => Inv'
  <2> SUFFICES ASSUME Inv, PagesFit, [Next]_vars PROVE NoDuplicateSnapshotOfVolume'
    BY BaseInvNext, SourcesUnusedNext
  <2>1. CASE Fewer
    BY <2>1 DEF Fewer, NoDuplicateSnapshotOfVolume, LiveSnapshot
  <2>2. ASSUME NEW h \in Handlers, pc[h] = "Write", Adds(req[h])
        PROVE  NoDuplicateSnapshotOfVolume'
    <3>1. SnapshotsNamed(req[h].name) \cap SnapshotsOf(req[h].volume) = {}
      BY <2>2 DEF SourcesUnused, SourceUnused, Adds
    <3>2. snaps \in [SnapshotIds -> SnapshotType]
      BY DEF BaseInv, TypeInv, TypeOK
    <3>3. PICK s \in SnapshotIds :
            /\ snaps'[s].name = req[h].name /\ snaps'[s].source = req[h].volume
            /\ \A t \in SnapshotIds \ {s} : snaps'[t] = snaps[t]
      BY <2>2, <3>2 DEF Adds
    <3>4. QED
      BY <3>1, <3>3 DEF NoDuplicateSnapshotOfVolume, SnapshotsNamed, SnapshotsOf, LiveSnapshot
  <2>3. QED
    BY <2>1, <2>2, SnapshotsChange
<1>3. QED
  BY <1>1, <1>2, PTL DEF Spec
=============================================================================
