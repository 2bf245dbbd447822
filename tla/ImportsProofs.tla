--------------------------- MODULE ImportsProofs ---------------------------
(* What holds of Imports for every number of importers, sources, names and *)
(* paths, every directory tree, and every number of edits and crashes.     *)
EXTENDS Imports, SequenceTheorems, TLAPS

\* A busy importer's plan names a source and a destination.
LEMMA PlanType ==
  ASSUME TypeOK, NEW p \in Importers, Busy(p)
  PROVE  Plan(p) \in [source : Sources, name : Names]
<1>1. plans[p] \in Plans
  BY DEF TypeOK
<1>2. plans[p] \in Seq([source : Sources, name : Names])
  BY <1>1, PlanAssumption
<1>3. at[p] \in DOMAIN plans[p]
  BY DEF TypeOK
<1>4. QED
  BY <1>2, <1>3, LenProperties, ElementOfSeq DEF Plan

\* What _copy_dir finds in a directory are items.
LEMMA ChildrenType ==
  ASSUME NEW tree \in [Paths -> Entry], NEW x \in Paths
  PROVE  Children(tree, x) \in SUBSET Item
  BY DEF Children, Item, Entry

\* The innermost call is a frame.
LEMMA HereType ==
  ASSUME TypeOK, NEW p \in Importers, pc[p] \in {"mark", "walk", "fill", "rename"}
  PROVE  Here(p) \in Frame /\ Len(frames[p]) \in 1..Len(frames[p]) /\ Len(frames[p]) \in Nat
<1>1. frames[p] \in Seq(Frame) /\ frames[p] # <<>>
  BY DEF TypeOK
<1>2. QED
  BY <1>1 DEF Here

\* Only the whole destination lies above itself.
LEMMA BelowTop ==
  /\ Below(Top) = Paths
  /\ \A x \in Paths : Top \in Below(x) => x = Top
<1>1. \A x \in Paths : x \in Seq(STRING)
  BY PathAssumption
<1>2. \A x \in Paths : IsPrefix(Top, x)
  BY <1>1 DEF IsPrefix, Top
<1>3. \A x \in Paths : IsPrefix(x, Top) => x = Top
  BY <1>1 DEF IsPrefix, Top
<1>4. QED
  BY <1>2, <1>3 DEF Below

\* Before the first run nothing is imported.
LEMMA InitType == Init => TypeOK
  BY PathAssumption, BoundAssumption, EmptySeq
  DEF Init, TypeOK, Entry, Missing, NoFile, Times, Kinds, Busy, Idle, Item, Frame

\* An edit leaves a tree of entries.
LEMMA ChangedType ==
  ASSUME NEW tree \in [Paths -> Entry], NEW x \in Paths, NEW kind \in Kinds,
         clock' \in Times
  PROVE  Changed(tree, x, kind) \in [Paths -> Entry]
  BY DEF Changed, Entry, Missing, Kinds, Times

\* The open directories of an importer stay frames when flags of some are cleared.
LEMMA SeqOfFrames ==
  ASSUME NEW s \in Seq(Frame), NEW t, DOMAIN t = DOMAIN s, t = [i \in DOMAIN s |-> t[i]],
         \A i \in DOMAIN s : t[i] \in Frame
  PROVE  t \in Seq(Frame) /\ Len(t) = Len(s) /\ (t # <<>> <=> s # <<>>)
  OBVIOUS

\* Entering a directory: the innermost call forgets the item and a new one begins.
LEMMA EnterType ==
  ASSUME NEW s \in Seq(Frame), s # <<>>, NEW item, NEW frame \in Frame
  PROVE  /\ Append([s EXCEPT ![Len(s)].todo = @ \ {item}], frame) \in Seq(Frame)
         /\ Append([s EXCEPT ![Len(s)].todo = @ \ {item}], frame) # <<>>
<1>1. Len(s) \in 1..Len(s)
  OBVIOUS
<1>2. s[Len(s)] \in Frame
  BY <1>1
<1>3. [s[Len(s)] EXCEPT !.todo = @ \ {item}] \in Frame
  BY <1>2 DEF Frame
<1>4. [s EXCEPT ![Len(s)].todo = @ \ {item}] \in Seq(Frame)
  BY <1>1, <1>3
<1>5. QED
  BY <1>4, AppendProperties

\* The innermost call forgets an item.
LEMMA DoneType ==
  ASSUME NEW s \in Seq(Frame), s # <<>>, NEW item
  PROVE  /\ [s EXCEPT ![Len(s)].todo = @ \ {item}] \in Seq(Frame)
         /\ [s EXCEPT ![Len(s)].todo = @ \ {item}] # <<>>
<1>1. Len(s) \in 1..Len(s)
  OBVIOUS
<1>2. s[Len(s)] \in Frame
  BY <1>1
<1>3. [s[Len(s)] EXCEPT !.todo = @ \ {item}] \in Frame
  BY <1>2 DEF Frame
<1>4. QED
  BY <1>1, <1>3

\* Edits keep the types.
LEMMA EditsType ==
  ASSUME TypeOK,
         \/ \E s \in Sources, x \in Paths, kind \in Kinds : HostEdits(s, x, kind)
         \/ \E n \in Names, x \in Paths, kind \in Kinds : UserEdits(n, x, kind)
  PROVE  TypeOK'
<1>1. clock' \in Times
  <2>1. clock < MaxEdits /\ clock' = clock + 1
    BY DEF HostEdits, UserEdits
  <2>2. clock \in 0..MaxEdits
    BY DEF TypeOK, Times
  <2>3. QED
    BY <2>1, <2>2, BoundAssumption DEF Times
<1>2. ASSUME NEW s \in Sources, NEW x \in Paths, NEW kind \in Kinds, HostEdits(s, x, kind)
      PROVE  TypeOK'
  <2>1. Changed(host[s], x, kind) \in [Paths -> Entry]
    BY <1>1, ChangedType DEF TypeOK
  <2>2. host' \in [Sources -> [Paths -> Entry]]
    BY <1>2, <2>1 DEF HostEdits, TypeOK
  <2>3. ASSUME NEW p \in Importers
        PROVE  frames'[p] \in Seq(Frame) /\ (frames'[p] # <<>> <=> frames[p] # <<>>)
    <3>1. frames[p] \in Seq(Frame)
      BY DEF TypeOK
    <3>2. \A i \in DOMAIN frames[p] : frames[p][i] \in Frame
      BY <3>1
    <3>3. DOMAIN frames'[p] = DOMAIN frames[p] /\ frames'[p] = [i \in DOMAIN frames[p] |-> frames'[p][i]]
      BY <1>2 DEF HostEdits
    <3>4. \A i \in DOMAIN frames[p] : frames'[p][i] \in Frame
      BY <1>2, <3>2 DEF HostEdits, Frame
    <3>5. QED
      BY <3>1, <3>3, <3>4, SeqOfFrames
  <2>4. frames' \in [Importers -> Seq(Frame)]
    BY <1>2, <2>3 DEF HostEdits
  <2>5. QED
    BY <1>1, <1>2, <2>2, <2>3, <2>4 DEF HostEdits, TypeOK, run, Busy
<1>3. ASSUME NEW n \in Names, NEW x \in Paths, NEW kind \in Kinds, UserEdits(n, x, kind)
      PROVE  TypeOK'
  <2>2. Changed(copy[n], x, kind) \in [Paths -> Entry]
    BY <1>1, ChangedType DEF TypeOK
  <2>3. copy' \in [Names -> [Paths -> Entry]]
    BY <1>3, <2>2 DEF UserEdits, TypeOK
  <2>4. tmp' \in [Names -> [Paths -> Entry]]
    BY <1>3, BoundAssumption DEF UserEdits, TypeOK, Missing, Entry, Kinds, Times
  <2>5. ASSUME NEW p \in Importers
        PROVE  frames'[p] \in Seq(Frame) /\ (frames'[p] # <<>> <=> frames[p] # <<>>)
    <3>1. frames[p] \in Seq(Frame)
      BY DEF TypeOK
    <3>2. \A i \in DOMAIN frames[p] : frames[p][i] \in Frame
      BY <3>1
    <3>3. DOMAIN frames'[p] = DOMAIN frames[p] /\ frames'[p] = [i \in DOMAIN frames[p] |-> frames'[p][i]]
      BY <1>3 DEF UserEdits
    <3>4. \A i \in DOMAIN frames[p] : frames'[p][i] \in Frame
      <4>1. \A i \in DOMAIN frames[p] :
               frames'[p][i] \in {frames[p][i], [frames[p][i] EXCEPT !.dst = FALSE]}
        BY <1>3 DEF UserEdits
      <4>2. \A frame \in Frame : [frame EXCEPT !.dst = FALSE] \in Frame
        BY DEF Frame
      <4>3. QED
        BY <3>2, <4>1, <4>2
    <3>5. QED
      BY <3>1, <3>3, <3>4, SeqOfFrames
  <2>6. frames' \in [Importers -> Seq(Frame)]
    BY <1>3, <2>5 DEF UserEdits
  <2>7. marker' \in [Names -> Sources \cup {NoSource}]
    BY <1>3 DEF UserEdits, TypeOK
  <2>8. QED
    BY <1>1, <1>3, <2>3, <2>4, <2>5, <2>6, <2>7 DEF UserEdits, TypeOK, run, Busy
<1>4. QED
  BY <1>2, <1>3

\* What mkdir makes and what is not there are entries.
LEMMA NewDirType == NewDir \in Entry /\ 0 \in Times /\ \A t \in Times : Missing(t) \in Entry
<1>1. \A t \in Times : Missing(t) \in Entry
  BY DEF Missing, Entry, Kinds
<1>2. 0 \in Times
  BY BoundAssumption DEF Times
<1>3. QED
  BY <1>1, <1>2 DEF NewDir, Entry, Kinds

\* The record of an importer that copies no file.
LEMMA NoFileType == NoFile \in [path : Paths, data : SUBSET (Times \cup Importers), time : Times]
  BY NewDirType, PathAssumption DEF NoFile

\* A new call of _copy_dir.
LEMMA OpensType ==
  ASSUME TypeOK, NEW p \in Importers, NEW x \in Paths, NEW todo \in SUBSET Item, Opens(p, x, todo)
  PROVE  frames'[p] \in Seq(Frame) /\ frames'[p] # <<>> /\ frames' \in [Importers -> Seq(Frame)]
<1>1. [path |-> x, todo |-> todo, src |-> TRUE, dst |-> TRUE] \in Frame
  BY DEF Frame
<1>2. frames[p] \in Seq(Frame)
  BY DEF TypeOK
<1> DEFINE longer == Append(frames[p], [path |-> x, todo |-> todo, src |-> TRUE, dst |-> TRUE])
<1>3. longer \in Seq(Frame) /\ longer # <<>>
  BY <1>1, <1>2, AppendProperties
<1>4. frames' = [frames EXCEPT ![p] = longer]
  BY DEF Opens
<1> HIDE DEF longer
<1>5. QED
  BY <1>3, <1>4 DEF TypeOK

\* Steps of an importer keep the types.
LEMMA StepType ==
  ASSUME TypeOK, NEW p \in Importers, Step(p)
  PROVE  TypeOK'
<1>1. CASE Start(p)
  <2>1. PICK plan \in Plans : plans' = [plans EXCEPT ![p] = plan]
    BY <1>1 DEF Start
  <2>2. plan \in Seq([source : Sources, name : Names]) /\ plan # <<>>
    BY PlanAssumption
  <2>3. 1 \in DOMAIN plan
    BY <2>2
  <2>4. frames[p] = <<>>
    BY <1>1 DEF Start, TypeOK, Busy, Idle
  <2>5. /\ at' = [at EXCEPT ![p] = 1] /\ began' = [began EXCEPT ![p] = clock]
        /\ skipped' = [skipped EXCEPT ![p] = {}] /\ pc' = [pc EXCEPT ![p] = "claim"]
        /\ runs' = [runs EXCEPT ![p] = @ + 1] /\ runs[p] < MaxRuns
        /\ UNCHANGED <<disk, frames, file, crashes>>
    BY <1>1 DEF Start, Goes
  <2>6. runs' \in [Importers -> 0..MaxRuns]
    BY <2>5, BoundAssumption DEF TypeOK
  <2>7. QED
    BY <2>1, <2>3, <2>4, <2>5, <2>6 DEF TypeOK, disk, Busy, Idle
<1>2. CASE Claim(p)
  <2>1. Plan(p) \in [source : Sources, name : Names]
    BY <1>2, PlanType DEF Claim, Busy, Idle
  <2>2. copy' \in [Names -> [Paths -> Entry]]
    BY <1>2, <2>1, NewDirType, PathAssumption DEF Claim, TypeOK
  <2>3. QED
    BY <1>2, <2>2 DEF Claim, Goes, TypeOK, run, Busy, Idle
<1>3. CASE Mark(p)
  <2>1. Plan(p) \in [source : Sources, name : Names]
    BY <1>3, PlanType DEF Mark, Busy, Idle
  <2>2. Children(host[Plan(p).source], Top) \in SUBSET Item
    BY <2>1, ChildrenType, PathAssumption DEF TypeOK
  <2>3. frames[p] \in Seq(Frame) /\ frames[p] # <<>>
    BY <1>3 DEF Mark, TypeOK
  <2>4. 1 \in 1..Len(frames[p]) /\ frames[p][1] \in Frame
    BY <2>3
  <2>5. [frames[p][1] EXCEPT !.todo = Children(host[Plan(p).source], Top)] \in Frame
    BY <2>2, <2>4 DEF Frame
  <2>6. frames'[p] \in Seq(Frame) /\ frames'[p] # <<>> /\ frames' \in [Importers -> Seq(Frame)]
    BY <1>3, <2>3, <2>4, <2>5 DEF Mark, TypeOK
  <2>7. QED
    BY <1>3, <2>1, <2>6 DEF Mark, Goes, TypeOK, run, Busy, Idle
<1>4. CASE Claimed(p)
  <2>1. Plan(p) \in [source : Sources, name : Names]
    BY <1>4, PlanType DEF Claimed, Busy, Idle
  <2>2. Children(host[Plan(p).source], Top) \in SUBSET Item
    BY <2>1, ChildrenType, PathAssumption DEF TypeOK
  <2>3. frames'[p] \in Seq(Frame) /\ frames'[p] # <<>> /\ frames' \in [Importers -> Seq(Frame)]
    BY <1>4, <2>2, OpensType, PathAssumption DEF Claimed
  <2>4. QED
    BY <1>4, <2>3 DEF Claimed, Opens, Goes, TypeOK, disk, run, Busy, Idle
<1>5. CASE Refuse(p)
  BY <1>5, PathAssumption, BoundAssumption DEF Refuse, Ends, Goes, TypeOK, disk, run, Busy, Idle, NoFile, Times
<1>6. ASSUME NEW item \in Item, Walking(p, item)
      PROVE  /\ Skip(p, item) => TypeOK'
             /\ Unchanged(p, item) => TypeOK'
             /\ Look(p, item) => TypeOK'
             /\ Enter(p, item) => TypeOK'
  <2>1. pc[p] = "walk" /\ frames[p] \in Seq(Frame) /\ frames[p] # <<>> /\ item.path \in Paths
    BY <1>6 DEF Walking, TypeOK, Item
  <2>2. Plan(p) \in [source : Sources, name : Names]
    BY <2>1, PlanType DEF Busy, Idle
  <2>3. Done(p, item) => frames' \in [Importers -> Seq(Frame)] /\ frames'[p] # <<>>
                         /\ \A q \in Importers \ {p} : frames'[q] = frames[q]
    <3>1. SUFFICES ASSUME Done(p, item)
                   PROVE  frames' \in [Importers -> Seq(Frame)] /\ frames'[p] # <<>>
                          /\ \A q \in Importers \ {p} : frames'[q] = frames[q]
      OBVIOUS
    <3>2. frames' = [frames EXCEPT ![p] = [frames[p] EXCEPT ![Len(frames[p])].todo = @ \ {item}]]
      BY <3>1 DEF Done, TypeOK
    <3>3. QED
      BY <2>1, <3>2, DoneType DEF TypeOK
  <2>4. ASSUME Skip(p, item) PROVE TypeOK'
    BY <2>1, <2>2, <2>3, <2>4 DEF Skip, TypeOK, disk, run, Busy, Idle
  <2>5. ASSUME Unchanged(p, item) PROVE TypeOK'
    BY <2>1, <2>3, <2>5 DEF Unchanged, TypeOK, disk, run, Busy, Idle
  <2>6. ASSUME Look(p, item) PROVE TypeOK'
    <3>1. Source(p, item.path) \in Entry
      BY <2>1, <2>2, NewDirType, BoundAssumption DEF Source, TypeOK, Times
    <3>2. [Missing(0) EXCEPT !.kind = "file", !.data = {p}] \in Entry
      BY NewDirType DEF Missing, Entry, Kinds
    <3>3. tmp' \in [Names -> [Paths -> Entry]] /\ copy' = copy
      BY <2>1, <2>2, <2>6, <3>2 DEF Look, OpenTmp, TypeOK
    <3>4. file' \in [Importers -> [path : Paths, data : SUBSET (Times \cup Importers), time : Times]]
      BY <2>1, <2>6, <3>1 DEF Look, TypeOK, Entry
    <3>5. QED
      BY <2>1, <2>2, <2>3, <2>6, <3>3, <3>4 DEF Look, Goes, TypeOK, run, Busy, Idle
  <2>7. ASSUME Enter(p, item) PROVE TypeOK'
    <3>1. copy' \in [Names -> [Paths -> Entry]]
      BY <2>1, <2>2, <2>7, NewDirType DEF Enter, TypeOK
    <3>2. Children(host[Plan(p).source], item.path) \in SUBSET Item
      BY <2>1, <2>2, ChildrenType DEF TypeOK
    <3>3. [path |-> item.path, todo |-> Children(host[Plan(p).source], item.path),
           src |-> TRUE, dst |-> TRUE] \in Frame
      BY <2>1, <3>2 DEF Frame
    <3>4. frames'[p] \in Seq(Frame) /\ frames'[p] # <<>> /\ frames' \in [Importers -> Seq(Frame)]
      <4> DEFINE rest  == [frames[p] EXCEPT ![Len(frames[p])].todo = @ \ {item}]
                 frame == [path |-> item.path, todo |-> Children(host[Plan(p).source], item.path),
                           src |-> TRUE, dst |-> TRUE]
      <4>1. frames' = [frames EXCEPT ![p] = Append(rest, frame)]
        BY <2>7 DEF Enter, TypeOK
      <4>2. Append(rest, frame) \in Seq(Frame) /\ Append(rest, frame) # <<>>
        BY <2>1, <3>3, EnterType
      <4> HIDE DEF rest, frame
      <4>3. QED
        BY <4>1, <4>2 DEF TypeOK
    <3>5. QED
      BY <2>1, <2>7, <3>1, <3>4 DEF Enter, TypeOK, run, Busy, Idle
  <2>8. QED
    BY <2>4, <2>5, <2>6, <2>7
<1>7. CASE Fill(p)
  <2>1. Plan(p) \in [source : Sources, name : Names] /\ pc[p] = "fill"
    BY <1>7, PlanType DEF Fill, Busy, Idle
  <2>2. host[Plan(p).source][file[p].path] \in Entry /\ file[p].data \in SUBSET (Times \cup Importers)
    BY <2>1 DEF TypeOK
  <2>3. {file[p].data} \cup (IF host[Plan(p).source][file[p].path].kind = "file"
                             THEN {host[Plan(p).source][file[p].path].data,
                                   file[p].data \cup host[Plan(p).source][file[p].path].data} ELSE {})
          \subseteq SUBSET (Times \cup Importers)
    BY <2>2 DEF Entry
  <2>7. PICK data \in SUBSET (Times \cup Importers) :
          /\ copy' = [n \in Names |-> [x \in Paths |-> Written(p, copy[n][x], data)]]
          /\ tmp' = [n \in Names |-> [x \in Paths |-> Written(p, tmp[n][x], data)]]
    BY <1>7, <2>3 DEF Fill
  <2>4. \A entry \in Entry : Written(p, entry, data) \in Entry
    BY DEF Written, Stamp, TypeOK, Entry
  <2>5. copy' \in [Names -> [Paths -> Entry]] /\ tmp' \in [Names -> [Paths -> Entry]]
    BY <2>7, <2>4 DEF TypeOK
  <2>6. QED
    BY <1>7, <2>1, <2>5 DEF Fill, Goes, TypeOK, run, Busy, Idle
<1>8. CASE Rename(p)
  <2>1. Plan(p) \in [source : Sources, name : Names] /\ pc[p] = "rename" /\ file[p].path \in Paths
    BY <1>8, PlanType DEF Rename, Busy, Idle, TypeOK
  <2>2. copy' \in [Names -> [Paths -> Entry]] /\ tmp' \in [Names -> [Paths -> Entry]]
    BY <1>8, <2>1, NewDirType, BoundAssumption DEF Rename, TypeOK, Times
  <2>3. QED
    BY <1>8, <2>1, <2>2, NoFileType DEF Rename, Goes, TypeOK, run, Busy, Idle
<1>9. CASE Leave(p)
  <2>1. pc[p] = "walk" /\ frames[p] \in Seq(Frame) /\ frames[p] # <<>>
    BY <1>9 DEF Leave, TypeOK
  <2>2. frames' \in [Importers -> Seq(Frame)] /\ (frames'[p] # <<>> <=> Len(frames[p]) > 1)
    <3>1. frames' = [frames EXCEPT ![p] = SubSeq(frames[p], 1, Len(frames[p]) - 1)]
      BY <1>9 DEF Leave, Front, TypeOK
    <3>2. Len(frames[p]) \in Nat \ {0}
      BY <2>1, EmptySeq
    <3>3. /\ SubSeq(frames[p], 1, Len(frames[p]) - 1) \in Seq(Frame)
          /\ Len(SubSeq(frames[p], 1, Len(frames[p]) - 1)) = Len(frames[p]) - 1
      BY <2>1, <3>2
    <3>4. SubSeq(frames[p], 1, Len(frames[p]) - 1) # <<>> <=> Len(frames[p]) > 1
      <4> DEFINE s == SubSeq(frames[p], 1, Len(frames[p]) - 1)
      <4>1. s # <<>> => Len(s) \in Nat \ {0}
        BY <3>3, EmptySeq
      <4>2. s = <<>> => Len(s) = 0
        BY EmptySeq
      <4>3. QED
        BY <3>2, <3>3, <4>1, <4>2
    <3>5. QED
      BY <3>1, <3>3, <3>4 DEF TypeOK
  <2>3. CASE Len(frames[p]) > 1
    BY <1>9, <2>1, <2>2, <2>3 DEF Leave, TypeOK, disk, Busy, Idle
  <2>4. CASE ~(Len(frames[p]) > 1) /\ More(p)
    <3>1. plans[p] \in Seq([source : Sources, name : Names])
      BY PlanAssumption, EmptySeq DEF TypeOK
    <3>2. at[p] \in Nat /\ at[p] < Len(plans[p]) /\ at' = [at EXCEPT ![p] = @ + 1]
      BY <1>9, <2>4 DEF Leave, More, TypeOK
    <3>3. at[p] + 1 \in DOMAIN plans[p]
      BY <3>1, <3>2
    <3>4. QED
      <4>1. /\ pc' = [pc EXCEPT ![p] = "claim"] /\ frames'[p] = <<>>
            /\ UNCHANGED <<disk, plans, began, runs, file, skipped, crashes>>
            /\ \A q \in Importers \ {p} : frames'[q] = frames[q]
        BY <1>9, <2>1, <2>2, <2>4 DEF Leave, Goes, TypeOK
      <4>2. at' \in [Importers -> Nat]
        BY <3>2 DEF TypeOK
      <4>3. QED
        BY <2>1, <2>2, <3>2, <3>3, <4>1, <4>2 DEF TypeOK, disk, Busy, Idle
  <2>5. CASE ~(Len(frames[p]) > 1) /\ ~More(p)
    BY <1>9, <2>1, <2>2, <2>5 DEF Leave, Goes, TypeOK, disk, Busy, Idle
  <2>6. QED
    BY <2>3, <2>4, <2>5
<1>10. CASE Fails(p) \/ Crash(p)
  <2>1. Plan(p) \in [source : Sources, name : Names] /\ file[p].path \in Paths
    BY <1>10, PlanType DEF Fails, Crash, TypeOK
  <2>2. \A tree \in [Names -> [Paths -> Entry]] : Abandoned(p, tree) \in [Names -> [Paths -> Entry]]
    <3>1. \A entry \in Entry : [entry EXCEPT !.data = @ \ {p}] \in Entry
      BY DEF Entry
    <3>2. QED
      BY <3>1 DEF Abandoned
  <2>3. copy' \in [Names -> [Paths -> Entry]] /\ tmp' \in [Names -> [Paths -> Entry]]
    <3>1. copy' = Abandoned(p, copy) /\ copy' \in [Names -> [Paths -> Entry]]
          /\ Abandoned(p, tmp) \in [Names -> [Paths -> Entry]]
      BY <1>10, <2>2 DEF Fails, Crash, TypeOK
    <3>2. \A tree \in [Names -> [Paths -> Entry]] :
             [tree EXCEPT ![Plan(p).name][file[p].path] = Missing(0)] \in [Names -> [Paths -> Entry]]
      BY <2>1, NewDirType
    <3>3. \/ tmp' = Abandoned(p, tmp)
          \/ tmp' = [Abandoned(p, tmp) EXCEPT ![Plan(p).name][file[p].path] = Missing(0)]
      BY <1>10 DEF Fails, Crash
    <3>4. QED
      BY <3>1, <3>2, <3>3
  <2>4. frames' = [frames EXCEPT ![p] = <<>>] /\ file' = [file EXCEPT ![p] = NoFile]
        /\ crashes' \in 0..MaxCrashes
    BY <1>10, BoundAssumption DEF Fails, Crash, Ends, TypeOK
  <2>5. \E how \in {"failed", "idle"} : pc' = [pc EXCEPT ![p] = how]
    BY <1>10 DEF Fails, Crash, Ends, Goes
  <2>6. QED
    <3>1. UNCHANGED <<host, marker, clock, run, skipped>>
      BY <1>10 DEF Fails, Crash
    <3>2. frames' \in [Importers -> Seq(Frame)] /\ frames'[p] = <<>>
          /\ \A q \in Importers \ {p} : frames'[q] = frames[q]
      BY <2>4, EmptySeq DEF TypeOK
    <3>3. file' \in [Importers -> [path : Paths, data : SUBSET (Times \cup Importers), time : Times]]
      BY <2>4, NoFileType DEF TypeOK
    <3>4. QED
      BY <2>3, <2>4, <2>5, <3>1, <3>2, <3>3 DEF TypeOK, run, Busy, Idle
<1>11. CASE OpenDest(p)
  <2>1. frames'[p] \in Seq(Frame) /\ frames'[p] # <<>> /\ frames' \in [Importers -> Seq(Frame)]
    BY <1>11, OpensType, PathAssumption DEF OpenDest
  <2>2. QED
    BY <1>11, <2>1 DEF OpenDest, Opens, Goes, TypeOK, disk, run, Busy, Idle
<1>12. QED
  BY <1>1, <1>2, <1>3, <1>4, <1>5, <1>6, <1>7, <1>8, <1>9, <1>10, <1>11
  DEF Step, Skip, Unchanged, Look, Enter

\* Types and ranges of every variable, for all instances.
THEOREM TypesHold == Spec => []TypeOK
<1>1. ASSUME TypeOK, [Next]_vars
      PROVE  TypeOK'
  <2>1. CASE UNCHANGED vars
    BY <1>1, <2>1 DEF vars, TypeOK, Busy
  <2>2. QED
    BY <1>1, <2>1, EditsType, StepType DEF Next
<1>2. QED
  BY <1>1, InitType, PTL DEF Spec

----------------------------------------------------------------------------
(* Who may write to which destination                                      *)

\* p has a directory open that is still below imported/.
Open(p) == \E i \in DOMAIN frames[p] : frames[p][i].dst

\* p has made its destination and not marked it yet.
Making(p) == pc[p] = "open" \/ (pc[p] = "mark" /\ Open(p))

\* A marker belongs to a directory; an importer that still has the destination open is
\* its maker, the only one and not yet marked, or the marker names its source.
ClaimInv ==
    ~UserQuick =>
    /\ \A n \in Names : copy[n][Top].kind # "dir" => marker[n] = NoSource
    /\ \A p \in Importers : Making(p) => marker[Plan(p).name] = NoSource /\ copy[Plan(p).name][Top].kind = "dir"
    /\ \A p \in Importers : Open(p) /\ pc[p] \in {"walk", "fill", "rename"} => marker[Plan(p).name] = Plan(p).source
    /\ \A p, q \in Importers : p # q /\ Making(p) /\ Making(q) => Plan(p).name # Plan(q).name

\* An unfinished file is written by an importer that is just filling it, in the
\* destination of its plan; what it reads is whole.
Writes(p, entry) == p \in entry.data
WriterInv ==
    /\ \A n \in Names, x \in Paths, p \in Importers :
          Writes(p, copy[n][x]) \/ Writes(p, tmp[n][x]) =>
             pc[p] = "fill" /\ Plan(p).name = n /\ (UserQuick \/ Plan(p).source = marker[n])
    /\ \A n \in Names, x \in Paths, p \in Importers :
          /\ Writes(p, copy[n][x]) => copy[n][x].kind = "file"
          /\ Writes(p, tmp[n][x]) => tmp[n][x].kind = "file" /\ x # Top
    /\ \A s \in Sources, x \in Paths : host[s][x].data \subseteq Times
    /\ \A p \in Importers : file[p].data \subseteq Times

\* What is open after a step was open before, or is the destination just claimed.
LEMMA OpenStep ==
  ASSUME TypeOK, NEW p \in Importers
  PROVE  /\ \A item : Done(p, item) => (Open(p)' => Open(p))
         /\ Leave(p) => (Open(p)' => Open(p))
         /\ Mark(p) => (Open(p)' => Open(p))
         /\ \A item : Enter(p, item) => (Open(p)' => Open(p))
<1>1. frames[p] \in Seq(Frame)
  BY DEF TypeOK
<1>2. ASSUME NEW item, Done(p, item) PROVE Open(p)' => Open(p)
  <2>1. DOMAIN frames'[p] = DOMAIN frames[p] /\ \A i \in DOMAIN frames[p] : frames'[p][i].dst = frames[p][i].dst
    BY <1>1, <1>2 DEF Done, TypeOK, Frame
  <2>2. QED
    BY <2>1 DEF Open
<1>3. ASSUME Leave(p) PROVE Open(p)' => Open(p)
  <2>1. frames'[p] = SubSeq(frames[p], 1, Len(frames[p]) - 1)
    BY <1>3 DEF Leave, Front, TypeOK
  <2>2. \A i \in DOMAIN frames'[p] : i \in DOMAIN frames[p] /\ frames'[p][i] = frames[p][i]
    BY <1>1, <2>1
  <2>3. QED
    BY <2>2 DEF Open
<1>4. ASSUME Mark(p) PROVE Open(p)' => Open(p)
  <2>1. DOMAIN frames'[p] = DOMAIN frames[p] /\ \A i \in DOMAIN frames[p] : frames'[p][i].dst = frames[p][i].dst
    BY <1>1, <1>4 DEF Mark, TypeOK, Frame
  <2>2. QED
    BY <2>1 DEF Open
<1>5. ASSUME NEW item, Enter(p, item) PROVE Open(p)' => Open(p)
  <2>1. Here(p).dst /\ pc[p] = "walk"
    BY <1>5 DEF Enter, Walking
  <2>2. Len(frames[p]) \in DOMAIN frames[p]
    BY <1>1, <2>1 DEF TypeOK
  <2>3. QED
    BY <2>1, <2>2 DEF Open, Here
<1>6. QED
  BY <1>2, <1>3, <1>4, <1>5

\* A user's edit closes what it removes.
LEMMA OpenEdit ==
  ASSUME TypeOK, NEW p \in Importers, NEW n \in Names, NEW x \in Paths, NEW kind \in Kinds, UserEdits(n, x, kind)
  PROVE  /\ Open(p)' => Open(p)
         /\ x = Top /\ Plan(p).name = n => ~Open(p)'
<1>1. frames[p] \in Seq(Frame) /\ \A i \in DOMAIN frames[p] : frames[p][i] \in Frame
  BY DEF TypeOK
<1>2. frames'[p] = [i \in DOMAIN frames[p] |->
          IF Plan(p).name = n /\ frames[p][i].path \in Below(x)
          THEN [frames[p][i] EXCEPT !.dst = FALSE] ELSE frames[p][i]]
  BY DEF UserEdits
<1>3. QED
  BY <1>1, <1>2, BelowTop DEF Open, Frame

\* An edit of the host opens nothing in a copy.
LEMMA OpenHostEdit ==
  ASSUME TypeOK, NEW p \in Importers, NEW s \in Sources, NEW x \in Paths, NEW kind \in Kinds, HostEdits(s, x, kind)
  PROVE  Open(p)' => Open(p)
<1>1. frames[p] \in Seq(Frame) /\ \A i \in DOMAIN frames[p] : frames[p][i] \in Frame
  BY DEF TypeOK
<1>2. frames'[p] = [i \in DOMAIN frames[p] |->
          IF Plan(p).source = s /\ frames[p][i].path \in Below(x)
          THEN [frames[p][i] EXCEPT !.src = FALSE] ELSE frames[p][i]]
  BY DEF HostEdits
<1>3. QED
  BY <1>1, <1>2 DEF Open, Frame

\* Writing the bytes changes what the writer's file holds, and nothing else.
LEMMA FillKeeps ==
  ASSUME TypeOK, NEW p \in Importers, Fill(p), NEW n \in Names, NEW x \in Paths
  PROVE  /\ copy'[n][x].kind = copy[n][x].kind /\ tmp'[n][x].kind = tmp[n][x].kind
         /\ p \notin copy[n][x].data => copy'[n][x] = copy[n][x]
         /\ p \notin tmp[n][x].data => tmp'[n][x] = tmp[n][x]
<1>1. PICK data :
          /\ copy' = [m \in Names |-> [y \in Paths |-> Written(p, copy[m][y], data)]]
          /\ tmp' = [m \in Names |-> [y \in Paths |-> Written(p, tmp[m][y], data)]]
  BY DEF Fill
<1>2. copy'[n][x] = Written(p, copy[n][x], data) /\ tmp'[n][x] = Written(p, tmp[n][x], data)
  BY <1>1
<1>3. copy[n][x] \in Entry /\ tmp[n][x] \in Entry
  BY DEF TypeOK
<1>4. QED
  BY <1>2, <1>3 DEF Written, Entry

\* An importer that stops leaves everything in its place; p writes nothing any more.
LEMMA AbandonKeeps ==
  ASSUME TypeOK, NEW p, NEW n \in Names, NEW x \in Paths
  PROVE  /\ Abandoned(p, copy)[n][x].kind = copy[n][x].kind
         /\ Abandoned(p, copy)[n][x].data = copy[n][x].data \ {p}
         /\ p \notin copy[n][x].data => Abandoned(p, copy)[n][x] = copy[n][x]
         /\ Abandoned(p, tmp)[n][x].kind = tmp[n][x].kind
         /\ Abandoned(p, tmp)[n][x].data = tmp[n][x].data \ {p}
         /\ Abandoned(p, tmp) \in [Names -> [Paths -> Entry]]
<1>1. copy[n][x] \in Entry /\ tmp[n][x] \in Entry
  BY DEF TypeOK
<1>2. \A entry \in Entry : [entry EXCEPT !.data = @ \ {p}] \in Entry
  BY DEF Entry
<1>3. \A entry \in Entry : p \notin entry.data => [entry EXCEPT !.data = @ \ {p}] = entry
  BY DEF Entry
<1>4. /\ Abandoned(p, copy)[n][x] = [copy[n][x] EXCEPT !.data = @ \ {p}]
      /\ Abandoned(p, tmp)[n][x] = [tmp[n][x] EXCEPT !.data = @ \ {p}]
  BY DEF Abandoned
<1>5. Abandoned(p, tmp) \in [Names -> [Paths -> Entry]]
  BY <1>2 DEF Abandoned, TypeOK
<1>6. \A entry \in Entry : /\ [entry EXCEPT !.data = @ \ {p}].kind = entry.kind
                           /\ [entry EXCEPT !.data = @ \ {p}].data = entry.data \ {p}
  BY DEF Entry
<1>7. QED
  BY <1>1, <1>3, <1>4, <1>5, <1>6

\* Only the mkdir of _claim makes a destination, and only the user removes one.
LEMMA TopStep ==
  ASSUME TypeOK, NEW p \in Importers, Step(p), ~Claim(p), NEW n \in Names
  PROVE  copy'[n][Top].kind = "dir" <=> copy[n][Top].kind = "dir"
<1>1. CASE Start(p) \/ OpenDest(p) \/ Mark(p) \/ Claimed(p) \/ Refuse(p) \/ Leave(p)
  BY <1>1 DEF Start, OpenDest, Mark, Claimed, Refuse, Leave, disk
<1>2. ASSUME NEW item \in Item, Skip(p, item) \/ Unchanged(p, item) \/ Look(p, item) \/ Enter(p, item)
      PROVE  copy'[n][Top].kind = "dir" <=> copy[n][Top].kind = "dir"
  <2>1. CASE Skip(p, item) \/ Unchanged(p, item) \/ Look(p, item)
    BY <2>1 DEF Skip, Unchanged, Look, OpenTmp, disk
  <2>2. CASE Enter(p, item)
    <3>1. item.path # Top
      BY DEF Item
    <3>2. copy'[n][Top] = copy[n][Top]
      BY <2>2, <3>1 DEF Enter, TypeOK
    <3>3. QED
      BY <3>2
  <2>3. QED
    BY <1>2, <2>1, <2>2
<1>3. CASE Fill(p)
  BY <1>3, FillKeeps, PathAssumption
<1>4. CASE Rename(p)
  BY <1>4, PathAssumption DEF Rename, Replaceable, TypeOK
<1>5. CASE Fails(p) \/ Crash(p)
  BY <1>5, AbandonKeeps, PathAssumption DEF Fails, Crash
<1>6. QED
  BY <1>1, <1>2, <1>3, <1>4, <1>5 DEF Step

\* Plans change only between two copies.
LEMMA PlanStep ==
  ASSUME TypeOK, NEW p \in Importers, NEW q \in Importers,
         \/ Step(p) /\ ~Start(p) /\ ~Leave(p)
         \/ (Start(p) \/ Leave(p)) /\ q # p
  PROVE  Plan(q)' = Plan(q)
<1>1. CASE Start(p) \/ Leave(p)
  BY <1>1 DEF Start, Leave, Plan, TypeOK
<1>2. CASE Step(p) /\ ~Start(p) /\ ~Leave(p)
  BY <1>2 DEF Step, Claim, OpenDest, Mark, Claimed, Refuse, Skip, Unchanged, Look, Enter, Fill, Rename, Fails, Crash, run, Plan
<1>3. QED
  BY <1>1, <1>2

\* A step of p leaves the place and the open directories of the others alone.
LEMMA OthersStep ==
  ASSUME TypeOK, NEW p \in Importers, Step(p), NEW q \in Importers, q # p
  PROVE  pc'[q] = pc[q] /\ frames'[q] = frames[q] /\ file'[q] = file[q]
<1>1. CASE Start(p) \/ Claim(p) \/ OpenDest(p) \/ Mark(p) \/ Claimed(p) \/ Refuse(p)
  BY <1>1 DEF Start, Claim, OpenDest, Mark, Claimed, Refuse, Goes, Opens, Ends, TypeOK
<1>2. ASSUME NEW item \in Item, Skip(p, item) \/ Unchanged(p, item) \/ Look(p, item) \/ Enter(p, item)
      PROVE  pc'[q] = pc[q] /\ frames'[q] = frames[q] /\ file'[q] = file[q]
  BY <1>2 DEF Skip, Unchanged, Look, Enter, Done, Goes, TypeOK
<1>3. CASE Fill(p) \/ Rename(p) \/ Leave(p)
  BY <1>3 DEF Fill, Rename, Leave, Goes, TypeOK
<1>4. CASE Fails(p) \/ Crash(p)
  BY <1>4 DEF Fails, Crash, Ends, Goes, TypeOK
<1>5. QED
  BY <1>1, <1>2, <1>3, <1>4 DEF Step

\* An importer that has just ended, or not begun, has nothing open.
LEMMA ClosedOutside ==
  ASSUME TypeOK, NEW p \in Importers, Open(p)
  PROVE  pc[p] \in {"mark", "walk", "fill", "rename"} /\ Plan(p) \in [source : Sources, name : Names]
<1>1. frames[p] # <<>>
  BY DEF Open
<1>2. pc[p] \in {"mark", "walk", "fill", "rename"}
  BY <1>1 DEF TypeOK
<1>3. QED
  BY <1>2, PlanType DEF Busy, Idle

\* Every step keeps destinations, markers and the importers inside them together.
LEMMA ClaimStep ==
  ASSUME TypeOK, ClaimInv, [Next]_vars
  PROVE  ClaimInv'
<1>0. SUFFICES ASSUME ~UserQuick
      PROVE  ClaimInv'
  BY DEF ClaimInv
<1>1. CASE UNCHANGED vars
  BY <1>1 DEF vars, ClaimInv, Making, Open, Plan
<1>5. \A q \in Importers : (Making(q) \/ Open(q)) => Plan(q).name \in Names /\ Plan(q).source \in Sources
  BY ClosedOutside, PlanType DEF Making, Busy, Idle
<1>2. ASSUME NEW s \in Sources, NEW x \in Paths, NEW kind \in Kinds, HostEdits(s, x, kind)
      PROVE  ClaimInv'
  <2>1. \A p \in Importers : Open(p)' => Open(p)
    BY <1>2, OpenHostEdit
  <2>2. copy' = copy /\ marker' = marker /\ pc' = pc /\ \A p \in Importers : Plan(p)' = Plan(p)
    BY <1>2 DEF HostEdits, run, Plan
  <2>3. QED
    BY <1>0, <2>1, <2>2 DEF ClaimInv, Making
<1>3. ASSUME NEW n \in Names, NEW x \in Paths, NEW kind \in Kinds, UserEdits(n, x, kind)
      PROVE  ClaimInv'
  <2>1. \A p \in Importers : (Open(p)' => Open(p)) /\ (x = Top /\ Plan(p).name = n => ~Open(p)')
    BY <1>3, OpenEdit
  <2>2. pc' = pc /\ \A p \in Importers : Plan(p)' = Plan(p)
    BY <1>3 DEF UserEdits, run, Plan
  <2>3. /\ \A m \in Names \ {n} : copy'[m] = copy[m] /\ marker'[m] = marker[m]
        /\ marker'[n] = IF x = Top THEN NoSource ELSE marker[n]
    BY <1>3 DEF UserEdits, TypeOK
  <2>4. x # Top => copy'[n][Top] = copy[n][Top]
    BY <1>3, BelowTop, PathAssumption DEF UserEdits, Changed, TypeOK
  <2>5. \A p \in Importers : Making(p)' => Making(p) /\ ~(x = Top /\ Plan(p).name = n)
    BY <1>0, <1>3, <2>1, <2>2 DEF UserEdits, Making
  <2>6. QED
    BY <1>0, <1>5, <2>1, <2>2, <2>3, <2>4, <2>5 DEF ClaimInv
<1>4. ASSUME NEW p \in Importers, Step(p)
      PROVE  ClaimInv'
  <2>1. \A q \in Importers \ {p} : pc'[q] = pc[q] /\ (Open(q)' <=> Open(q)) /\ (Making(q)' <=> Making(q))
                                  /\ Plan(q)' = Plan(q)
    <3>1. ASSUME NEW q \in Importers \ {p}
          PROVE  pc'[q] = pc[q] /\ frames'[q] = frames[q]
      BY <1>4, <3>1, OthersStep
    <3>2. ASSUME NEW q \in Importers \ {p}
          PROVE  Plan(q)' = Plan(q)
      BY <1>4, <3>2, PlanStep
    <3>3. QED
      BY <3>1, <3>2 DEF Open, Making
  <2>3. ASSUME ~Claim(p), ~OpenDest(p), ~Mark(p), ~Claimed(p)
        PROVE  ClaimInv'
    <3>1. marker' = marker
      BY <1>4, <2>3 DEF Step, Start, Refuse, Skip, Unchanged, Look, Enter, Fill, Rename, Leave, Fails, Crash, disk
    <3>2. \A n \in Names : copy'[n][Top].kind = "dir" <=> copy[n][Top].kind = "dir"
      BY <1>4, <2>3, TopStep
    <3>3. /\ ~Making(p)'
          /\ Open(p)' /\ pc'[p] \in {"walk", "fill", "rename"} =>
                Open(p) /\ pc[p] \in {"walk", "fill", "rename"} /\ Plan(p)' = Plan(p)
      <4>1. CASE Start(p)
        BY <4>1, ClosedOutside DEF Start, Busy, Idle, Open, Making, Goes, TypeOK
      <4>2. CASE Refuse(p) \/ Fails(p) \/ Crash(p)
        BY <4>2 DEF Refuse, Fails, Crash, Ends, Goes, TypeOK, Open, Making
      <4>3. ASSUME NEW item \in Item, Skip(p, item) \/ Unchanged(p, item) \/ Look(p, item) \/ Enter(p, item)
            PROVE  /\ Open(p)' => Open(p) /\ Plan(p)' = Plan(p)
                   /\ pc[p] = "walk" /\ pc'[p] \in {"walk", "fill"}
        BY <4>3, OpenStep DEF Skip, Unchanged, Look, Enter, Walking, Goes, run, Plan, TypeOK
      <4>4. CASE Fill(p) \/ Rename(p)
        BY <4>4 DEF Fill, Rename, Goes, run, Plan, TypeOK, Open, Making
      <4>5. CASE Leave(p)
        <5>1. Open(p)' => Len(frames[p]) > 1
          <6>1. frames[p] \in Seq(Frame) /\ frames'[p] = SubSeq(frames[p], 1, Len(frames[p]) - 1)
            BY <4>5 DEF Leave, Front, TypeOK
          <6>2. ~(Len(frames[p]) > 1) => DOMAIN frames'[p] = {}
            BY <6>1
          <6>3. QED
            BY <6>2 DEF Open
        <5>2. pc[p] = "walk" /\ pc'[p] \notin {"open", "mark"} /\ (Len(frames[p]) > 1 => Plan(p)' = Plan(p))
          BY <4>5 DEF Leave, Goes, Plan, TypeOK
        <5>3. QED
          BY <4>5, <5>1, <5>2, OpenStep DEF Making
      <4>6. QED
        BY <1>4, <2>3, <4>1, <4>2, <4>3, <4>4, <4>5 DEF Step, Making
    <3>4. QED
      BY <1>0, <1>5, <2>1, <3>1, <3>2, <3>3 DEF ClaimInv
  <2>4. CASE Claim(p)
    <3>1. Plan(p) \in [source : Sources, name : Names] /\ Plan(p)' = Plan(p)
      BY <1>4, <2>4, PlanType, PlanStep DEF Claim, Busy, Idle, Start, Leave
    <3>2. /\ copy[Plan(p).name][Top].kind = "none" /\ marker' = marker
          /\ copy' = [copy EXCEPT ![Plan(p).name][Top] = NewDir]
          /\ pc'[p] = "open"
      BY <2>4 DEF Claim, Goes, TypeOK
    <3>3. copy'[Plan(p).name][Top].kind = "dir"
          /\ \A n \in Names \ {Plan(p).name} : copy'[n][Top] = copy[n][Top]
      BY <3>1, <3>2, PathAssumption DEF NewDir, TypeOK
    <3>4. \A q \in Importers \ {p} : Making(q) => Plan(q).name # Plan(p).name
      BY <1>0, <3>2 DEF ClaimInv
    <3>5. marker[Plan(p).name] = NoSource
      BY <1>0, <3>1, <3>2 DEF ClaimInv
    <3>6. QED
      BY <1>0, <1>5, <2>1, <3>1, <3>2, <3>3, <3>4, <3>5 DEF ClaimInv
  <2>8. CASE OpenDest(p)
    <3>1. Plan(p)' = Plan(p) /\ Making(p) /\ pc'[p] = "mark" /\ copy' = copy /\ marker' = marker
      BY <1>4, <2>8, PlanStep DEF OpenDest, Making, Start, Leave, Goes, disk, Busy, Idle, TypeOK
    <3>2. QED
      BY <1>0, <2>1, <3>1 DEF ClaimInv
  <2>5. CASE Mark(p)
    <3>1. Plan(p) \in [source : Sources, name : Names] /\ Plan(p)' = Plan(p) /\ pc[p] = "mark"
      BY <1>4, <2>5, PlanType, PlanStep DEF Mark, Busy, Idle, Start, Leave
    <3>2. frames[p] \in Seq(Frame) /\ Len(frames[p]) \in DOMAIN frames[p]
      BY <3>1 DEF TypeOK
    <3>3. Making(p)
      BY <2>5, <3>1, <3>2 DEF Making, Open, Here, Mark
    <3>4. copy[Plan(p).name][Top].kind = "dir" /\ marker[Plan(p).name] = NoSource
      BY <1>0, <3>3 DEF ClaimInv
    <3>5. /\ copy' = copy /\ pc'[p] = "walk"
          /\ marker' = [marker EXCEPT ![Plan(p).name] = Plan(p).source]
      BY <2>5 DEF Mark, Goes, TypeOK
    <3>6. \A q \in Importers \ {p} : Making(q) \/ (Open(q) /\ pc[q] \in {"walk", "fill", "rename"})
             => Plan(q).name # Plan(p).name
      BY <1>0, <1>5, <3>3, <3>4, BoundAssumption DEF ClaimInv
    <3>7. marker'[Plan(p).name] = Plan(p).source
          /\ \A n \in Names \ {Plan(p).name} : marker'[n] = marker[n]
      BY <3>1, <3>5 DEF TypeOK
    <3>8. ~Making(p)'
      BY <3>5 DEF Making
    <3>9. QED
      BY <1>0, <1>5, <2>1, <3>1, <3>4, <3>5, <3>6, <3>7, <3>8 DEF ClaimInv
  <2>6. CASE Claimed(p)
    <3>1. Plan(p)' = Plan(p)
      BY <1>4, <2>6, PlanStep DEF Claimed, Start, Leave, Busy, Idle
    <3>2. marker[Plan(p).name] = Plan(p).source /\ copy' = copy /\ marker' = marker /\ pc'[p] = "walk"
      BY <2>6 DEF Claimed, Ours, disk, Goes, TypeOK
    <3>3. QED
      BY <1>0, <2>1, <3>1, <3>2 DEF ClaimInv, Making
  <2>7. QED
    BY <2>3, <2>4, <2>5, <2>6, <2>8
<1>6. QED
  BY <1>1, <1>2, <1>3, <1>4 DEF Next

\* Every step keeps unfinished files with the importer that fills them.
LEMMA WriterStep ==
  ASSUME TypeOK, ClaimInv, WriterInv, [Next]_vars
  PROVE  WriterInv'
<1>1. CASE UNCHANGED vars
  BY <1>1 DEF vars, WriterInv, Writes, Plan
<1>2. ASSUME NEW s \in Sources, NEW x \in Paths, NEW kind \in Kinds, HostEdits(s, x, kind)
      PROVE  WriterInv'
  <2>1. clock' \in Times
    BY <1>2, EditsType DEF TypeOK
  <2>2. \A r \in Sources, y \in Paths : host'[r][y].data \subseteq Times
    BY <1>2, <2>1 DEF HostEdits, Changed, Missing, TypeOK, WriterInv
  <2>3. copy' = copy /\ tmp' = tmp /\ marker' = marker /\ pc' = pc /\ file' = file
        /\ \A p \in Importers : Plan(p)' = Plan(p)
    BY <1>2 DEF HostEdits, run, Plan
  <2>4. QED
    BY <2>2, <2>3 DEF WriterInv, Writes
<1>3. ASSUME NEW n \in Names, NEW x \in Paths, NEW kind \in Kinds, UserEdits(n, x, kind)
      PROVE  WriterInv'
  <2>1. clock' \in Times
    BY <1>3, EditsType DEF TypeOK
  <2>2. host' = host /\ pc' = pc /\ file' = file /\ \A p \in Importers : Plan(p)' = Plan(p)
    BY <1>3 DEF UserEdits, run, Plan
  <2>3. \A m \in Names, y \in Paths, p \in Importers :
           /\ Writes(p, copy[m][y])' => Writes(p, copy[m][y]) /\ copy'[m][y] = copy[m][y] /\ ~(m = n /\ x = Top)
           /\ Writes(p, tmp[m][y])' => Writes(p, tmp[m][y]) /\ tmp'[m][y] = tmp[m][y]
                                        /\ ~(m = n /\ x = Top /\ y # Top)
    <3>1. ASSUME NEW m \in Names \ {n}, NEW y \in Paths
          PROVE  copy'[m][y] = copy[m][y] /\ tmp'[m][y] = tmp[m][y]
      BY <1>3, <3>1 DEF UserEdits, TypeOK
    <3>2. ASSUME NEW y \in Paths, NEW p \in Importers
          PROVE  /\ p \in copy'[n][y].data => copy'[n][y] = copy[n][y] /\ x # Top
                 /\ p \in tmp'[n][y].data => tmp'[n][y] = tmp[n][y] /\ ~(x = Top /\ y # Top)
      BY <1>3, <2>1, BelowTop, BoundAssumption DEF UserEdits, Changed, Missing, TypeOK, Times
    <3>3. QED
      BY <3>1, <3>2 DEF Writes
  <2>4. \A m \in Names : marker'[m] # marker[m] => m = n /\ x = Top
    BY <1>3 DEF UserEdits, TypeOK
  <2>5. QED
    BY <2>2, <2>3, <2>4 DEF WriterInv, Writes
<1>4. ASSUME NEW p \in Importers, Step(p)
      PROVE  WriterInv'
  <2>1. ASSUME NEW q \in Importers, ~((Start(p) \/ Leave(p)) /\ q = p)
        PROVE  Plan(q)' = Plan(q)
    BY <1>4, <2>1, PlanStep
  <2>2. \A q \in Importers \ {p} : pc'[q] = pc[q] /\ file'[q] = file[q]
    BY <1>4, OthersStep
  <2>3. \A q \in Importers : pc[q] = "fill" => Plan(q) \in [source : Sources, name : Names]
    BY PlanType DEF Busy, Idle
  <2>4. p \notin Times
    BY BoundAssumption DEF Times
  <2>5. \A n \in Names, x \in Paths, q \in Importers :
           Writes(q, copy[n][x]) \/ Writes(q, tmp[n][x]) => Plan(q)' = Plan(q) /\ (q # p => pc'[q] = "fill")
    BY <2>1, <2>2 DEF WriterInv, Start, Leave, Busy, Idle
  <2>6. CASE Start(p) \/ OpenDest(p) \/ Claimed(p) \/ Refuse(p) \/ Leave(p)
    <3>1. copy' = copy /\ tmp' = tmp /\ marker' = marker /\ host' = host /\ pc[p] # "fill"
          /\ (file'[p] = file[p] \/ file'[p] = NoFile)
      BY <2>6 DEF Start, OpenDest, Claimed, Refuse, Leave, disk, Busy, Idle, Ends, TypeOK
    <3>2. QED
      BY <2>2, <2>5, <3>1 DEF WriterInv, Writes, NoFile
  <2>7. CASE Claim(p)
    <3>1. /\ tmp' = tmp /\ marker' = marker /\ host' = host /\ file' = file /\ pc[p] # "fill"
          /\ copy' = [copy EXCEPT ![Plan(p).name][Top] = NewDir]
      BY <2>7 DEF Claim
    <3>2. \A n \in Names, x \in Paths, q \in Importers :
             q \in copy'[n][x].data => copy'[n][x] = copy[n][x]
      BY <3>1 DEF NewDir, TypeOK
    <3>3. QED
      BY <2>2, <2>5, <3>1, <3>2 DEF WriterInv, Writes
  <2>8. CASE Mark(p)
    <3>1. copy' = copy /\ tmp' = tmp /\ host' = host /\ file' = file /\ pc[p] = "mark"
          /\ marker' = [marker EXCEPT ![Plan(p).name] = Plan(p).source]
      BY <2>8 DEF Mark
    <3>2. UserQuick \/ marker[Plan(p).name] = NoSource
      <4>1. frames[p] \in Seq(Frame) /\ Len(frames[p]) \in DOMAIN frames[p]
        BY <3>1 DEF TypeOK
      <4>2. QED
        BY <2>8, <3>1, <4>1 DEF ClaimInv, Making, Mark, Open, Here
    <3>3. UserQuick \/ \A q \in Importers : pc[q] = "fill" /\ Plan(q).source = marker[Plan(q).name] => Plan(q).name # Plan(p).name
      BY <2>3, <3>2, BoundAssumption
    <3>4. QED
      BY <2>2, <2>5, <3>1, <3>3 DEF WriterInv, Writes, TypeOK
  <2>9. ASSUME NEW item \in Item, Skip(p, item) \/ Unchanged(p, item) \/ Look(p, item) \/ Enter(p, item)
        PROVE  WriterInv'
    <3>1. pc[p] = "walk" /\ Plan(p) \in [source : Sources, name : Names] /\ item.path \in Paths \ {Top}
      BY <2>9, PlanType DEF Skip, Unchanged, Look, Enter, Walking, Busy, Idle, Item
    <3>2. CASE Skip(p, item) \/ Unchanged(p, item)
      BY <2>2, <2>5, <3>1, <3>2 DEF Skip, Unchanged, disk, WriterInv, Writes
    <3>3. CASE Enter(p, item)
      <4>1. /\ tmp' = tmp /\ marker' = marker /\ host' = host /\ file' = file
            /\ \/ copy' = copy
               \/ copy' = [copy EXCEPT ![Plan(p).name][item.path] = NewDir]
        BY <3>3 DEF Enter
      <4>2. ASSUME NEW n \in Names, NEW x \in Paths
            PROVE  copy'[n][x] = copy[n][x] \/ copy'[n][x].data = {}
        <5>1. CASE copy' = copy
          BY <5>1
        <5>2. CASE copy' = [copy EXCEPT ![Plan(p).name][item.path] = NewDir] /\ n = Plan(p).name /\ x = item.path
          <6>1. copy'[n][x] = NewDir
            BY <5>2 DEF TypeOK
          <6>2. QED
            BY <6>1 DEF NewDir
        <5>3. CASE copy' = [copy EXCEPT ![Plan(p).name][item.path] = NewDir] /\ ~(n = Plan(p).name /\ x = item.path)
          BY <5>3 DEF TypeOK
        <5>4. QED
          BY <4>1, <5>1, <5>2, <5>3
      <4>3. QED
        BY <2>2, <2>5, <3>1, <4>1, <4>2 DEF WriterInv, Writes
    <3>4. CASE Look(p, item)
      <4>1. /\ copy' = copy /\ marker' = marker /\ host' = host
            /\ pc'[p] = "fill" /\ Here(p).dst
            /\ file'[p].data = Source(p, item.path).data
            /\ tmp' = [tmp EXCEPT ![Plan(p).name][item.path] = [Missing(0) EXCEPT !.kind = "file", !.data = {p}]]
        BY <3>4 DEF Look, OpenTmp, Goes, TypeOK
      <4>2. Open(p)
        <5>1. frames[p] \in Seq(Frame) /\ Len(frames[p]) \in DOMAIN frames[p]
          BY <3>1 DEF TypeOK
        <5>2. QED
          BY <4>1, <5>1 DEF Open, Here
      <4>3. (UserQuick \/ marker[Plan(p).name] = Plan(p).source) /\ Plan(p)' = Plan(p)
        BY <2>1, <3>1, <3>4, <4>2 DEF ClaimInv, Start, Leave, Look, Busy, Idle, Goes, TypeOK
      <4>4. file'[p].data \subseteq Times
        BY <3>1, <4>1 DEF Source, Missing, WriterInv
      <4>5. \A n \in Names, x \in Paths :
               \/ tmp'[n][x] = tmp[n][x]
               \/ /\ n = Plan(p).name /\ x = item.path
                  /\ tmp'[n][x].kind = "file" /\ tmp'[n][x].data = {p}
        BY <4>1 DEF Missing, TypeOK
      <4>6. QED
        BY <2>2, <2>5, <3>1, <4>1, <4>3, <4>4, <4>5 DEF WriterInv, Writes
    <3>5. QED
      BY <2>9, <3>2, <3>3, <3>4
  <2>10. CASE Fill(p)
    <3>1. PICK data \in SUBSET Times :
            /\ copy' = [n \in Names |-> [x \in Paths |-> Written(p, copy[n][x], data)]]
            /\ tmp' = [n \in Names |-> [x \in Paths |-> Written(p, tmp[n][x], data)]]
      <4>1. {file[p].data} \cup (IF host[Plan(p).source][file[p].path].kind = "file"
                               THEN {host[Plan(p).source][file[p].path].data,
                                     file[p].data \cup host[Plan(p).source][file[p].path].data} ELSE {})
            \subseteq SUBSET Times
        BY <2>3, <2>10 DEF Fill, WriterInv, TypeOK
      <4>2. QED
        BY <2>10, <4>1 DEF Fill
    <3>2. \A n \in Names, x \in Paths, q \in Importers :
            /\ q \in copy'[n][x].data => q \in copy[n][x].data /\ q # p /\ copy'[n][x] = copy[n][x]
            /\ q \in tmp'[n][x].data => q \in tmp[n][x].data /\ q # p /\ tmp'[n][x] = tmp[n][x]
      <4>1. ASSUME NEW q \in Importers, NEW entry \in Entry, q \in Written(p, entry, data).data
            PROVE  q # p /\ Written(p, entry, data) = entry /\ q \in entry.data
        BY <4>1, BoundAssumption DEF Written, Entry, Times
      <4>2. ASSUME NEW n \in Names, NEW x \in Paths
            PROVE  /\ copy[n][x] \in Entry /\ copy'[n][x] = Written(p, copy[n][x], data)
                   /\ tmp[n][x] \in Entry /\ tmp'[n][x] = Written(p, tmp[n][x], data)
        BY <3>1, <4>2 DEF TypeOK
      <4>3. QED
        BY <4>1, <4>2
    <3>3. marker' = marker /\ host' = host /\ file' = file
      BY <2>10 DEF Fill
    <3>4. QED
      BY <2>2, <2>5, <3>2, <3>3 DEF WriterInv, Writes
  <2>11. CASE Rename(p)
    <3>1. /\ copy' = [copy EXCEPT ![Plan(p).name][file[p].path] = tmp[Plan(p).name][file[p].path]]
          /\ tmp' = [tmp EXCEPT ![Plan(p).name][file[p].path] = Missing(0)]
          /\ marker' = marker /\ host' = host /\ file'[p] = NoFile /\ pc[p] = "rename"
      BY <2>11 DEF Rename, TypeOK
    <3>2. \A n \in Names, x \in Paths :
            /\ copy'[n][x] = copy[n][x] \/ copy'[n][x] = tmp[n][x]
            /\ tmp'[n][x] = tmp[n][x] \/ tmp'[n][x].data = {}
      BY <3>1 DEF Missing, TypeOK
    <3>3. QED
      BY <2>2, <2>5, <3>1, <3>2 DEF WriterInv, Writes, NoFile
  <2>12. CASE Fails(p) \/ Crash(p)
    <3>1. marker' = marker /\ host' = host /\ file'[p] = NoFile
      BY <2>12 DEF Fails, Crash, Ends, TypeOK
    <3>2. \A n \in Names, x \in Paths :
            /\ copy'[n][x].kind = copy[n][x].kind /\ copy'[n][x].data = copy[n][x].data \ {p}
            /\ \/ tmp'[n][x].kind = tmp[n][x].kind /\ tmp'[n][x].data = tmp[n][x].data \ {p}
               \/ tmp'[n][x].data = {}
      BY <2>12, AbandonKeeps DEF Fails, Crash, Missing
    <3>3. QED
      BY <2>2, <2>5, <3>1, <3>2 DEF WriterInv, Writes, NoFile
  <2>13. QED
    BY <1>4, <2>6, <2>7, <2>8, <2>9, <2>10, <2>11, <2>12 DEF Step
<1>5. QED
  BY <1>1, <1>2, <1>3, <1>4 DEF Next

\* At the start nothing is claimed and nothing is written.
LEMMA InitWriters == Init => ClaimInv /\ WriterInv
<1>1. SUFFICES ASSUME Init
      PROVE  ClaimInv /\ WriterInv
  OBVIOUS
<1>2. \A n \in Names, x \in Paths : copy[n][x] = Missing(0) /\ tmp[n][x] = Missing(0) /\ marker[n] = NoSource
  BY <1>1 DEF Init
<1>3. \A p \in Importers : pc[p] = "idle" /\ frames[p] = <<>> /\ file[p] = NoFile
  BY <1>1 DEF Init
<1>4. \A s \in Sources, x \in Paths : host[s][x].data = {0}
  BY <1>1 DEF Init
<1>5. ClaimInv
  <2>1. \A p \in Importers : ~Open(p)
    BY <1>3 DEF Open
  <2>2. QED
    BY <1>2, <1>3, <2>1, PathAssumption DEF ClaimInv, Making
<1>6. WriterInv
  BY <1>2, <1>3, <1>4, BoundAssumption DEF WriterInv, Writes, Missing, NoFile, Times
<1>7. QED
  BY <1>5, <1>6

\* Who holds a destination, and who writes the files that are not whole, for all
\* instances: the invariant behind the theorems below.
THEOREM WritersHold == Spec => [](ClaimInv /\ WriterInv)
<1>1. TypeOK /\ ClaimInv /\ WriterInv /\ [Next]_vars => (ClaimInv /\ WriterInv)'
  BY ClaimStep, WriterStep
<1>2. QED
  BY <1>1, InitWriters, TypesHold, PTL DEF Spec

----------------------------------------------------------------------------
(* What an importer changes                                                *)

\* What a step of an importer does to an entry of a copy: nothing, a directory where
\* there was nothing, the whole file over anything but a directory, or more bytes of
\* a file it writes itself.  Except for the mkdir of _claim it has the destination open.
LEMMA EntryStep ==
  ASSUME TypeOK, WriterInv, NEW p \in Importers, Step(p), NEW n \in Names, NEW x \in Paths
  PROVE  \/ copy'[n][x] = copy[n][x]
         \/ /\ copy[n][x].kind = "none" /\ copy'[n][x] = NewDir
            /\ x = Top \/ (pc[p] = "walk" /\ Plan(p).name = n /\ Open(p))
         \/ /\ copy[n][x].kind # "dir" /\ copy'[n][x].kind = "file"
            /\ pc[p] = "rename" /\ Plan(p).name = n /\ Open(p)
         \/ /\ Writes(p, copy[n][x]) /\ copy'[n][x].kind = copy[n][x].kind
<1> DEFINE Goal ==
         \/ copy'[n][x] = copy[n][x]
         \/ /\ copy[n][x].kind = "none" /\ copy'[n][x] = NewDir
            /\ x = Top \/ (pc[p] = "walk" /\ Plan(p).name = n /\ Open(p))
         \/ /\ copy[n][x].kind # "dir" /\ copy'[n][x].kind = "file"
            /\ pc[p] = "rename" /\ Plan(p).name = n /\ Open(p)
         \/ /\ Writes(p, copy[n][x]) /\ copy'[n][x].kind = copy[n][x].kind
<1>1. CASE Start(p) \/ OpenDest(p) \/ Mark(p) \/ Claimed(p) \/ Refuse(p) \/ Leave(p)
  BY <1>1 DEF Start, OpenDest, Mark, Claimed, Refuse, Leave, disk
<1>2. Busy(p) /\ Here(p).dst /\ pc[p] \in {"walk", "rename"} => Open(p) /\ Plan(p) \in [source : Sources, name : Names]
  <2>1. frames[p] \in Seq(Frame) /\ (pc[p] \in {"walk", "rename"} => Len(frames[p]) \in DOMAIN frames[p])
    BY DEF TypeOK
  <2>2. QED
    BY <2>1, PlanType DEF Open, Here
<1>3. CASE Claim(p)
  <2>1. copy[Plan(p).name][Top].kind = "none" /\ copy' = [copy EXCEPT ![Plan(p).name][Top] = NewDir]
    BY <1>3 DEF Claim
  <2>2. CASE n = Plan(p).name /\ x = Top
    <3>1. copy'[n][x] = NewDir
      BY <2>1, <2>2 DEF TypeOK
    <3>2. QED
      BY <2>1, <2>2, <3>1
  <2>3. CASE ~(n = Plan(p).name /\ x = Top)
    BY <2>1, <2>3 DEF TypeOK
  <2>4. QED
    BY <2>2, <2>3
<1>4. ASSUME NEW item \in Item, Skip(p, item) \/ Unchanged(p, item) \/ Look(p, item) \/ Enter(p, item)
      PROVE  Goal
  <2>1. CASE Skip(p, item) \/ Unchanged(p, item) \/ Look(p, item)
    BY <2>1 DEF Skip, Unchanged, Look, OpenTmp, disk
  <2>2. CASE Enter(p, item) /\ copy' # copy /\ n = Plan(p).name /\ x = item.path
    <3>1. /\ copy' = [copy EXCEPT ![n][x] = NewDir] /\ copy[n][x].kind = "none"
          /\ Here(p).dst /\ pc[p] = "walk"
      BY <2>2 DEF Enter, Walking
    <3>2. copy'[n][x] = NewDir
      BY <3>1 DEF TypeOK
    <3>3. Open(p)
      BY <1>2, <3>1 DEF Busy, Idle
    <3>4. QED
      BY <2>2, <3>1, <3>2, <3>3
  <2>3. CASE Enter(p, item) /\ ~(copy' # copy /\ n = Plan(p).name /\ x = item.path)
    <3>1. copy' = copy \/ copy' = [copy EXCEPT ![Plan(p).name][item.path] = NewDir]
      BY <2>3 DEF Enter
    <3>2. copy'[n][x] = copy[n][x]
      BY <2>3, <3>1 DEF TypeOK
    <3>3. QED
      BY <3>2
  <2>4. QED
    BY <1>4, <2>1, <2>2, <2>3
<1>5. CASE Fill(p)
  BY <1>5, FillKeeps DEF Writes
<1>6. CASE Rename(p)
  <2>1. /\ pc[p] = "rename" /\ Here(p).dst /\ tmp[Plan(p).name][file[p].path].kind = "file"
        /\ copy[Plan(p).name][file[p].path].kind # "dir"
        /\ copy' = [copy EXCEPT ![Plan(p).name][file[p].path] = tmp[Plan(p).name][file[p].path]]
    BY <1>6 DEF Rename, Replaceable
  <2>2. Open(p)
    BY <1>2, <2>1 DEF Busy, Idle
  <2>3. CASE n = Plan(p).name /\ x = file[p].path
    <3>1. copy'[n][x] = tmp[n][x]
      BY <2>1, <2>3 DEF TypeOK
    <3>2. QED
      BY <2>1, <2>2, <2>3, <3>1
  <2>4. CASE ~(n = Plan(p).name /\ x = file[p].path)
    BY <2>1, <2>4 DEF TypeOK
  <2>5. QED
    BY <2>3, <2>4
<1>7. CASE Fails(p) \/ Crash(p)
  BY <1>7, AbandonKeeps DEF Fails, Crash, Writes
<1>8. QED
  BY <1>1, <1>3, <1>4, <1>5, <1>6, <1>7 DEF Step

\* An edit moves the clock.
LEMMA EditsTick ==
  ASSUME TypeOK, [Next]_vars, ImporterStep
  PROVE  UNCHANGED vars \/ \E p \in Importers : Step(p)
<1>1. ASSUME NEW s, NEW x, NEW kind, HostEdits(s, x, kind) \/ UserEdits(s, x, kind)
      PROVE  clock' # clock
  <2>1. clock \in Nat
    BY BoundAssumption DEF TypeOK, Times
  <2>2. clock' = clock + 1
    BY <1>1 DEF HostEdits, UserEdits
  <2>3. QED
    BY <2>1, <2>2
<1>2. QED
  BY <1>1 DEF Next, ImporterStep

\* No step of an importer, whatever the user did meanwhile and wherever it is killed or
\* fails, deletes an entry of a copy or puts a file in the place of a directory: the
\* promise of imports.py, line 15, for all sources, plans and numbers of importers.
THEOREM NothingDeletedHolds == Spec => NothingDeleted
<1> DEFINE Kept == \A n \in Names, x \in Paths :
            /\ copy[n][x].kind # "none" => copy'[n][x].kind # "none"
            /\ copy[n][x].kind = "dir" => copy'[n][x] = copy[n][x]
<1>1. ASSUME TypeOK, WriterInv, NEW p \in Importers, Step(p), NEW n \in Names, NEW x \in Paths
      PROVE  /\ copy[n][x].kind # "none" => copy'[n][x].kind # "none"
             /\ copy[n][x].kind = "dir" => copy'[n][x] = copy[n][x]
  <2>1. Writes(p, copy[n][x]) => copy[n][x].kind = "file"
    BY <1>1 DEF WriterInv
  <2>2. QED
    BY <1>1, <2>1, EntryStep
<1>2. TypeOK /\ WriterInv /\ [Next]_vars => [ImporterStep => Kept]_vars
  <2>1. SUFFICES ASSUME TypeOK, WriterInv, [Next]_vars, ImporterStep
        PROVE  Kept
    OBVIOUS
  <2>2. CASE UNCHANGED vars
    BY <2>2 DEF vars
  <2>3. CASE \E p \in Importers : Step(p)
    BY <1>1, <2>1, <2>3
  <2>4. QED
    BY <2>1, <2>2, <2>3, EditsTick
<1>3. QED
  BY <1>2, TypesHold, WritersHold, PTL DEF Spec, NothingDeleted

\* No step of an importer changes a directory that is not the one it made or the one
\* marked with its source, however often the user deletes and re-makes it and whatever
\* the other importers do, provided the user does not remove it between its mkdir and
\* its open (imports.py, lines 299 and 304): then the open makes the marker elsewhere.
THEOREM ForeignUntouchedHolds ==
  ASSUME ~UserQuick
  PROVE  Spec => ForeignUntouched
<1> DEFINE Allowed(n) == \/ copy[n][Top].kind = "none"
                         \/ \E p \in Importers : Busy(p) /\ Plan(p) = [source |-> marker[n], name |-> n]
<1>1. ASSUME TypeOK, ClaimInv, WriterInv, NEW p \in Importers, Step(p), NEW n \in Names, copy'[n] # copy[n], TypeOK'
      PROVE  Allowed(n)
  <2>1. PICK x \in Paths : copy'[n][x] # copy[n][x]
    BY <1>1 DEF TypeOK
  <2>2. CASE copy[n][Top].kind = "none"
    BY <2>2
  <2>3. ASSUME pc[p] \in {"walk", "rename", "fill"}, Plan(p).name = n, Plan(p).source = marker[n]
        PROVE  Allowed(n)
    <3>1. Busy(p) /\ Plan(p) \in [source : Sources, name : Names]
      BY <1>1, <2>3, PlanType DEF Busy, Idle
    <3>2. Plan(p) = [source |-> marker[n], name |-> n]
      BY <2>3, <3>1
    <3>3. QED
      BY <3>1, <3>2
  <2>4. CASE pc[p] \in {"walk", "rename"} /\ Plan(p).name = n /\ Open(p)
    BY <1>1, <2>3, <2>4 DEF ClaimInv
  <2>5. CASE Writes(p, copy[n][x])
    BY <1>1, <2>3, <2>5 DEF WriterInv
  <2>6. CASE copy[n][x].kind = "none" /\ x = Top
    BY <2>2, <2>6
  <2>7. QED
    BY <1>1, <2>1, <2>4, <2>5, <2>6, EntryStep
<1>2. TypeOK /\ ClaimInv /\ WriterInv /\ [Next]_vars /\ TypeOK'
        => [ImporterStep => \A n \in Names : copy'[n] # copy[n] => Allowed(n)]_vars
  <2>1. SUFFICES ASSUME TypeOK, ClaimInv, WriterInv, [Next]_vars, TypeOK', ImporterStep, NEW n \in Names,
                        copy'[n] # copy[n]
        PROVE  Allowed(n)
    OBVIOUS
  <2>2. CASE UNCHANGED vars
    BY <2>1, <2>2 DEF vars
  <2>3. CASE \E p \in Importers : Step(p)
    BY <1>1, <2>1, <2>3
  <2>4. QED
    BY <2>1, <2>2, <2>3, EditsTick
<1>3. QED
  BY <1>2, TypesHold, WritersHold, PTL DEF Spec, ForeignUntouched

----------------------------------------------------------------------------
(* Half-written files: one importer at a time                              *)

\* Bytes of a whole file.
Whole(data) == data # {} /\ data \subseteq Times

\* The temporary file at p's hand is p's own while p fills it and whole when p renames it.
AloneInv ==
    /\ NothingHalfWritten
    /\ \A s \in Sources, x \in Paths : host[s][x].kind = "file" => host[s][x].data # {}
    /\ \A p \in Importers :
          LET temporary == tmp[Plan(p).name][file[p].path] IN
          /\ pc[p] \in {"fill", "rename"} => file[p].data # {}
          /\ pc[p] = "fill" /\ temporary.kind = "file" => p \in temporary.data
          /\ pc[p] = "rename" /\ temporary.kind = "file" => Whole(temporary.data)

\* At the start no file is being copied.
LEMMA InitAlone == Init => AloneInv
<1>1. SUFFICES ASSUME Init
      PROVE  AloneInv
  OBVIOUS
<1>2. \A n \in Names, x \in Paths : copy[n][x] = Missing(0)
  BY <1>1 DEF Init
<1>3. \A s \in Sources, x \in Paths : host[s][x].data = {0}
  BY <1>1 DEF Init
<1>4. \A p \in Importers : pc[p] = "idle"
  BY <1>1 DEF Init
<1>5. QED
  BY <1>2, <1>3, <1>4 DEF AloneInv, NothingHalfWritten, Missing

\* Edits write whole files, on the host and in the copy.
LEMMA EditsAlone ==
  ASSUME TypeOK, AloneInv, NEW n, NEW x \in Paths, NEW kind \in Kinds,
         (n \in Sources /\ HostEdits(n, x, kind)) \/ (n \in Names /\ UserEdits(n, x, kind))
  PROVE  AloneInv'
<1>1. clock' \in Times
  BY EditsType DEF TypeOK
<1>2. pc' = pc /\ file' = file /\ \A p \in Importers : Plan(p)' = Plan(p)
  BY DEF HostEdits, UserEdits, run, Plan
<1>3. \A p \in Importers : pc[p] \in {"fill", "rename"} => Plan(p).name \in Names /\ file[p].path \in Paths
  BY PlanType DEF Busy, Idle, TypeOK
<1>4. CASE n \in Sources /\ HostEdits(n, x, kind)
  <2>1. \A r \in Sources, y \in Paths : host'[r][y].kind = "file" => host'[r][y].data # {}
    BY <1>4 DEF HostEdits, Changed, Missing, TypeOK, AloneInv
  <2>2. copy' = copy /\ tmp' = tmp
    BY <1>4 DEF HostEdits
  <2>3. QED
    BY <1>2, <2>1, <2>2 DEF AloneInv, NothingHalfWritten
<1>5. CASE n \in Names /\ UserEdits(n, x, kind)
  <2>1. \A m \in Names, y \in Paths : copy'[m][y].kind = "file" => Whole(copy'[m][y].data)
    <3>1. \A m \in Names \ {n} : copy'[m] = copy[m]
      BY <1>5 DEF UserEdits, TypeOK
    <3>2. ASSUME NEW y \in Paths, copy'[n][y].kind = "file"
          PROVE  copy'[n][y] = copy[n][y] \/ copy'[n][y].data = {clock'}
      BY <1>5, <3>2 DEF UserEdits, Changed, Missing, TypeOK
    <3>3. QED
      BY <1>1, <3>1, <3>2 DEF AloneInv, NothingHalfWritten, Whole
  <2>2. \A m \in Names, y \in Paths : tmp'[m][y] = tmp[m][y] \/ tmp'[m][y].kind = "none"
    BY <1>5 DEF UserEdits, Missing, TypeOK
  <2>3. host' = host
    BY <1>5 DEF UserEdits
  <2>4. QED
    BY <1>2, <1>3, <2>1, <2>2, <2>3 DEF AloneInv, NothingHalfWritten, Whole
<1>6. QED
  BY <1>4, <1>5

\* The steps of the only importer.
LEMMA StepAlone ==
  ASSUME TypeOK, WriterInv, AloneInv, NEW p \in Importers, Importers = {p}, Step(p)
  PROVE  AloneInv'
<1>1. host' = host
  BY DEF Step, Start, Claim, OpenDest, Mark, Claimed, Refuse, Skip, Unchanged, Look, Enter, Fill, Rename, Leave, Fails, Crash, disk
<1>2. \A n \in Names, x \in Paths : copy[n][x].kind = "file" => Whole(copy[n][x].data)
  BY DEF AloneInv, NothingHalfWritten, Whole
<1>3. \A n \in Names, x \in Paths : ~Writes(p, copy[n][x])
  BY <1>2, BoundAssumption DEF WriterInv, Writes, Whole, Times
<1>4. ~Start(p) /\ ~Leave(p) => Plan(p)' = Plan(p)
  BY PlanStep
<1>5. CASE Start(p) \/ Claim(p) \/ OpenDest(p) \/ Mark(p) \/ Claimed(p) \/ Refuse(p) \/ Leave(p)
           \/ \E item \in Item : Skip(p, item) \/ Unchanged(p, item) \/ Enter(p, item)
  <2>1. pc'[p] \notin {"fill", "rename"}
    BY <1>5 DEF Start, Claim, OpenDest, Mark, Claimed, Refuse, Leave, Skip, Unchanged, Enter, Walking, Goes, Ends, TypeOK
  <2>2. pc[p] # "rename"
    BY <1>5 DEF Start, Claim, OpenDest, Mark, Claimed, Refuse, Leave, Skip, Unchanged, Enter, Walking, Busy, Idle
  <2>3. \A n \in Names, x \in Paths : copy'[n][x] = copy[n][x] \/ copy'[n][x].kind = "dir"
    BY <1>3, <2>2, EntryStep DEF NewDir
  <2>4. QED
    BY <1>1, <2>1, <2>3 DEF AloneInv, NothingHalfWritten
<1>6. ASSUME NEW item \in Item, Look(p, item)
      PROVE  AloneInv'
  <2>1. Plan(p) \in [source : Sources, name : Names] /\ item.path \in Paths
    BY <1>6, PlanType DEF Look, Walking, Busy, Idle, Item
  <2>2. /\ file'[p].data = Source(p, item.path).data /\ file'[p].path = item.path /\ Source(p, item.path).kind = "file"
        /\ pc'[p] = "fill" /\ copy' = copy /\ Plan(p)' = Plan(p)
        /\ tmp' = [tmp EXCEPT ![Plan(p).name][item.path] = [Missing(0) EXCEPT !.kind = "file", !.data = {p}]]
    BY <1>6 DEF Look, OpenTmp, Found, Goes, run, Plan, TypeOK
  <2>3. file'[p].data # {}
    BY <2>1, <2>2 DEF Source, Missing, AloneInv
  <2>4. p \in tmp'[Plan(p).name][item.path].data
    BY <2>1, <2>2 DEF Missing, TypeOK
  <2>5. QED
    BY <1>1, <2>2, <2>3, <2>4 DEF AloneInv, NothingHalfWritten
<1>7. CASE Fill(p)
  <2>1. Plan(p) \in [source : Sources, name : Names] /\ file[p].path \in Paths
    BY <1>7, PlanType DEF Fill, Busy, Idle, TypeOK
  <2>2. PICK data :
          /\ Whole(data)
          /\ tmp' = [n \in Names |-> [x \in Paths |-> Written(p, tmp[n][x], data)]]
    <3>1. Whole(file[p].data)
      BY <1>7 DEF Fill, AloneInv, WriterInv, Whole
    <3>2. \A s \in Sources, x \in Paths : host[s][x].kind = "file" => Whole(host[s][x].data)
      BY DEF AloneInv, WriterInv, Whole
    <3>3. QED
      BY <1>7, <2>1, <3>1, <3>2 DEF Fill, Whole
  <2>3. /\ pc'[p] = "rename" /\ file' = file /\ Plan(p)' = Plan(p) /\ pc[p] = "fill"
    BY <1>7 DEF Fill, Goes, run, Plan, TypeOK
  <2>4. tmp'[Plan(p).name][file[p].path].kind = "file" => Whole(tmp'[Plan(p).name][file[p].path].data)
    <3>1. tmp[Plan(p).name][file[p].path] \in Entry
      BY <2>1 DEF TypeOK
    <3>2. tmp'[Plan(p).name][file[p].path] = Written(p, tmp[Plan(p).name][file[p].path], data)
      BY <2>1, <2>2
    <3>3. tmp[Plan(p).name][file[p].path].kind = "file" => p \in tmp[Plan(p).name][file[p].path].data
      BY <2>3 DEF AloneInv
    <3>4. tmp'[Plan(p).name][file[p].path].kind = tmp[Plan(p).name][file[p].path].kind
      BY <1>7, <2>1, FillKeeps
    <3>5. \A entry \in Entry : p \in entry.data => Written(p, entry, data).data = data
      BY DEF Written, Entry
    <3>6. QED
      BY <2>2, <3>1, <3>2, <3>3, <3>4, <3>5
  <2>5. \A n \in Names, x \in Paths : copy'[n][x] = copy[n][x]
    BY <1>3, <1>7, FillKeeps DEF Writes
  <2>6. QED
    BY <1>1, <2>3, <2>4, <2>5 DEF AloneInv, NothingHalfWritten
<1>8. CASE Rename(p)
  <2>1. Plan(p) \in [source : Sources, name : Names] /\ file[p].path \in Paths
    BY <1>8, PlanType DEF Rename, Busy, Idle, TypeOK
  <2>2. /\ copy' = [copy EXCEPT ![Plan(p).name][file[p].path] = tmp[Plan(p).name][file[p].path]]
        /\ tmp[Plan(p).name][file[p].path].kind = "file" /\ pc[p] = "rename" /\ pc'[p] = "walk"
    BY <1>8 DEF Rename, Replaceable, Goes, TypeOK
  <2>3. Whole(tmp[Plan(p).name][file[p].path].data)
    BY <2>2 DEF AloneInv
  <2>4. \A n \in Names, x \in Paths : copy'[n][x] = copy[n][x] \/ Whole(copy'[n][x].data)
    BY <2>1, <2>2, <2>3 DEF TypeOK
  <2>5. QED
    BY <1>1, <1>2, <2>2, <2>4 DEF AloneInv, NothingHalfWritten, Whole
<1>9. CASE Fails(p) \/ Crash(p)
  <2>1. pc'[p] \notin {"fill", "rename"}
    BY <1>9 DEF Fails, Crash, Ends, Goes, TypeOK
  <2>2. \A n \in Names, x \in Paths : copy'[n][x] = copy[n][x]
    BY <1>3, <1>9, AbandonKeeps DEF Fails, Crash, Writes
  <2>3. QED
    BY <1>1, <2>1, <2>2 DEF AloneInv, NothingHalfWritten
<1>10. QED
  BY <1>5, <1>6, <1>7, <1>8, <1>9 DEF Step

\* Every step of the only importer, and every edit, leaves whole files.
LEMMA AloneStep ==
  ASSUME TypeOK, WriterInv, AloneInv, \A p, q \in Importers : p = q, [Next]_vars
  PROVE  AloneInv'
<1>1. CASE UNCHANGED vars
  BY <1>1 DEF vars, AloneInv, NothingHalfWritten, Plan
<1>2. ASSUME NEW p \in Importers, Step(p)
      PROVE  AloneInv'
  BY <1>2, StepAlone
<1>3. QED
  BY <1>1, <1>2, EditsAlone DEF Next

\* "Changed files are replaced atomically" (imports.py, line 14) for one importer at a
\* time: whatever it copies, and wherever it is killed or fails, a copy holds whole files
\* only.  The run Imports_overlap shows why there must not be two.
THEOREM WholeWhenAlone ==
  ASSUME \A p, q \in Importers : p = q
  PROVE  Spec => []NothingHalfWritten
<1>1. TypeOK /\ WriterInv /\ AloneInv /\ [Next]_vars => AloneInv'
  BY AloneStep
<1>2. AloneInv => NothingHalfWritten
  BY DEF AloneInv
<1>3. QED
  BY <1>1, <1>2, InitAlone, TypesHold, WritersHold, PTL DEF Spec
----------------------------------------------------------------------------
(* What a successful run has copied: one importer at a time                *)

\* x is a directory on the way to y.
Above(x, y) == x # y /\ y \in Below(x)

\* Every source is a tree, and no entry is younger than the clock.
TreeInv ==
    /\ \A s \in Sources : host[s][Top].kind = "dir"
    /\ \A s \in Sources, x, y \in Paths : Above(x, y) /\ host[s][y].kind # "none" => host[s][x].kind = "dir"
    /\ \A s \in Sources, x \in Paths : host[s][x].time <= clock
    /\ \A n \in Names, x \in Paths : copy[n][x].time <= clock /\ tmp[n][x].time <= clock
    /\ \A p \in Importers : began[p] <= clock /\ file[p].time <= clock

\* A destination is marked while its importer has it open, and not while it is made.
MarkInv ==
    /\ \A n \in Names : copy[n][Top].kind = "none" => marker[n] = NoSource
    /\ \A p \in Importers :
          LET n == Plan(p).name IN
          /\ pc[p] = "open" => marker[n] = NoSource
          /\ pc[p] = "mark" /\ Open(p) => marker[n] = NoSource /\ copy[n][Top].kind # "none"
          /\ pc[p] \in {"walk", "fill", "rename"} /\ Open(p) => marker[n] = Plan(p).source

\* The modification time tells whether the original was rewritten.
AsOf(entry, original) ==
    original.kind = "file" /\ entry.time = original.time => entry.data = original.data

\* A file of a copy with the time of its original has its bytes, so does the temporary
\* file before its rename; and what an importer copies that did not change since its
\* run began is the file as it is.
FaithInv ==
    /\ \A n \in Names, s \in Sources, x \in Paths :
          copy[n][x].kind = "file" /\ marker[n] \in {s, NoSource} => AsOf(copy[n][x], host[s][x])
    /\ \A p \in Importers : pc[p] \in {"fill", "rename"} =>
          LET original  == host[Plan(p).source][file[p].path]
              temporary == tmp[Plan(p).name][file[p].path] IN
          /\ file[p].time <= original.time /\ AsOf(file[p], original)
          /\ original.kind = "file" /\ original.time <= began[p] => file[p].time = original.time
          /\ pc[p] = "rename" /\ temporary.kind = "file" =>
                temporary.time = file[p].time /\ AsOf(temporary, original)

\* What a successful run owes for a file that did not change since it began.
Settled(p, i, x) ==
    LET original == host[plans[p][i].source][x]
        copied   == copy[plans[p][i].name][x]
    IN  \/ copied.kind = "file" /\ copied.data = original.data
        \/ copied.time > began[p]
        \/ \E y \in Paths : /\ [name |-> plans[p][i].name, path |-> y] \in skipped[p]
                             /\ x \in Below(y)

\* The run has still to come to it.
Pending(p, i, x) ==
    \/ i > at[p]
    \/ i = at[p] /\ pc[p] \in {"claim", "open", "mark"}
    \/ /\ i = at[p] /\ pc[p] \in {"walk", "fill", "rename"}
       /\ \E j \in DOMAIN frames[p] : \E item \in frames[p][j].todo : x \in Below(item.path)
    \/ i = at[p] /\ pc[p] \in {"fill", "rename"} /\ file[p].path = x

\* A file of the plan that did not change since the run began.
Old(p, i, x) ==
    LET original == host[plans[p][i].source][x] IN original.kind = "file" /\ original.time <= began[p]

CopyInv ==
    \A p \in Importers : Busy(p) \/ pc[p] = "ok" =>
        /\ pc[p] = "ok" => ~More(p)
        /\ \A i \in DOMAIN plans[p], x \in Paths : Old(p, i, x) => Settled(p, i, x) \/ Pending(p, i, x)

\* Lying below is a partial order; the way from a directory to what lies below leads
\* through one of its entries.
LEMMA Ways ==
  /\ \A x \in Paths : x \in Below(x)
  /\ \A x, y, z \in Paths : y \in Below(x) /\ z \in Below(y) => z \in Below(x)
  /\ \A x, y \in Paths : Above(x, y) => Front(y) \in Paths /\ (x = Front(y) \/ Above(x, Front(y)))
  /\ \A x, y \in Paths : Above(x, y) => \E z \in Paths \ {Top} : Front(z) = x /\ y \in Below(z)
  /\ \A x, y \in Paths : Above(x, y) => ~(x \in Below(y))
<1>1. \A x \in Paths : x \in Seq(STRING) /\ Len(x) \in Nat /\ \A i \in 0..Len(x) : SubSeq(x, 1, i) \in Paths
  BY PathAssumption
<1>2. \A x \in Paths : x \in Below(x)
  BY <1>1 DEF Below, IsPrefix
<1>3. ASSUME NEW x \in Paths, NEW y \in Paths, y \in Below(x)
      PROVE  /\ Len(x) \in 0..Len(y) /\ x = SubSeq(y, 1, Len(x)) /\ \A i \in 1..Len(x) : x[i] = y[i]
             /\ x # y => Len(x) < Len(y)
  <2>1. Len(x) <= Len(y) /\ SubSeq(x, 1, Len(x)) = SubSeq(y, 1, Len(x)) /\ x = SubSeq(x, 1, Len(x))
    BY <1>1, <1>3 DEF Below, IsPrefix
  <2>2. \A i \in 1..Len(x) : SubSeq(y, 1, Len(x))[i] = y[i]
    <3>1. y \in Seq(STRING) /\ Len(x) \in Nat /\ Len(y) \in Nat
      BY <1>1
    <3>2. QED
      BY <2>1, <3>1
  <2>3. Len(x) = Len(y) => x = y
    <3>1. y \in Seq(STRING)
      BY <1>1
    <3>2. SubSeq(y, 1, Len(y)) = y
      BY <3>1
    <3>3. QED
      BY <2>1, <3>2
  <2>4. QED
    BY <1>1, <2>1, <2>2, <2>3
<1>4. ASSUME NEW x \in Paths, NEW y \in Paths, Len(x) <= Len(y), \A i \in 1..Len(x) : x[i] = y[i]
      PROVE  y \in Below(x)
  <2>1. SubSeq(x, 1, Len(x)) = SubSeq(y, 1, Len(x))
    BY <1>1, <1>4
  <2>2. QED
    BY <1>4, <2>1 DEF Below, IsPrefix
<1>5. \A x, y, z \in Paths : y \in Below(x) /\ z \in Below(y) => z \in Below(x)
  <2>1. SUFFICES ASSUME NEW x \in Paths, NEW y \in Paths, NEW z \in Paths, y \in Below(x), z \in Below(y)
                 PROVE  z \in Below(x)
    OBVIOUS
  <2>2. Len(x) <= Len(z) /\ \A i \in 1..Len(x) : x[i] = z[i]
    BY <1>1, <1>3, <2>1
  <2>3. QED
    BY <1>4, <2>2
<1>6. ASSUME NEW x \in Paths, NEW y \in Paths, Above(x, y)
      PROVE  /\ Front(y) \in Paths /\ (x = Front(y) \/ Above(x, Front(y)))
             /\ \E z \in Paths \ {Top} : Front(z) = x /\ y \in Below(z)
             /\ ~(x \in Below(y))
  <2>1. Len(x) < Len(y) /\ \A i \in 1..Len(x) : x[i] = y[i]
    BY <1>3, <1>6 DEF Above
  <2>2. /\ Front(y) \in Paths /\ Len(Front(y)) = Len(y) - 1
        /\ \A i \in 1..Len(y) - 1 : Front(y)[i] = y[i]
    <3>1. y \in Seq(STRING) /\ Len(x) \in Nat /\ Len(y) \in Nat /\ Len(y) - 1 \in 0..Len(y)
      BY <1>1, <2>1
    <3>2. Front(y) \in Paths
      BY <1>1, <3>1 DEF Front
    <3>3. \A i \in 1..Len(y) - 1 : y[i] \in STRING
      BY <3>1
    <3>4. /\ Len(Front(y)) = Len(y) - 1
          /\ \A i \in 1..Len(y) - 1 : Front(y)[i] = y[i]
      <4> DEFINE k == Len(y) - 1
      <4>2. k \in Nat /\ \A i \in 1..k : y[i] \in STRING
        BY <3>1, <3>3, <2>1
      <4> HIDE DEF k
      <4>3. /\ Len(SubSeq(y, 1, k)) = IF 1 <= k THEN k - 1 + 1 ELSE 0
            /\ \A i \in 1..k - 1 + 1 : SubSeq(y, 1, k)[i] = y[1 + i - 1]
        BY <4>2, SubSeqProperties
      <4>4. Len(SubSeq(y, 1, k)) = k /\ \A i \in 1..k : SubSeq(y, 1, k)[i] = y[i]
        BY <4>2, <4>3
      <4>5. QED
        BY <4>4 DEF k, Front
    <3>5. QED
      BY <3>2, <3>4
  <2>3. Front(y) \in Below(x)
    <3>1. Len(x) \in Nat /\ Len(y) \in Nat
      BY <1>1
    <3>2. Len(x) <= Len(Front(y)) /\ \A i \in 1..Len(x) : x[i] = Front(y)[i]
      BY <2>1, <2>2, <3>1
    <3>3. QED
      BY <1>4, <2>2, <3>2
  <2> DEFINE z == SubSeq(y, 1, Len(x) + 1)
  <2>4. /\ z \in Paths /\ Len(z) = Len(x) + 1 /\ \A i \in 1..Len(x) + 1 : z[i] = y[i]
    BY <1>1, <2>1
  <2>5. y \in Below(z) /\ z # Top
    <3>1. Len(x) \in Nat /\ Len(y) \in Nat /\ z \in Seq(STRING)
      BY <1>1, <2>4
    <3>2. Len(z) <= Len(y) /\ z # <<>>
      BY <2>1, <2>4, <3>1
    <3>3. \A i \in 1..Len(z) : z[i] = y[i]
      BY <2>4
    <3> HIDE DEF z
    <3>4. QED
      BY <1>4, <2>4, <3>2, <3>3 DEF Top
  <2>6. Front(z) = x
    <3>1. Front(z) = SubSeq(z, 1, Len(x))
      BY <1>1, <2>4 DEF Front
    <3>2. x \in Seq(STRING) /\ z \in Seq(STRING) /\ Len(x) \in Nat
      BY <1>1, <2>4
    <3>3. \A i \in 1..Len(x) : z[i] = x[i]
      BY <2>1, <2>4, <3>2
    <3>5. SubSeq(z, 1, Len(x)) = x
      BY <2>4, <3>2, <3>3
    <3>4. QED
      BY <3>1, <3>5
  <2>7. ~(x \in Below(y))
    BY <1>1, <1>3, <2>1
  <2>8. QED
    BY <2>2, <2>3, <2>4, <2>5, <2>6, <2>7 DEF Above
<1>7. QED
  BY <1>2, <1>5, <1>6

\* A file below a directory is reached through what scandir finds there.
LEMMA Reached ==
  ASSUME TypeOK, TreeInv, NEW s \in Sources, NEW x \in Paths, NEW y \in Paths, Above(x, y), host[s][y].kind = "file"
  PROVE  \E item \in Children(host[s], x) : y \in Below(item.path)
<1>1. PICK z \in Paths \ {Top} : Front(z) = x /\ y \in Below(z)
  BY Ways
<1>2. host[s][z].kind # "none"
  BY <1>1 DEF TreeInv, Above
<1>3. [path |-> z, kind |-> host[s][z].kind] \in Children(host[s], x)
  BY <1>1, <1>2 DEF Children
<1>4. QED
  BY <1>1, <1>3

\* An importer changes neither the host nor the clock, and only _claim writes a marker.
LEMMA DiskStep ==
  ASSUME NEW p \in Importers, Step(p)
  PROVE  host' = host /\ clock' = clock /\ (~Mark(p) => marker' = marker)
  BY DEF Step, Start, Claim, OpenDest, Mark, Claimed, Refuse, Skip, Unchanged, Look, Enter, Fill, Rename, Leave,
         Fails, Crash, disk

\* What the steps of a lone importer do to an entry of a copy.
LEMMA CopyStep ==
  ASSUME TypeOK, WriterInv, AloneInv, NEW p \in Importers, Step(p), NEW n \in Names, NEW x \in Paths
  PROVE  \/ copy'[n][x] = copy[n][x]
         \/ /\ copy[n][x].kind = "none" /\ copy'[n][x] = NewDir /\ n = Plan(p).name
            /\ (x = Top /\ Claim(p)) \/ \E item \in Item : Enter(p, item) /\ x = item.path
         \/ Rename(p) /\ n = Plan(p).name /\ x = file[p].path /\ copy'[n][x] = tmp[n][x]
<1>1. \A m \in Names, y \in Paths : ~Writes(p, copy[m][y])
  BY BoundAssumption DEF WriterInv, AloneInv, NothingHalfWritten, Writes, Times
<1>2. CASE Claim(p)
  BY <1>2 DEF Claim, TypeOK
<1>3. CASE Rename(p)
  BY <1>3 DEF Rename, TypeOK
<1>4. ASSUME NEW item \in Item, Enter(p, item), copy'[n][x] # copy[n][x]
      PROVE  copy[n][x].kind = "none" /\ copy'[n][x] = NewDir /\ n = Plan(p).name /\ x = item.path
  BY <1>4 DEF Enter, TypeOK
<1>5. CASE Fill(p) \/ Fails(p) \/ Crash(p)
  BY <1>1, <1>5, FillKeeps, AbandonKeeps DEF Fails, Crash, Writes
<1>6. CASE Start(p) \/ OpenDest(p) \/ Mark(p) \/ Claimed(p) \/ Refuse(p) \/ Leave(p)
           \/ \E item \in Item : Skip(p, item) \/ Unchanged(p, item) \/ Look(p, item)
  BY <1>6 DEF Start, OpenDest, Mark, Claimed, Refuse, Leave, Skip, Unchanged, Look, OpenTmp, disk
<1>7. QED
  BY <1>2, <1>3, <1>4, <1>5, <1>6 DEF Step

\* The time of a temporary file is that of the file it is a copy of.
LEMMA TmpStep ==
  ASSUME TypeOK, NEW p \in Importers, Step(p), NEW n \in Names, NEW x \in Paths
  PROVE  tmp'[n][x].time \in {tmp[n][x].time, 0, file[p].time}
<1>1. CASE Start(p) \/ Claim(p) \/ OpenDest(p) \/ Mark(p) \/ Claimed(p) \/ Refuse(p) \/ Leave(p)
           \/ \E item \in Item : Skip(p, item) \/ Unchanged(p, item) \/ Enter(p, item)
  BY <1>1 DEF Start, Claim, OpenDest, Mark, Claimed, Refuse, Leave, Skip, Unchanged, Enter, disk
<1>2. ASSUME NEW item \in Item, Look(p, item)
      PROVE  tmp'[n][x].time \in {tmp[n][x].time, 0}
  <2>1. tmp' = [tmp EXCEPT ![Plan(p).name][item.path] = [Missing(0) EXCEPT !.kind = "file", !.data = {p}]]
    BY <1>2 DEF Look, OpenTmp
  <2>2. tmp'[n][x] = tmp[n][x] \/ tmp'[n][x] = [Missing(0) EXCEPT !.kind = "file", !.data = {p}]
    BY <2>1 DEF TypeOK
  <2>3. QED
    BY <2>2 DEF Missing
<1>3. CASE Fill(p)
  <2>1. PICK data : tmp' = [m \in Names |-> [y \in Paths |-> Written(p, tmp[m][y], data)]]
    BY <1>3 DEF Fill
  <2>2. tmp'[n][x] = Written(p, tmp[n][x], data) /\ tmp[n][x] \in Entry
    BY <2>1 DEF TypeOK
  <2>3. QED
    BY <2>2 DEF Written, Stamp, Entry
<1>4. CASE Rename(p)
  BY <1>4 DEF Rename, Missing, TypeOK
<1>5. CASE Fails(p) \/ Crash(p)
  <2>1. \/ tmp' = Abandoned(p, tmp)
        \/ tmp' = [Abandoned(p, tmp) EXCEPT ![Plan(p).name][file[p].path] = Missing(0)]
    BY <1>5 DEF Fails, Crash
  <2>2. Abandoned(p, tmp)[n][x].time = tmp[n][x].time
    <3>1. tmp[n][x] \in Entry /\ Abandoned(p, tmp)[n][x] = [tmp[n][x] EXCEPT !.data = @ \ {p}]
      BY DEF Abandoned, TypeOK
    <3>2. QED
      BY <3>1 DEF Entry
  <2>3. \/ tmp'[n][x] = Abandoned(p, tmp)[n][x]
        \/ tmp'[n][x] = Missing(0)
    <3> DEFINE left == Abandoned(p, tmp)
    <3>1. left = [m \in Names |-> [y \in Paths |-> left[m][y]]]
      BY DEF Abandoned
    <3>2. \A t, a, b, e : t = [m \in Names |-> [y \in Paths |-> t[m][y]]]
             => [t EXCEPT ![a][b] = e][n][x] \in {t[n][x], e}
      OBVIOUS
    <3>3. [left EXCEPT ![Plan(p).name][file[p].path] = Missing(0)][n][x] \in {left[n][x], Missing(0)}
      BY <3>1, <3>2
    <3>4. QED
      BY <2>1, <3>3
  <2>4. QED
    BY <2>2, <2>3 DEF Missing
<1>6. QED
  BY <1>1, <1>2, <1>3, <1>4, <1>5 DEF Step

\* What a step of an importer does to the file it copies and to when its run began.
LEMMA FileStep ==
  ASSUME TypeOK, NEW p \in Importers, Step(p)
  PROVE  /\ began'[p] \in {began[p], clock}
         /\ \/ file'[p] \in {file[p], NoFile}
            \/ \E item \in Item :
                  /\ Look(p, item)
                  /\ file'[p] = [path |-> item.path, data |-> Source(p, item.path).data, time |-> Source(p, item.path).time]
<1>0. file = [q \in Importers |-> file[q]]
  BY DEF TypeOK
<1>1. began'[p] \in {began[p], clock}
  BY DEF TypeOK, Step, Start, Claim, OpenDest, Mark, Claimed, Refuse, Skip, Unchanged, Look, Enter, Fill, Rename, Leave,
         Fails, Crash, run
<1>2. CASE \E item \in Item : Look(p, item)
  <2>1. PICK item \in Item : Look(p, item)
    BY <1>2
  <2>2. file' = [file EXCEPT ![p] = [path |-> item.path, data |-> Source(p, item.path).data,
                                      time |-> Source(p, item.path).time]]
    BY <2>1 DEF Look
  <2>3. file'[p] = [path |-> item.path, data |-> Source(p, item.path).data, time |-> Source(p, item.path).time]
    BY <1>0, <2>2
  <2>4. QED
    BY <1>1, <2>1, <2>3
<1>3. CASE ~\E item \in Item : Look(p, item)
  <2>1. file' = file \/ file' = [file EXCEPT ![p] = NoFile]
    BY <1>3 DEF Step, Start, Claim, OpenDest, Mark, Claimed, Refuse, Skip, Unchanged, Enter, Fill, Rename, Leave,
         Fails, Crash, Ends
  <2>2. QED
    BY <1>0, <1>1, <2>1
<1>4. QED
  BY <1>2, <1>3

\* An edit of the host: entries it touches are younger than everything, and new ones have
\* their directory.
LEMMA HostEditTree ==
  ASSUME TypeOK, TreeInv, NEW s \in Sources, NEW x \in Paths, NEW kind \in Kinds, HostEdits(s, x, kind)
  PROVE  /\ \A r \in Sources, y \in Paths : host'[r][y] = host[r][y] \/ host'[r][y].time = clock'
         /\ \A r \in Sources : host'[r][Top].kind = "dir"
         /\ \A r \in Sources, y, z \in Paths :
               Above(y, z) /\ host'[r][z].kind # "none" => host'[r][y].kind = "dir"
<1>1. \A r \in Sources, y \in Paths :
         host'[r][y] = IF r # s \/ y \notin Below(x) THEN host[r][y]
                       ELSE IF y # x \/ kind = "none" THEN Missing(clock')
                       ELSE [kind |-> kind, data |-> {clock'}, time |-> clock']
  BY DEF HostEdits, Changed, TypeOK
<1>2. x # Top /\ host[s][Front(x)].kind = "dir"
  BY DEF HostEdits, Editable
<1>3. \A r \in Sources : host'[r][Top].kind = "dir"
  BY <1>1, <1>2, BelowTop, PathAssumption DEF TreeInv
<1>4. ASSUME NEW r \in Sources, NEW y \in Paths, NEW z \in Paths, Above(y, z), host'[r][z].kind # "none"
      PROVE  host'[r][y].kind = "dir"
  <2>1. CASE r # s \/ z \notin Below(x)
    <3>1. host'[r][z] = host[r][z] /\ host[r][y].kind = "dir"
      BY <1>1, <1>4, <2>1 DEF TreeInv
    <3>2. r # s \/ y \notin Below(x)
      BY <1>4, <2>1, Ways DEF Above
    <3>3. QED
      BY <1>1, <3>1, <3>2
  <2>2. CASE r = s /\ z \in Below(x)
    <3>1. z = x
      BY <1>1, <1>4, <2>2 DEF Missing
    <3>2. Front(x) \in Paths /\ (y = Front(x) \/ Above(y, Front(x))) /\ ~(y \in Below(x))
      BY <1>4, <3>1, Ways
    <3>3. host[s][y].kind = "dir"
      BY <1>2, <3>2 DEF TreeInv
    <3>4. QED
      BY <1>1, <2>2, <3>2, <3>3
  <2>3. QED
    BY <2>1, <2>2
<1>5. QED
  BY <1>1, <1>3, <1>4 DEF Missing

\* An edit of a copy: entries it touches are younger than everything.
LEMMA UserEditTimes ==
  ASSUME TypeOK, NEW n \in Names, NEW x \in Paths, NEW kind \in Kinds, UserEdits(n, x, kind)
  PROVE  /\ \A m \in Names, y \in Paths :
               /\ \/ copy'[m][y] = copy[m][y] /\ (marker'[m] = marker[m])
                  \/ copy'[m][y].time = clock'
               /\ tmp'[m][y] = tmp[m][y] \/ tmp'[m][y] = Missing(0)
         /\ \A m \in Names : m # n \/ x # Top => copy'[m][Top] = copy[m][Top] /\ marker'[m] = marker[m]
         /\ x = Top => marker'[n] = NoSource
<1>1. \A m \in Names, y \in Paths :
         copy'[m][y] = IF m # n \/ y \notin Below(x) THEN copy[m][y]
                       ELSE IF y # x \/ kind = "none" THEN Missing(clock')
                       ELSE [kind |-> kind, data |-> {clock'}, time |-> clock']
  BY DEF UserEdits, Changed, TypeOK
<1>2. \A m \in Names : marker'[m] = IF m = n /\ x = Top THEN NoSource ELSE marker[m]
  BY DEF UserEdits, TypeOK
<1>3. \A m \in Names, y \in Paths : tmp'[m][y] = tmp[m][y] \/ tmp'[m][y] = Missing(0)
  BY DEF UserEdits, TypeOK
<1>4. \A m \in Names, y \in Paths :
         \/ copy'[m][y] = copy[m][y] /\ marker'[m] = marker[m]
         \/ copy'[m][y].time = clock'
  BY <1>1, <1>2, BelowTop DEF Missing
<1>5. \A m \in Names : m # n \/ x # Top => copy'[m][Top] = copy[m][Top] /\ marker'[m] = marker[m]
  BY <1>1, <1>2, BelowTop, PathAssumption
<1>6. QED
  BY <1>2, <1>3, <1>4, <1>5

\* An edit moves the clock.
LEMMA Tick ==
  ASSUME TypeOK, \/ \E s \in Sources, x \in Paths, kind \in Kinds : HostEdits(s, x, kind)
                 \/ \E n \in Names, x \in Paths, kind \in Kinds : UserEdits(n, x, kind)
  PROVE  clock \in Nat /\ clock' = clock + 1
  BY BoundAssumption DEF HostEdits, UserEdits, TypeOK, Times

\* Every step keeps the sources trees and nothing younger than the clock.
LEMMA TreeStep ==
  ASSUME TypeOK, WriterInv, AloneInv, TreeInv, \A p, q \in Importers : p = q, [Next]_vars
  PROVE  TreeInv'
<1>1. CASE UNCHANGED vars
  BY <1>1 DEF vars, TreeInv
<1>2. /\ clock \in Int /\ \A s \in Sources, x \in Paths : host[s][x].time \in Int
      /\ \A n \in Names, x \in Paths : copy[n][x].time \in Int /\ tmp[n][x].time \in Int
      /\ \A p \in Importers : began[p] \in Int /\ file[p].time \in Int
  BY BoundAssumption DEF TypeOK, Entry, Times
<1>3. ASSUME NEW s \in Sources, NEW x \in Paths, NEW kind \in Kinds, HostEdits(s, x, kind)
      PROVE  TreeInv'
  <2>1. clock' = clock + 1 /\ UNCHANGED <<copy, tmp, file, began>>
    BY <1>3, Tick DEF HostEdits, run
  <2>2. \A r \in Sources, y \in Paths : host'[r][y].time <= clock'
    BY <1>2, <1>3, <2>1, HostEditTree DEF TreeInv
  <2>3. QED
    BY <1>2, <1>3, <2>1, <2>2, HostEditTree DEF TreeInv, Above
<1>4. ASSUME NEW n \in Names, NEW x \in Paths, NEW kind \in Kinds, UserEdits(n, x, kind)
      PROVE  TreeInv'
  <2>1. clock' = clock + 1 /\ UNCHANGED <<host, file, began>> /\ clock \in Nat
    BY <1>4, Tick DEF UserEdits, run
  <2>2. \A m \in Names, y \in Paths : copy'[m][y].time <= clock' /\ tmp'[m][y].time <= clock'
    BY <1>2, <1>4, <2>1, UserEditTimes DEF TreeInv, Missing
  <2>3. QED
    BY <1>2, <2>1, <2>2 DEF TreeInv, Above
<1>5. ASSUME NEW p \in Importers, Step(p)
      PROVE  TreeInv'
  <2>1. host' = host /\ clock' = clock /\ Importers = {p} /\ clock \in Nat
    BY <1>5, DiskStep, BoundAssumption DEF TypeOK, Times
  <2>2. \A n \in Names, x \in Paths : tmp'[n][x].time <= clock'
    BY <1>2, <1>5, <2>1, TmpStep DEF TreeInv
  <2>3. \A n \in Names, x \in Paths : copy'[n][x].time <= clock'
    BY <1>2, <1>5, <2>1, CopyStep DEF TreeInv, NewDir
  <2>4. began'[p] <= clock' /\ file'[p].time <= clock'
    <3>1. \A item \in Item : Look(p, item) => Source(p, item.path).time <= clock
      <4>1. ASSUME NEW item \in Item, Look(p, item)
            PROVE  Source(p, item.path).time <= clock
        <5>1. Plan(p).source \in Sources /\ item.path \in Paths
          BY <4>1, PlanType DEF Look, Walking, Busy, Idle, Item
        <5>2. QED
          BY <2>1, <5>1 DEF Source, Missing, TreeInv
      <4>2. QED
        BY <4>1
    <3>2. QED
      <4>1. began[p] <= clock /\ file[p].time <= clock
        BY DEF TreeInv
      <4>2. NoFile.time = 0
        BY DEF NoFile
      <4>3. began'[p] <= clock
        BY <1>2, <1>5, <4>1, FileStep
      <4>4. file'[p].time <= clock
        <5>1. CASE file'[p] \in {file[p], NoFile}
          BY <2>1, <4>1, <4>2, <5>1
        <5>2. CASE file'[p] \notin {file[p], NoFile}
          <6>1. PICK item \in Item :
                   /\ Look(p, item)
                   /\ file'[p] = [path |-> item.path, data |-> Source(p, item.path).data,
                                   time |-> Source(p, item.path).time]
            BY <1>5, <5>2, FileStep
          <6>2. QED
            BY <3>1, <6>1
        <5>3. QED
          BY <5>1, <5>2
      <4>5. QED
        BY <2>1, <4>3, <4>4
  <2>5. QED
    BY <2>1, <2>2, <2>3, <2>4 DEF TreeInv, Above
<1>6. QED
  BY <1>1, <1>3, <1>4, <1>5 DEF Next

\* The places an importer's steps lead to.
LEMMA PlaceStep ==
  ASSUME TypeOK, NEW p \in Importers, Step(p)
  PROVE  /\ pc'[p] = "open" => Claim(p)
         /\ pc'[p] = "mark" => OpenDest(p)
         /\ pc'[p] \in {"walk", "fill", "rename"} =>
              \/ Mark(p) \/ Claimed(p)
              \/ /\ pc[p] \in {"walk", "fill", "rename"} /\ Plan(p)' = Plan(p) /\ marker' = marker
                 /\ Open(p)' => Open(p)
<1>1. CASE Start(p) \/ Claim(p) \/ OpenDest(p) \/ Mark(p) \/ Claimed(p) \/ Refuse(p) \/ Fails(p) \/ Crash(p)
  BY <1>1 DEF Start, Claim, OpenDest, Mark, Claimed, Refuse, Fails, Crash, Ends, Goes, TypeOK
<1>2. ASSUME NEW item \in Item, Skip(p, item) \/ Unchanged(p, item) \/ Look(p, item) \/ Enter(p, item)
      PROVE  pc[p] = "walk" /\ pc'[p] \in {"walk", "fill"} /\ Plan(p)' = Plan(p) /\ marker' = marker /\ (Open(p)' => Open(p))
  <2>1. pc[p] = "walk" /\ Plan(p)' = Plan(p) /\ marker' = marker
    BY <1>2 DEF Skip, Unchanged, Look, Enter, Walking, disk, run, Plan
  <2>2. pc'[p] \in {"walk", "fill"}
    BY <1>2, <2>1 DEF Skip, Unchanged, Look, Enter, Goes, TypeOK
  <2>3. Open(p)' => Open(p)
    BY <1>2, OpenStep DEF Skip, Unchanged, Look
  <2>4. QED
    BY <2>1, <2>2, <2>3
<1>3. CASE Fill(p) \/ Rename(p)
  <2>1. /\ pc[p] \in {"fill", "rename"} /\ pc'[p] \in {"rename", "walk"} /\ Plan(p)' = Plan(p)
        /\ marker' = marker /\ frames' = frames
    BY <1>3 DEF Fill, Rename, Goes, run, Plan, TypeOK
  <2>2. QED
    BY <2>1 DEF Open
<1>4. CASE Leave(p)
  <2>1. pc[p] = "walk" /\ marker' = marker
    BY <1>4 DEF Leave, disk
  <2>2. CASE Len(frames[p]) > 1
    <3>1. pc' = pc /\ Plan(p)' = Plan(p)
      BY <1>4, <2>2 DEF Leave, Plan
    <3>2. QED
      BY <1>4, <2>1, <3>1, OpenStep
  <2>3. CASE ~(Len(frames[p]) > 1)
    BY <1>4, <2>3 DEF Leave, Goes, TypeOK
  <2>4. QED
    BY <2>2, <2>3
<1>5. QED
  BY <1>1, <1>2, <1>3, <1>4 DEF Step

\* The directory at hand is open in the copy.
LEMMA HereOpen ==
  ASSUME TypeOK, NEW p \in Importers, pc[p] \in {"mark", "walk", "fill", "rename"}, Here(p).dst
  PROVE  Open(p)
<1>1. frames[p] \in Seq(Frame) /\ Len(frames[p]) \in DOMAIN frames[p]
  BY DEF TypeOK
<1>2. QED
  BY <1>1 DEF Open, Here

\* Every step keeps destinations and markers together.
LEMMA MarkStep ==
  ASSUME TypeOK, WriterInv, AloneInv, MarkInv, \A p, q \in Importers : p = q, [Next]_vars
  PROVE  MarkInv'
<1>1. CASE UNCHANGED vars
  BY <1>1 DEF vars, MarkInv, Open, Plan
<1>2. ASSUME NEW s \in Sources, NEW x \in Paths, NEW kind \in Kinds, HostEdits(s, x, kind)
      PROVE  MarkInv'
  <2>1. UNCHANGED <<copy, marker, pc>> /\ \A p \in Importers : Plan(p)' = Plan(p)
    BY <1>2 DEF HostEdits, run, Plan
  <2>2. QED
    BY <1>2, <2>1, OpenHostEdit DEF MarkInv
<1>3. ASSUME NEW n \in Names, NEW x \in Paths, NEW kind \in Kinds, UserEdits(n, x, kind)
      PROVE  MarkInv'
  <2>1. pc' = pc /\ \A p \in Importers : Plan(p)' = Plan(p)
    BY <1>3 DEF UserEdits, run, Plan
  <2>2. /\ \A m \in Names : m # n \/ x # Top => copy'[m][Top] = copy[m][Top] /\ marker'[m] = marker[m]
        /\ x = Top => marker'[n] = NoSource
        /\ \A p \in Importers : (Open(p)' => Open(p)) /\ (x = Top /\ Plan(p).name = n => ~Open(p)')
    BY <1>3, UserEditTimes, OpenEdit
  <2>3. \A p \in Importers : Busy(p) => Plan(p).name \in Names
    BY PlanType
  <2>4. \A m \in Names : copy'[m][Top].kind = "none" => marker'[m] = NoSource
    BY <2>2 DEF MarkInv
  <2>5. ASSUME NEW p \in Importers
        PROVE  LET m == Plan(p).name IN
               /\ pc[p] = "open" => marker'[m] = NoSource
               /\ pc[p] = "mark" /\ Open(p)' => marker'[m] = NoSource /\ copy'[m][Top].kind # "none"
               /\ pc[p] \in {"walk", "fill", "rename"} /\ Open(p)' => marker'[m] = Plan(p).source
    BY <2>2, <2>3 DEF MarkInv, Busy, Idle
  <2>6. QED
    BY <2>1, <2>4, <2>5 DEF MarkInv
<1>4. ASSUME NEW p \in Importers, Step(p)
      PROVE  MarkInv'
  <2>1. Importers = {p} /\ Top \in Paths
    BY PathAssumption
  <2>2. \A n \in Names : copy'[n][Top].kind = "none" => copy[n][Top].kind = "none"
    BY <1>4, <2>1, CopyStep DEF NewDir, Rename, Replaceable
  <2>3. Mark(p) => /\ pc[p] = "mark" /\ Open(p) /\ copy' = copy /\ Plan(p)' = Plan(p) /\ pc'[p] = "walk"
                   /\ Plan(p).name \in Names /\ marker'[Plan(p).name] = Plan(p).source
                   /\ \A n \in Names \ {Plan(p).name} : marker'[n] = marker[n]
    <3>1. SUFFICES ASSUME Mark(p)
                   PROVE  /\ pc[p] = "mark" /\ Open(p) /\ copy' = copy /\ Plan(p)' = Plan(p) /\ pc'[p] = "walk"
                          /\ Plan(p).name \in Names /\ marker'[Plan(p).name] = Plan(p).source
                          /\ \A n \in Names \ {Plan(p).name} : marker'[n] = marker[n]
      OBVIOUS
    <3>2. /\ pc[p] = "mark" /\ Here(p).dst /\ copy' = copy /\ Plan(p)' = Plan(p)
          /\ marker' = [marker EXCEPT ![Plan(p).name] = Plan(p).source] /\ pc' = [pc EXCEPT ![p] = "walk"]
      BY <3>1 DEF Mark, run, Plan, Goes
    <3>3. Plan(p).name \in Names /\ Open(p)
      BY <3>2, PlanType, HereOpen DEF Busy, Idle
    <3>4. QED
      BY <3>2, <3>3 DEF TypeOK
  <2>4. \A n \in Names : copy'[n][Top].kind = "none" => marker'[n] = NoSource
    BY <1>4, <2>2, <2>3, DiskStep DEF MarkInv
  <2>5. Claim(p) => marker'[Plan(p).name] = NoSource /\ Plan(p)' = Plan(p)
    BY PlanType DEF Claim, Busy, Idle, MarkInv, run, Plan
  <2>6. OpenDest(p) => /\ marker'[Plan(p).name] = NoSource /\ Plan(p)' = Plan(p)
                       /\ copy'[Plan(p).name][Top].kind # "none"
    BY DEF OpenDest, MarkInv, run, Plan, disk
  <2>7. Claimed(p) => marker'[Plan(p).name] = Plan(p).source /\ Plan(p)' = Plan(p)
    BY DEF Claimed, Ours, run, Plan, disk
  <2>8. LET n == Plan(p)'.name IN
        /\ pc'[p] = "open" => marker'[n] = NoSource
        /\ pc'[p] = "mark" => marker'[n] = NoSource /\ copy'[n][Top].kind # "none"
        /\ pc'[p] \in {"walk", "fill", "rename"} /\ Open(p)' => marker'[n] = Plan(p)'.source
    BY <1>4, <2>3, <2>5, <2>6, <2>7, PlaceStep DEF MarkInv
  <2>9. QED
    BY <2>1, <2>4, <2>8 DEF MarkInv
<1>5. QED
  BY <1>1, <1>2, <1>3, <1>4 DEF Next

\* Every step keeps the files of a copy true to their times.
LEMMA FaithStep ==
  ASSUME TypeOK, WriterInv, AloneInv, TreeInv, MarkInv, FaithInv, \A p, q \in Importers : p = q, [Next]_vars
  PROVE  FaithInv'
<1>1. CASE UNCHANGED vars
  BY <1>1 DEF vars, FaithInv, Plan
<1>2. /\ clock \in Int /\ \A s \in Sources, x \in Paths : host[s][x].time \in Int
      /\ \A n \in Names, x \in Paths : copy[n][x].time \in Int /\ tmp[n][x].time \in Int
      /\ \A p \in Importers : began[p] \in Int /\ file[p].time \in Int /\ file[p].path \in Paths
      /\ \A p \in Importers : pc[p] \in {"fill", "rename"} => Plan(p) \in [source : Sources, name : Names]
  <2>1. \A p \in Importers : pc[p] \in {"fill", "rename"} => Plan(p) \in [source : Sources, name : Names]
    BY PlanType DEF Busy, Idle
  <2>2. QED
    BY <2>1, BoundAssumption DEF TypeOK, Entry, Times
<1>3. ASSUME NEW s \in Sources, NEW x \in Paths, NEW kind \in Kinds, HostEdits(s, x, kind)
      PROVE  FaithInv'
  <2>1. /\ clock' = clock + 1 /\ UNCHANGED <<copy, tmp, marker, pc, file, began>>
        /\ \A p \in Importers : Plan(p)' = Plan(p)
    BY <1>3, Tick DEF HostEdits, run, Plan
  <2>2. \A r \in Sources, y \in Paths : host'[r][y] = host[r][y] \/ host'[r][y].time = clock + 1
    BY <1>3, <2>1, HostEditTree
  <2>3. \A n \in Names, r \in Sources, y \in Paths :
           copy[n][y].kind = "file" /\ marker[n] \in {r, NoSource} => AsOf(copy[n][y], host'[r][y])
    BY <1>2, <2>2 DEF FaithInv, TreeInv, AsOf
  <2>4. ASSUME NEW p \in Importers, pc[p] \in {"fill", "rename"}
        PROVE  LET original  == host'[Plan(p).source][file[p].path]
                   temporary == tmp[Plan(p).name][file[p].path] IN
               /\ file[p].time <= original.time /\ AsOf(file[p], original)
               /\ original.kind = "file" /\ original.time <= began[p] => file[p].time = original.time
               /\ pc[p] = "rename" /\ temporary.kind = "file" =>
                     temporary.time = file[p].time /\ AsOf(temporary, original)
    <3> DEFINE original  == host'[Plan(p).source][file[p].path]
               temporary == tmp[Plan(p).name][file[p].path]
    <3>1. original = host[Plan(p).source][file[p].path] \/ original.time = clock + 1
      BY <1>2, <2>2, <2>4
    <3>2. CASE original = host[Plan(p).source][file[p].path]
      BY <2>4, <3>2 DEF FaithInv
    <3>3. CASE original.time = clock + 1
      <4>1. /\ file[p].time <= clock /\ began[p] <= clock
            /\ pc[p] = "rename" /\ temporary.kind = "file" => temporary.time = file[p].time
        BY <2>4 DEF FaithInv, TreeInv
      <4>2. QED
        BY <1>2, <3>3, <4>1 DEF AsOf
    <3>4. QED
      BY <3>1, <3>2, <3>3
  <2>5. QED
    BY <2>1, <2>3, <2>4 DEF FaithInv
<1>4. ASSUME NEW n \in Names, NEW x \in Paths, NEW kind \in Kinds, UserEdits(n, x, kind)
      PROVE  FaithInv'
  <2>1. /\ clock' = clock + 1 /\ UNCHANGED <<host, pc, file, began>>
        /\ \A p \in Importers : Plan(p)' = Plan(p)
    BY <1>4, Tick DEF UserEdits, run, Plan
  <2>2. ASSUME NEW m \in Names, NEW r \in Sources, NEW y \in Paths,
               copy'[m][y].kind = "file", marker'[m] \in {r, NoSource}
        PROVE  AsOf(copy'[m][y], host[r][y])
    <3>1. CASE copy'[m][y] = copy[m][y] /\ marker'[m] = marker[m]
      BY <2>2, <3>1 DEF FaithInv
    <3>2. CASE copy'[m][y].time = clock + 1
      BY <1>2, <3>2 DEF TreeInv, AsOf
    <3>3. QED
      BY <1>4, <2>1, <3>1, <3>2, UserEditTimes
  <2>3. ASSUME NEW p \in Importers, pc[p] \in {"fill", "rename"}
        PROVE  LET temporary == tmp[Plan(p).name][file[p].path]
               IN  \/ temporary' = temporary
                   \/ tmp'[Plan(p).name][file[p].path].kind = "none"
    <3>1. \A m \in Names, y \in Paths : tmp'[m][y] = tmp[m][y] \/ tmp'[m][y].kind = "none"
      BY <1>4, UserEditTimes DEF Missing
    <3>2. QED
      BY <1>2, <2>1, <2>3, <3>1
  <2>4. QED
    BY <2>1, <2>2, <2>3 DEF FaithInv
<1>5. ASSUME NEW p \in Importers, Step(p)
      PROVE  FaithInv'
  <2>1. host' = host /\ Importers = {p} /\ (~Mark(p) => marker' = marker)
    BY <1>5, DiskStep
  <2>2. ASSUME NEW n \in Names, NEW s \in Sources, NEW x \in Paths,
               copy'[n][x].kind = "file", marker'[n] \in {s, NoSource}
        PROVE  AsOf(copy'[n][x], host[s][x])
    <3>1. CASE copy'[n][x] = copy[n][x]
      <4>1. CASE ~Mark(p)
        BY <2>1, <2>2, <3>1, <4>1 DEF FaithInv
      <4>2. CASE Mark(p)
        <5>1. pc[p] = "mark" /\ Here(p).dst /\ marker' = [marker EXCEPT ![Plan(p).name] = Plan(p).source]
          BY <4>2 DEF Mark
        <5>2. Open(p)
          BY <5>1, HereOpen
        <5>3. marker[Plan(p).name] = NoSource
          BY <5>1, <5>2 DEF MarkInv
        <5>4. marker[n] \in {s, NoSource}
          BY <2>2, <5>1, <5>3 DEF TypeOK
        <5>5. QED
          BY <2>2, <3>1, <5>4 DEF FaithInv
      <4>3. QED
        BY <4>1, <4>2
    <3>2. CASE Rename(p) /\ n = Plan(p).name /\ x = file[p].path /\ copy'[n][x] = tmp[n][x]
      <4>1. pc[p] = "rename" /\ Here(p).dst /\ tmp[n][x].kind = "file" /\ marker' = marker
        BY <3>2 DEF Rename, Replaceable
      <4>2. marker[n] = Plan(p).source /\ Plan(p).source \in Sources
        BY <1>2, <3>2, <4>1, HereOpen DEF MarkInv
      <4>3. s = Plan(p).source
        BY <2>2, <4>1, <4>2, BoundAssumption
      <4>4. QED
        BY <3>2, <4>1, <4>3 DEF FaithInv
    <3>3. QED
      BY <1>5, <2>1, <2>2, <3>1, <3>2, CopyStep DEF NewDir
  <2>3. CASE Fill(p)
    <3>1. /\ pc[p] = "fill" /\ pc'[p] = "rename" /\ file' = file /\ Plan(p)' = Plan(p) /\ began' = began
      BY <2>3 DEF Fill, Goes, run, Plan, TypeOK
    <3> DEFINE original  == host[Plan(p).source][file[p].path]
               temporary == tmp[Plan(p).name][file[p].path]
    <3>2. PICK data :
            /\ data \in {file[p].data} \cup (IF original.kind = "file" THEN {original.data, file[p].data \cup original.data} ELSE {})
            /\ tmp' = [n \in Names |-> [x \in Paths |-> Written(p, tmp[n][x], data)]]
      BY <2>3 DEF Fill
    <3>3. /\ tmp'[Plan(p).name][file[p].path] = Written(p, temporary, data) /\ temporary \in Entry
      BY <1>2, <3>1, <3>2 DEF TypeOK
    <3>4. tmp'[Plan(p).name][file[p].path].kind = temporary.kind
      BY <3>3 DEF Written, Entry
    <3>5. temporary.kind = "file" => p \in temporary.data
      BY <3>1 DEF AloneInv
    <3>6. temporary.kind = "file" =>
             /\ tmp'[Plan(p).name][file[p].path].data = data
             /\ tmp'[Plan(p).name][file[p].path].time = file[p].time
      BY <3>3, <3>5 DEF Written, Stamp, Entry
    <3>7. file[p].time <= original.time /\ AsOf(file[p], original)
          /\ (original.kind = "file" /\ original.time <= began[p] => file[p].time = original.time)
      BY <3>1 DEF FaithInv
    <3>8. original.kind = "file" /\ file[p].time = original.time => data = original.data
      BY <3>2, <3>7 DEF AsOf
    <3>9. QED
      BY <2>1, <2>2, <3>1, <3>4, <3>6, <3>7, <3>8 DEF FaithInv, AsOf
  <2>4. ASSUME NEW item \in Item, Look(p, item)
        PROVE  FaithInv'
    <3>1. /\ pc[p] = "walk" /\ pc'[p] = "fill" /\ Plan(p)' = Plan(p) /\ began' = began
          /\ Source(p, item.path).kind = "file"
          /\ file'[p] = [path |-> item.path, data |-> Source(p, item.path).data, time |-> Source(p, item.path).time]
      BY <2>4 DEF Look, Walking, Found, Goes, run, Plan, TypeOK
    <3>2. Source(p, item.path) = host[Plan(p).source][item.path]
      BY <3>1 DEF Source, Missing
    <3>3. Plan(p) \in [source : Sources, name : Names] /\ item.path \in Paths
      BY <3>1, PlanType DEF Busy, Idle, Item
    <3>4. host[Plan(p).source][item.path].time \in Int
      BY <1>2, <3>3
    <3>5. QED
      BY <2>1, <2>2, <3>1, <3>2, <3>4 DEF FaithInv, AsOf
  <2>5. CASE Start(p) \/ Claim(p) \/ OpenDest(p) \/ Mark(p) \/ Claimed(p) \/ Refuse(p) \/ Leave(p)
             \/ \E item \in Item : Skip(p, item) \/ Unchanged(p, item) \/ Enter(p, item)
    <3>1. pc'[p] \notin {"fill", "rename"}
      BY <2>5 DEF Start, Claim, OpenDest, Mark, Claimed, Refuse, Leave, Skip, Unchanged, Enter, Walking, Goes, Ends, TypeOK
    <3>2. QED
      BY <2>1, <2>2, <3>1 DEF FaithInv
  <2>6. CASE Rename(p) \/ Fails(p) \/ Crash(p)
    <3>1. pc'[p] \notin {"fill", "rename"}
      BY <2>6 DEF Rename, Fails, Crash, Goes, Ends, TypeOK
    <3>2. QED
      BY <2>1, <2>2, <3>1 DEF FaithInv
  <2>7. QED
    BY <1>5, <2>3, <2>4, <2>5, <2>6 DEF Step
<1>6. QED
  BY <1>1, <1>3, <1>4, <1>5 DEF Next

\* A destination is named once in a plan.
LEMMA SameIndex ==
  ASSUME TypeOK, NEW p \in Importers, Busy(p), NEW i \in DOMAIN plans[p], plans[p][i].name = Plan(p).name
  PROVE  i = at[p]
<1>1. plans[p] \in Plans /\ at[p] \in DOMAIN plans[p]
  BY DEF TypeOK
<1>2. QED
  BY <1>1, PlanAssumption DEF Plan

\* The plans a run was given.
LEMMA PlansType ==
  ASSUME TypeOK, NEW p \in Importers, NEW i \in DOMAIN plans[p]
  PROVE  /\ plans[p] \in Seq([source : Sources, name : Names]) /\ i \in Nat \ {0} /\ i <= Len(plans[p])
         /\ plans[p][i].source \in Sources /\ plans[p][i].name \in Names
<1>1. plans[p] \in Seq([source : Sources, name : Names])
  BY PlanAssumption, EmptySeq DEF TypeOK
<1>2. i \in 1..Len(plans[p]) /\ Len(plans[p]) \in Nat
  BY <1>1
<1>3. plans[p][i] \in [source : Sources, name : Names]
  BY <1>1, <1>2, ElementOfSeq
<1>4. QED
  BY <1>1, <1>2, <1>3

\* The temporary file of a file that did not change since the run began is the file.
LEMMA RenameSettles ==
  ASSUME TypeOK, FaithInv, NEW p \in Importers, Rename(p), NEW i \in DOMAIN plans[p], i = at[p],
         NEW x, x = file[p].path, Old(p, i, x)
  PROVE  Settled(p, i, x)'
<1> DEFINE original == host[Plan(p).source][x]
<1>1. /\ pc[p] = "rename" /\ tmp[Plan(p).name][x].kind = "file" /\ host' = host /\ plans' = plans
      /\ copy' = [copy EXCEPT ![Plan(p).name][x] = tmp[Plan(p).name][x]]
  BY DEF Rename, Replaceable, run
<1>2. Plan(p) \in [source : Sources, name : Names] /\ x \in Paths /\ plans[p][i] = Plan(p)
  BY <1>1, PlanType DEF Busy, Idle, TypeOK, Plan
<1>3. copy'[Plan(p).name][x] = tmp[Plan(p).name][x]
  BY <1>1, <1>2 DEF TypeOK
<1>4. original.kind = "file" /\ original.time <= began[p]
  BY <1>2 DEF Old
<1>5. tmp[Plan(p).name][x].data = original.data
  BY <1>1, <1>4 DEF FaithInv, AsOf
<1>6. QED
  BY <1>1, <1>2, <1>3, <1>5 DEF Settled

\* What is settled stays settled while the run goes on.
LEMMA SettledStays ==
  ASSUME TypeOK, WriterInv, AloneInv, TreeInv, FaithInv, NEW p \in Importers, Importers = {p}, Step(p), ~Start(p), Busy(p),
         NEW i \in DOMAIN plans[p], NEW x \in Paths, Old(p, i, x), Settled(p, i, x)
  PROVE  Settled(p, i, x)'
<1>1. plans' = plans /\ began' = began /\ host' = host /\ skipped[p] \subseteq skipped'[p]
  <2>1. host' = host
    BY DiskStep
  <2>2. plans' = plans /\ began' = began
    BY DEF Step, Claim, OpenDest, Mark, Claimed, Refuse, Skip, Unchanged, Look, Enter, Fill, Rename, Leave, Fails, Crash, run
  <2>3. (\A item \in Item : ~Skip(p, item)) => skipped' = skipped
    BY DEF Step, Claim, OpenDest, Mark, Claimed, Refuse, Unchanged, Look, Enter, Fill, Rename, Leave, Fails, Crash
  <2>4. \A item \in Item : Skip(p, item) => skipped[p] \subseteq skipped'[p]
    BY DEF Skip, TypeOK
  <2>5. QED
    BY <2>1, <2>2, <2>3, <2>4
<1>2. plans[p][i].source \in Sources /\ plans[p][i].name \in Names
  BY PlansType
<1> DEFINE n == plans[p][i].name
<1>3. CASE copy'[n][x] = copy[n][x]
  BY <1>1, <1>3 DEF Settled
<1>4. CASE n = Plan(p).name /\ copy'[n][x] # copy[n][x]
  <2>1. i = at[p] /\ plans[p][i] = Plan(p)
    BY <1>4, SameIndex DEF Plan
  <2>2. CASE Claim(p) /\ x = Top
    BY <1>2, <2>2 DEF Old, TreeInv
  <2>3. ASSUME NEW item \in Item, Enter(p, item), x = item.path
        PROVE  FALSE
    <3>1. Source(p, x).kind = "dir"
      BY <2>3 DEF Enter, Found
    <3>2. host[Plan(p).source][x].kind = "dir"
      BY <3>1 DEF Source, Missing
    <3>3. QED
      BY <2>1, <3>2 DEF Old
  <2>4. CASE Rename(p) /\ x = file[p].path
    BY <2>1, <2>4, RenameSettles
  <2>5. QED
    BY <1>2, <1>4, <2>2, <2>3, <2>4, CopyStep
<1>5. QED
  BY <1>2, <1>3, <1>4, CopyStep

\* Working on an entry leaves the others in their lists.
LEMMA Listed ==
  ASSUME TypeOK, NEW p \in Importers, pc[p] = "walk", NEW item, NEW x,
         NEW j \in DOMAIN frames[p], NEW other \in frames[p][j].todo, x \in Below(other.path), other # item,
         Done(p, item) \/ Enter(p, item)
  PROVE  \E k \in DOMAIN frames'[p] : \E it \in frames'[p][k].todo : x \in Below(it.path)
<1> DEFINE len  == Len(frames[p])
           rest == [frames[p] EXCEPT ![len].todo = @ \ {item}]
<1>1. frames[p] \in Seq(Frame) /\ len \in DOMAIN frames[p] /\ \A k \in DOMAIN frames[p] : frames[p][k] \in Frame
  BY DEF TypeOK
<1>2. rest \in Seq(Frame) /\ Len(rest) = len
  <2>1. rest \in Seq(Frame)
    <3>1. frames[p] # <<>>
      BY DEF TypeOK
    <3>2. QED
      BY <1>1, <3>1, DoneType
  <2>2. DOMAIN rest = DOMAIN frames[p]
    OBVIOUS
  <2>3. QED
    BY <1>1, <2>1, <2>2
<1>3. other \in rest[j].todo
  BY <1>1 DEF Frame
<1>4. CASE Done(p, item)
  <2>1. frames'[p] = rest
    BY <1>4 DEF Done, TypeOK
  <2>2. QED
    BY <1>1, <1>2, <1>3, <2>1
<1>5. CASE Enter(p, item)
  <2>1. PICK frame \in {[path |-> item.path, todo |-> Children(host[Plan(p).source], item.path), src |-> TRUE, dst |-> TRUE]} :
           frames' = [frames EXCEPT ![p] = Append(rest, frame)]
    BY <1>5 DEF Enter
  <2>2. frames'[p] = Append(rest, frame)
    BY <2>1 DEF TypeOK
  <2> HIDE DEF rest
  <2>3. j \in DOMAIN Append(rest, frame) /\ Append(rest, frame)[j] = rest[j]
    BY <1>1, <1>2
  <2>4. QED
    BY <1>3, <2>2, <2>3
<1>6. QED
  BY <1>4, <1>5

\* The entries of a directory that is entered are listed.
LEMMA EnterLists ==
  ASSUME TypeOK, NEW p \in Importers, pc[p] = "walk", NEW item, Enter(p, item)
  PROVE  \E k \in DOMAIN frames'[p] : frames'[p][k].todo = Children(host[Plan(p).source], item.path)
<1> DEFINE rest  == [frames[p] EXCEPT ![Len(frames[p])].todo = @ \ {item}]
           frame == [path |-> item.path, todo |-> Children(host[Plan(p).source], item.path), src |-> TRUE, dst |-> TRUE]
<1>1. frames[p] \in Seq(Frame) /\ frames[p] # <<>>
  BY DEF TypeOK
<1>2. rest \in Seq(Frame)
  BY <1>1, DoneType
<1>3. frames'[p] = Append(rest, frame)
  BY DEF Enter, TypeOK
<1>4. frame.todo = Children(host[Plan(p).source], item.path)
  OBVIOUS
<1> HIDE DEF rest, frame
<1>5. Len(rest) + 1 \in DOMAIN Append(rest, frame) /\ Append(rest, frame)[Len(rest) + 1] = frame
  BY <1>2
<1>6. QED
  BY <1>3, <1>4, <1>5

\* Which steps put nothing off: what is pending is settled or still pending afterwards.
LEMMA PendingStep ==
  ASSUME TypeOK, WriterInv, AloneInv, TreeInv, MarkInv, FaithInv, NEW p \in Importers, Importers = {p}, Step(p), ~Start(p),
         Busy(p), Busy(p)' \/ pc'[p] = "ok",
         NEW i \in DOMAIN plans[p], NEW x \in Paths, Old(p, i, x), Pending(p, i, x)
  PROVE  Settled(p, i, x)' \/ Pending(p, i, x)'
<1>1. plans' = plans /\ began' = began /\ host' = host
  <2>1. host' = host
    BY DiskStep
  <2>2. QED
    BY <2>1 DEF Step, Claim, OpenDest, Mark, Claimed, Refuse, Skip, Unchanged, Look, Enter, Fill, Rename, Leave, Fails, Crash, run
<1>2. /\ plans[p][i].source \in Sources /\ plans[p][i].name \in Names
      /\ i \in Nat /\ i <= Len(plans[p]) /\ Len(plans[p]) \in Nat
  BY PlansType
<1>3. frames[p] \in Seq(Frame) /\ at[p] \in Nat /\ (pc[p] = "walk" => Len(frames[p]) \in DOMAIN frames[p])
  BY DEF TypeOK
<1>4. x # Top /\ Above(Top, x)
  <2>1. x # Top
    BY <1>2 DEF Old, TreeInv
  <2>2. QED
    BY <2>1, BelowTop DEF Above
<1>5. i = at[p] => plans[p][i] = Plan(p)
  BY DEF Plan
<1>6. CASE Leave(p)
  <2>1. pc[p] = "walk" /\ Here(p).todo = {} /\ frames'[p] = SubSeq(frames[p], 1, Len(frames[p]) - 1)
    BY <1>6 DEF Leave, Front, TypeOK
  <2>2. CASE Len(frames[p]) > 1
    <3>1. pc' = pc /\ at' = at
      BY <1>6, <2>2 DEF Leave
    <3>2. ASSUME NEW j \in DOMAIN frames[p], NEW item \in frames[p][j].todo
          PROVE  j \in DOMAIN frames'[p] /\ item \in frames'[p][j].todo
      <4>1. j # Len(frames[p])
        BY <2>1, <3>2 DEF Here
      <4>2. QED
        BY <1>3, <2>1, <3>2, <4>1
    <3>3. QED
      BY <2>1, <3>1, <3>2 DEF Pending
  <2>3. CASE ~(Len(frames[p]) > 1)
    <3>1. i > at[p]
      <4>1. \A j \in DOMAIN frames[p] : frames[p][j].todo = {}
        BY <1>3, <2>1, <2>3 DEF Here
      <4>2. QED
        BY <2>1, <4>1 DEF Pending
    <3>2. More(p) /\ at' = [at EXCEPT ![p] = @ + 1] /\ pc' = [pc EXCEPT ![p] = "claim"]
      BY <1>2, <1>3, <1>6, <2>3, <3>1 DEF Leave, More, Goes
    <3>3. at'[p] = at[p] + 1 /\ pc'[p] = "claim"
      BY <3>2 DEF TypeOK
    <3>4. QED
      BY <1>2, <1>3, <3>1, <3>3 DEF Pending
  <2>4. QED
    BY <2>2, <2>3
<1>7. CASE ~Leave(p) /\ i > at[p]
  <2>1. at' = at
    BY <1>7 DEF Step, Claim, OpenDest, Mark, Claimed, Refuse, Skip, Unchanged, Look, Enter, Fill, Rename, Fails, Crash, run
  <2>2. QED
    BY <1>7, <2>1 DEF Pending
<1>8. CASE ~Leave(p) /\ i = at[p]
  <2>1. at' = at
    BY <1>8 DEF Step, Claim, OpenDest, Mark, Claimed, Refuse, Skip, Unchanged, Look, Enter, Fill, Rename, Fails, Crash, run
  <2>2. plans[p][i] = Plan(p) /\ Plan(p).source \in Sources /\ Plan(p).name \in Names
        /\ host[Plan(p).source][x].kind = "file"
    BY <1>2, <1>5, <1>8 DEF Old
  <2>3. CASE Claim(p) \/ OpenDest(p)
    <3>1. pc'[p] \in {"open", "mark"}
      BY <2>3 DEF Claim, OpenDest, Goes, TypeOK
    <3>2. QED
      BY <1>8, <2>1, <3>1 DEF Pending
  <2>4. CASE Mark(p) \/ Claimed(p)
    <3>1. pc'[p] = "walk"
      BY <2>4 DEF Mark, Claimed, Goes, TypeOK
    <3>2. 1 \in DOMAIN frames'[p] /\ frames'[p][1].todo = Children(host[Plan(p).source], Top)
      <4>1. CASE Mark(p)
        <5>1. frames[p] # <<>> /\ frames' = [frames EXCEPT ![p][1].todo = Children(host[Plan(p).source], Top)]
          BY <4>1 DEF Mark, TypeOK
        <5>2. 1 \in DOMAIN frames[p] /\ frames[p][1] \in Frame
          BY <1>3, <5>1
        <5>3. frames'[p] = [frames[p] EXCEPT ![1] = [frames[p][1] EXCEPT !.todo = Children(host[Plan(p).source], Top)]]
          BY <5>1 DEF TypeOK
        <5>4. QED
          BY <5>2, <5>3 DEF Frame
      <4>2. CASE Claimed(p)
        <5>1. frames[p] = <<>>
          BY <4>2 DEF Claimed, TypeOK
        <5> DEFINE frame == [path |-> Top, todo |-> Children(host[Plan(p).source], Top), src |-> TRUE, dst |-> TRUE]
        <5>2. frames'[p] = Append(<<>>, frame) /\ frame.todo = Children(host[Plan(p).source], Top)
          BY <4>2, <5>1 DEF Claimed, Opens, TypeOK
        <5> HIDE DEF frame
        <5>3. 1 \in DOMAIN Append(<<>>, frame) /\ Append(<<>>, frame)[1] = frame
          OBVIOUS
        <5>4. QED
          BY <5>2, <5>3
      <4>3. QED
        BY <2>4, <4>1, <4>2
    <3>3. \E item \in Children(host[Plan(p).source], Top) : x \in Below(item.path)
      BY <1>4, <2>2, Reached, PathAssumption
    <3>4. QED
      BY <1>8, <2>1, <3>1, <3>2, <3>3 DEF Pending
  <2>5. CASE Refuse(p) \/ Fails(p) \/ Crash(p)
    BY <2>5 DEF Refuse, Fails, Crash, Ends, Goes, Busy, Idle, TypeOK
  <2>6. CASE Fill(p)
    <3>1. pc[p] = "fill" /\ pc'[p] = "rename" /\ frames' = frames /\ file' = file
      BY <2>6 DEF Fill, Goes, TypeOK
    <3>2. QED
      BY <1>8, <2>1, <3>1 DEF Pending
  <2>7. CASE Rename(p)
    <3>1. pc[p] = "rename" /\ pc'[p] = "walk" /\ frames' = frames
      BY <2>7 DEF Rename, Goes, TypeOK
    <3>2. CASE file[p].path = x
      BY <1>8, <2>7, <3>2, RenameSettles
    <3>3. CASE file[p].path # x
      BY <1>8, <2>1, <3>1, <3>3 DEF Pending
    <3>4. QED
      BY <3>2, <3>3
  <2>8. ASSUME NEW item \in Item, Skip(p, item) \/ Unchanged(p, item) \/ Look(p, item) \/ Enter(p, item)
        PROVE  Settled(p, i, x)' \/ Pending(p, i, x)'
    <3>1. pc[p] = "walk" /\ pc'[p] \in {"walk", "fill"} /\ item.path \in Paths
      <4>1. pc[p] = "walk" /\ item.path \in Paths
        BY <2>8 DEF Skip, Unchanged, Look, Enter, Walking, Item
      <4>2. QED
        BY <2>8, <4>1 DEF Skip, Unchanged, Look, Enter, Goes, TypeOK
    <3>2. PICK j \in DOMAIN frames[p] : \E other \in frames[p][j].todo : x \in Below(other.path)
      <4>1. ~(i > at[p])
        BY <1>3, <1>8
      <4>2. QED
        BY <3>1, <4>1 DEF Pending
    <3>3. PICK other \in frames[p][j].todo : x \in Below(other.path)
      BY <3>2
    <3>4. CASE other # item
      <4>1. Done(p, item) \/ Enter(p, item)
        BY <2>8 DEF Skip, Unchanged, Look
      <4>2. \E k \in DOMAIN frames'[p] : \E it \in frames'[p][k].todo : x \in Below(it.path)
        BY <3>1, <3>3, <3>4, <4>1, Listed
      <4>3. QED
        BY <1>8, <2>1, <3>1, <4>2 DEF Pending
    <3>5. CASE other = item
      <4>1. x \in Below(item.path)
        BY <3>3, <3>5
      <4>2. item.kind = "file" /\ Found(p, item) => x = item.path /\ Source(p, x) = host[Plan(p).source][x]
        <5>1. SUFFICES ASSUME item.kind = "file", Found(p, item)
                       PROVE  x = item.path /\ Source(p, x) = host[Plan(p).source][x]
          OBVIOUS
        <5>2. Source(p, item.path) = host[Plan(p).source][item.path] /\ host[Plan(p).source][item.path].kind = "file"
          BY <5>1 DEF Found, Source, Missing
        <5>3. x = item.path
          BY <2>2, <3>1, <4>1, <5>2 DEF TreeInv, Above
        <5>4. QED
          BY <5>2, <5>3
      <4>3. CASE Skip(p, item)
        <5>1. [name |-> Plan(p).name, path |-> item.path] \in skipped'[p]
          BY <4>3 DEF Skip, TypeOK
        <5>2. QED
          BY <1>1, <2>2, <3>1, <4>1, <5>1 DEF Settled
      <4>4. CASE Unchanged(p, item)
        <5>1. item.kind = "file" /\ Found(p, item) /\ Same(p, item) /\ copy' = copy
          BY <4>4 DEF Unchanged, disk
        <5>2. x = item.path /\ Source(p, x) = host[Plan(p).source][x]
          BY <4>2, <5>1
        <5>3. Dest(p, x).kind = "file" /\ Dest(p, x).time = host[Plan(p).source][x].time
          BY <5>1, <5>2 DEF Same
        <5>4. Here(p).dst /\ Dest(p, x) = copy[Plan(p).name][x]
          BY <5>3 DEF Dest, Missing
        <5>5. marker[Plan(p).name] = Plan(p).source
          BY <3>1, <5>4, HereOpen DEF MarkInv
        <5>6. copy[Plan(p).name][x].data = host[Plan(p).source][x].data
          BY <2>2, <5>3, <5>4, <5>5 DEF FaithInv, AsOf
        <5>7. QED
          BY <1>1, <2>2, <5>1, <5>3, <5>4, <5>6 DEF Settled
      <4>5. CASE Look(p, item)
        <5>1. item.kind = "file" /\ Found(p, item) /\ pc'[p] = "fill" /\ file'[p].path = item.path
          BY <4>5 DEF Look, Goes, TypeOK
        <5>2. QED
          BY <1>8, <2>1, <4>2, <5>1 DEF Pending
      <4>6. CASE Enter(p, item)
        <5>1. host[Plan(p).source][item.path].kind = "dir" /\ pc' = pc
          BY <4>6 DEF Enter, Found, Source, Missing
        <5>2. Above(item.path, x)
          BY <2>2, <4>1, <5>1 DEF Above
        <5>3. \E it \in Children(host[Plan(p).source], item.path) : x \in Below(it.path)
          BY <2>2, <3>1, <5>2, Reached
        <5>4. QED
          BY <1>8, <2>1, <3>1, <4>6, <5>1, <5>3, EnterLists DEF Pending
      <4>7. QED
        BY <2>8, <4>3, <4>4, <4>5, <4>6
    <3>6. QED
      BY <3>4, <3>5
  <2>9. QED
    BY <1>8, <2>3, <2>4, <2>5, <2>6, <2>7, <2>8 DEF Step
<1>9. QED
  BY <1>2, <1>3, <1>6, <1>7, <1>8 DEF Pending

\* An edit makes no file old, and takes nothing off the lists.
LEMMA CopyEdits ==
  ASSUME TypeOK, TreeInv, CopyInv,
         \/ \E s \in Sources, x \in Paths, kind \in Kinds : HostEdits(s, x, kind)
         \/ \E n \in Names, x \in Paths, kind \in Kinds : UserEdits(n, x, kind)
  PROVE  CopyInv'
<1>1. /\ clock' = clock + 1 /\ clock \in Nat
      /\ UNCHANGED <<pc, plans, at, began, skipped, file>>
  BY Tick DEF HostEdits, UserEdits, run
<1>2. ASSUME NEW p \in Importers
      PROVE  /\ DOMAIN frames'[p] = DOMAIN frames[p]
             /\ \A j \in DOMAIN frames[p] : frames'[p][j].todo = frames[p][j].todo
  <2>1. \A j \in DOMAIN frames[p] : frames[p][j] \in Frame
    BY DEF TypeOK
  <2>2. \E test \in [DOMAIN frames[p] -> BOOLEAN] :
           \/ frames'[p] = [j \in DOMAIN frames[p] |-> IF test[j] THEN [frames[p][j] EXCEPT !.src = FALSE] ELSE frames[p][j]]
           \/ frames'[p] = [j \in DOMAIN frames[p] |-> IF test[j] THEN [frames[p][j] EXCEPT !.dst = FALSE] ELSE frames[p][j]]
    <3>1. ASSUME NEW s \in Sources, NEW x \in Paths, NEW kind \in Kinds, HostEdits(s, x, kind)
          PROVE  frames'[p] = [j \in DOMAIN frames[p] |->
                    IF [k \in DOMAIN frames[p] |-> Plan(p).source = s /\ frames[p][k].path \in Below(x)][j]
                    THEN [frames[p][j] EXCEPT !.src = FALSE] ELSE frames[p][j]]
      BY <3>1 DEF HostEdits
    <3>2. ASSUME NEW n \in Names, NEW x \in Paths, NEW kind \in Kinds, UserEdits(n, x, kind)
          PROVE  frames'[p] = [j \in DOMAIN frames[p] |->
                    IF [k \in DOMAIN frames[p] |-> Plan(p).name = n /\ frames[p][k].path \in Below(x)][j]
                    THEN [frames[p][j] EXCEPT !.dst = FALSE] ELSE frames[p][j]]
      BY <3>2 DEF UserEdits
    <3>3. \A a, b : [k \in DOMAIN frames[p] |-> a = b /\ frames[p][k].path \in Below(b)] \in [DOMAIN frames[p] -> BOOLEAN]
      OBVIOUS
    <3>4. QED
      BY <3>1, <3>2
  <2>3. QED
    BY <2>1, <2>2 DEF Frame
<1>3. ASSUME NEW p \in Importers, Busy(p) \/ pc[p] = "ok", NEW i \in DOMAIN plans[p], NEW x \in Paths, Old(p, i, x)'
      PROVE  (Settled(p, i, x) \/ Pending(p, i, x))'
  <2>1. plans[p][i].source \in Sources /\ plans[p][i].name \in Names
    BY <1>3, PlansType
  <2> DEFINE s == plans[p][i].source
             n == plans[p][i].name
  <2>2. began[p] <= clock /\ began[p] \in Int
    BY BoundAssumption DEF TreeInv, TypeOK, Times
  <2>3. /\ host'[s][x] = host[s][x] \/ host'[s][x].time = clock'
        /\ copy'[n][x] = copy[n][x] \/ copy'[n][x].time = clock'
    <3>1. ASSUME NEW r \in Sources, NEW y \in Paths, NEW kind \in Kinds, HostEdits(r, y, kind)
          PROVE  copy' = copy /\ (host'[s][x] = host[s][x] \/ host'[s][x].time = clock')
      BY <2>1, <3>1, HostEditTree DEF HostEdits
    <3>2. ASSUME NEW m \in Names, NEW y \in Paths, NEW kind \in Kinds, UserEdits(m, y, kind)
          PROVE  host' = host /\ (copy'[n][x] = copy[n][x] \/ copy'[n][x].time = clock')
      <4>1. host' = host
        BY <3>2 DEF UserEdits
      <4>2. \A k \in Names, z \in Paths : copy'[k][z] = copy[k][z] \/ copy'[k][z].time = clock'
        BY <3>2, UserEditTimes
      <4>3. QED
        BY <2>1, <4>1, <4>2
    <3>3. QED
      BY <3>1, <3>2
  <2>4. host'[s][x] = host[s][x] /\ Old(p, i, x)
    BY <1>1, <1>3, <2>2, <2>3 DEF Old
  <2>5. Settled(p, i, x) \/ Pending(p, i, x)
    BY <1>3, <2>4 DEF CopyInv
  <2>6. CASE Pending(p, i, x)
    BY <1>1, <1>2, <2>6 DEF Pending
  <2>7. CASE Settled(p, i, x)
    BY <1>1, <2>2, <2>3, <2>4, <2>7 DEF Settled
  <2>8. QED
    BY <2>5, <2>6, <2>7
<1>4. \A p \in Importers : (Busy(p)' <=> Busy(p)) /\ (More(p)' <=> More(p))
  BY <1>1 DEF Busy, More
<1>5. QED
  BY <1>1, <1>3, <1>4 DEF CopyInv

\* Every step keeps what a run owes settled or pending.
LEMMA CopyInvStep ==
  ASSUME TypeOK, WriterInv, AloneInv, TreeInv, MarkInv, FaithInv, CopyInv, \A p, q \in Importers : p = q, [Next]_vars
  PROVE  CopyInv'
<1>1. CASE UNCHANGED vars
  BY <1>1 DEF vars, CopyInv, Busy, More, Old, Settled, Pending
<1>2. ASSUME NEW p \in Importers, Step(p)
      PROVE  CopyInv'
  <2>1. Importers = {p}
    OBVIOUS
  <2>2. CASE Start(p)
    <3>1. at'[p] = 1 /\ pc'[p] = "claim"
      BY <2>2 DEF Start, Goes, TypeOK
    <3>2. \A i \in DOMAIN plans'[p] : i \in Nat /\ i >= 1
      <4>1. plans'[p] \in Plans
        BY <2>2 DEF Start, TypeOK
      <4>2. plans'[p] \in Seq([source : Sources, name : Names])
        BY <4>1, PlanAssumption
      <4>3. QED
        BY <4>2
    <3>3. \A i \in DOMAIN plans'[p], x \in Paths : Pending(p, i, x)'
      BY <3>1, <3>2 DEF Pending
    <3>4. QED
      BY <2>1, <3>1, <3>3 DEF CopyInv
  <2>3. CASE ~Start(p)
    <3>1. Busy(p)
      BY <1>2, <2>3 DEF Step, Claim, OpenDest, Mark, Claimed, Refuse, Skip, Unchanged, Look, Enter, Walking, Fill, Rename,
                        Leave, Fails, Crash, Busy, Idle
    <3>2. plans' = plans /\ began' = began /\ host' = host
      <4>1. host' = host
        BY <1>2, DiskStep
      <4>2. QED
        BY <1>2, <2>3, <4>1 DEF Step, Claim, OpenDest, Mark, Claimed, Refuse, Skip, Unchanged, Look, Enter, Fill, Rename,
                                Leave, Fails, Crash, run
    <3>3. pc'[p] = "ok" => ~More(p)'
      <4>1. CASE Leave(p)
        BY <4>1 DEF Leave, Goes, More, TypeOK
      <4>2. CASE ~Leave(p)
        <5>1. pc'[p] # "ok"
          BY <1>2, <2>3, <3>1, <4>2 DEF Step, Claim, OpenDest, Mark, Claimed, Refuse, Skip, Unchanged, Look, Enter, Fill,
                        Rename, Fails, Crash, Ends, Goes, disk, Busy, Idle, TypeOK
        <5>2. QED
          BY <5>1
      <4>3. QED
        BY <4>1, <4>2
    <3>4. ASSUME Busy(p)' \/ pc'[p] = "ok", NEW i \in DOMAIN plans'[p], NEW x \in Paths, Old(p, i, x)'
          PROVE  Settled(p, i, x)' \/ Pending(p, i, x)'
      <4>1. i \in DOMAIN plans[p] /\ Old(p, i, x)
        BY <3>2, <3>4 DEF Old
      <4>2. Settled(p, i, x) \/ Pending(p, i, x)
        BY <3>1, <4>1 DEF CopyInv
      <4>3. QED
        BY <1>2, <2>1, <2>3, <3>1, <3>4, <4>1, <4>2, SettledStays, PendingStep
    <3>5. QED
      BY <2>1, <3>3, <3>4 DEF CopyInv
  <2>4. QED
    BY <2>2, <2>3
<1>3. QED
  BY <1>1, <1>2, CopyEdits DEF Next

\* At the start nothing is copied, and no source is younger than the clock.
LEMMA InitCopy == Init => TreeInv /\ MarkInv /\ FaithInv /\ CopyInv
<1>1. SUFFICES ASSUME Init
      PROVE  TreeInv /\ MarkInv /\ FaithInv /\ CopyInv
  OBVIOUS
<1>2. \A n \in Names, x \in Paths : copy[n][x] = Missing(0) /\ tmp[n][x] = Missing(0) /\ marker[n] = NoSource
  BY <1>1 DEF Init
<1>3. \A s \in Sources, x \in Paths : host[s][x] = [kind |-> HostTree[x], data |-> {0}, time |-> 0]
  BY <1>1 DEF Init
<1>4. clock = 0 /\ \A p \in Importers : pc[p] = "idle" /\ file[p] = NoFile /\ began[p] = 0
  BY <1>1 DEF Init
<1>5. TreeInv
  <2>1. \A x, y \in Paths : Above(x, y) /\ HostTree[y] # "none" => HostTree[x] = "dir"
    BY PathAssumption DEF Above, Below, IsStrictPrefix
  <2>2. QED
    <3>1. \A s \in Sources, x \in Paths : host[s][x].kind = HostTree[x] /\ host[s][x].time = 0
      <4>1. SUFFICES ASSUME NEW s \in Sources, NEW x \in Paths
                     PROVE  host[s][x].kind = HostTree[x] /\ host[s][x].time = 0
        OBVIOUS
      <4>2. host[s][x] = [kind |-> HostTree[x], data |-> {0}, time |-> 0]
        BY <1>3
      <4> DEFINE k == HostTree[x]
      <4>3. host[s][x] = [kind |-> k, data |-> {0}, time |-> 0]
        BY <4>2
      <4> HIDE DEF k
      <4>4. host[s][x].kind = k /\ host[s][x].time = 0
        BY <4>3
      <4>5. QED
        BY <4>4 DEF k
    <3>2. \A n \in Names, x \in Paths : copy[n][x].time = 0 /\ tmp[n][x].time = 0
      BY <1>2 DEF Missing
    <3>3. \A p \in Importers : began[p] = 0 /\ file[p].time = 0
      BY <1>4 DEF NoFile
    <3>4. QED
      BY <1>4, <2>1, <3>1, <3>2, <3>3, PathAssumption DEF TreeInv
<1>6. MarkInv /\ FaithInv /\ CopyInv
  BY <1>2, <1>4, PathAssumption DEF MarkInv, FaithInv, CopyInv, Missing, Busy, Idle
<1>7. QED
  BY <1>5, <1>6

\* A run that reports success has copied every file that did not change since it began,
\* but for those it reported as skipped and those the user changed since: whatever was
\* left by earlier runs, killed or failed, of the same or other plans, and whatever the
\* host and the user do meanwhile (imports.py, copy_import and _copy_dir).  For one
\* importer at a time: a second one may rename the other's half-written file.
THEOREM OkMeansCopiedHolds ==
  ASSUME \A p, q \in Importers : p = q
  PROVE  Spec => []OkMeansCopied
<1> DEFINE Inv == AloneInv /\ TreeInv /\ MarkInv /\ FaithInv /\ CopyInv
<1>1. TypeOK /\ WriterInv /\ Inv /\ [Next]_vars => Inv'
  <2>1. TypeOK /\ WriterInv /\ AloneInv /\ [Next]_vars => AloneInv'
    BY AloneStep
  <2>2. QED
    BY <2>1, TreeStep, MarkStep, FaithStep, CopyInvStep
<1>2. TypeOK /\ CopyInv => OkMeansCopied
  <2>1. SUFFICES ASSUME TypeOK, CopyInv, NEW p \in Importers, pc[p] = "ok", NEW i \in DOMAIN plans[p], NEW x \in Paths,
                        Old(p, i, x)
                 PROVE  Settled(p, i, x)
    BY DEF OkMeansCopied, Old, Settled
  <2>2. i \in Nat /\ i <= Len(plans[p]) /\ Len(plans[p]) \in Nat /\ at[p] \in Nat
    <3>1. at[p] \in Nat
      BY <2>1 DEF TypeOK
    <3>2. QED
      BY <2>1, <3>1, PlansType
  <2>3. ~(i > at[p])
    BY <2>1, <2>2 DEF CopyInv, More
  <2>4. ~Pending(p, i, x)
    BY <2>1, <2>3 DEF Pending
  <2>5. QED
    BY <2>1, <2>4 DEF CopyInv
<1>3. Init => Inv
  BY InitAlone, InitCopy
<1>4. QED
  BY <1>1, <1>2, <1>3, TypesHold, WritersHold, PTL DEF Spec
=============================================================================
