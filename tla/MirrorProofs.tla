---------------------------- MODULE MirrorProofs ----------------------------
(***************************************************************************)
(* Theorems about Mirror, for every collection, however many syncs and     *)
(* writing requests there are and however often the reader signs out.      *)
(***************************************************************************)
EXTENDS Mirror, TLAPS

SyncSteps == {"off", "began", "asked", "listing", "fetching", "pulled", "commit"}
Marks == 0..MaxVersion \cup {None}
SyncStates ==
    [at : SyncSteps, reader : 0..MaxForgets, written : Nat, base : Marks, token : Marks, whole : BOOLEAN,
     want : SUBSET Names, gone : SUBSET Names, put : [Names -> Versions], dropped : BOOLEAN, overtaken : BOOLEAN]
WriteStates ==
    [at : {"off", "sent", "applying"}, kind : {"put", "delete", "move", "refused", "props"},
     name : Names \cup {Nobody}, body : Versions, etag : BOOLEAN, held : Marks]

ServerTypes ==
    /\ reports \in Reports /\ version \in Versions /\ there \subseteq Names
    /\ mod \in [Names -> Versions] /\ \A n \in Names : 1 <= mod[n] /\ mod[n] <= version

DiskTypes ==
    /\ held \in Marks /\ held <= version
    /\ copy \in [Names -> -MaxVersion..MaxVersion]
    /\ held = None => \A n \in Names : copy[n] = 0
    /\ late \subseteq Names /\ missing \subseteq Names

MemoryTypes == reader \in 0..MaxForgets /\ writes \in Nat /\ syncing \in BOOLEAN

\* What a sync has found by each step.
SyncTypes ==
    /\ sync \in [Syncs -> SyncStates]
    /\ \A s \in Syncs :
        /\ sync[s].base <= version /\ sync[s].token <= version
        /\ sync[s].at \in {"listing", "fetching", "pulled", "commit"} => sync[s].token # None
        /\ sync[s].at \in {"began", "asked", "listing"} => sync[s].want = {} /\ sync[s].gone = {} /\ ~sync[s].whole
        /\ sync[s].at \notin {"pulled", "commit"} => \A n \in Names : sync[s].put[n] = 0
        /\ sync[s].at \in {"pulled", "commit"} => sync[s].want = {}
        /\ sync[s].at = "listing" => ~reports

WriteTypes ==
    /\ write \in [Writers -> WriteStates]
    /\ \A w \in Writers : write[w].held <= version /\ (write[w].at = "applying" => write[w].held # None)

Types == ServerTypes /\ DiskTypes /\ MemoryTypes /\ SyncTypes /\ WriteTypes

\* Mirror.saving is held exactly in its critical sections.
Saving ==
    /\ saving \in Syncs \cup Writers \cup {Nobody}
    /\ \A s \in Syncs : sync[s].at = "commit" <=> saving = s
    /\ \A w \in Writers : write[w].at = "applying" <=> saving = w

\* One sync at most is of the reader there is, and no sync is of one to come.
OneSync ==
    /\ \A s \in Syncs : sync[s].at # "off" => sync[s].reader <= reader
    /\ \A s \in Syncs : sync[s].at # "off" /\ sync[s].reader = reader => syncing /\ sync[s].written <= writes
    /\ \A s, t \in Syncs : sync[s].at # "off" /\ sync[s].reader = reader /\ sync[t].at # "off" /\ sync[t].reader = reader => s = t

\* Under saving the held record is the one read, but for a drop.
HeldAsRead == \A w \in Writers : write[w].at = "applying" => held \in {write[w].held, None}

Turns == Saving /\ OneSync /\ HeldAsRead

\* The copy of n is the server's, or its gap is noted; or a drop made the gap.
Good(n) == Matches(n) \/ n \in late \/ (copy[n] = 0 /\ n \in missing)
Rests(s, n) == Good(n) \/ (sync[s].dropped /\ copy[n] = 0)

\* What the token covers is in the copy as the server has it, or is noted.
InStep == \A n \in Names : mod[n] <= held => Good(n)

\* The sync may still save: nothing has told it otherwise, or it has checked.
Live(s) == sync[s].at = "commit" \/ (sync[s].at # "off" /\ Current(s))
Covered(s) == sync[s].want \cup Saved(s)

\* No record it meets is of a later state than its own.
Ahead(s) ==
    Live(s) /\ sync[s].at \in {"listing", "fetching", "pulled", "commit"} =>
        /\ held <= sync[s].token
        /\ \A w \in Writers : write[w].at = "applying" => write[w].held <= sync[s].token
        /\ \A t \in Syncs \ {s} : sync[t].at = "commit" => sync[t].token <= sync[s].token

\* What it takes for unchanged is so for a sync of a signed-out reader that is
\* about to save.
Older(s, n) == \A t \in Syncs \ {s} : sync[t].at = "commit" => mod[n] <= sync[t].token
Behind(s) ==
    Live(s) =>
        /\ sync[s].at = "asked" => \A t \in Syncs \ {s} : sync[t].at = "commit" => sync[s].base <= sync[t].token
        /\ reports /\ sync[s].at \in {"fetching", "pulled"} =>
            \A n \in Names \ Covered(s) : mod[n] <= sync[s].token => Older(s, n)

\* The copy is in step with the token it asks from, and in what it did not ask for.
AskedInStep(s) == Live(s) /\ sync[s].at = "asked" => \A n \in Names : mod[n] <= sync[s].base => Rests(s, n)
RestInStep(s) ==
    Live(s) /\ sync[s].at \in {"fetching", "pulled", "commit"} =>
        \A n \in Names \ Covered(s) : mod[n] <= sync[s].token => sync[s].overtaken \/ Rests(s, n)

\* What it asks for, and what it got, is what the server has, or will be again
\* in the next sync.
WantedThere(s) ==
    sync[s].at = "fetching" => \A n \in Names : mod[n] <= sync[s].token =>
        /\ n \in sync[s].want => n \in there
        /\ n \in sync[s].gone => n \notin there
        /\ sync[s].whole /\ n \notin sync[s].want => n \notin there
PulledRight(s) ==
    sync[s].at \in {"pulled", "commit"} =>
        \A n \in Saved(s) : mod[n] <= sync[s].token => sync[s].put[n] = Content(n)

SyncRight(s) == Ahead(s) /\ Behind(s) /\ AskedInStep(s) /\ RestInStep(s) /\ WantedThere(s) /\ PulledRight(s)

MirrorInv == Types /\ Turns /\ InStep /\ \A s \in Syncs : SyncRight(s)

LEMMA OffTypes == SyncOff \in SyncStates /\ WriteOff \in WriteStates
<1>1. 0 \in 0..MaxForgets /\ 0 \in Versions /\ None \in Marks
  BY MirrorAssumption DEF Versions, Marks
<1> QED  BY <1>1 DEF SyncOff, SyncStates, WriteOff, WriteStates, SyncSteps

LEMMA InitMirrorInv == Init => MirrorInv
<1> SUFFICES ASSUME Init PROVE MirrorInv
  OBVIOUS
<1> USE MirrorAssumption
<1>1. 1 \in Versions /\ 0 \in 0..MaxForgets /\ 1 \in -MaxVersion..MaxVersion /\ 0 \in -MaxVersion..MaxVersion
  BY DEF Versions
<1>2. ServerTypes
  BY <1>1 DEF Init, ServerTypes
<1>3. DiskTypes
  BY <1>1 DEF Init, DiskTypes, Marks, Versions, None
<1>4. MemoryTypes
  BY <1>1 DEF Init, MemoryTypes
<1>5. \A s \in Syncs : sync[s] = SyncOff
  BY DEF Init
<1>6. \A w \in Writers : write[w] = WriteOff
  BY DEF Init
<1>7. SyncTypes
  BY <1>5, OffTypes DEF Init, SyncTypes, SyncOff, None
<1>8. WriteTypes
  BY <1>6, OffTypes DEF Init, WriteTypes, WriteOff, None
<1>9. \A s \in Syncs : sync[s].at = "off"
  BY <1>5 DEF SyncOff
<1>10. \A w \in Writers : write[w].at = "off"
  BY <1>6 DEF WriteOff
<1>11. Turns
  BY <1>9, <1>10 DEF Init, Turns, Saving, OneSync, HeldAsRead, Nobody
<1>12. InStep
  <2> SUFFICES ASSUME NEW n \in Names, mod[n] <= held PROVE copy[n] = Content(n)
    BY DEF InStep, Good, Matches
  <2> QED  BY DEF Init, Content, None
<1>13. ASSUME NEW s \in Syncs PROVE SyncRight(s)
  BY <1>9 DEF SyncRight, Ahead, Behind, AskedInStep, RestInStep, WantedThere, PulledRight, Live
<1> QED  BY <1>2, <1>3, <1>4, <1>7, <1>8, <1>11, <1>12, <1>13 DEF MirrorInv, Types

----------------------------------------------------------------------------
(* A sync that is left alone *)

\* But for what is noted of it.
GoesOn(q) ==
    /\ sync'[q].at = sync[q].at /\ sync'[q].base = sync[q].base /\ sync'[q].token = sync[q].token
    /\ sync'[q].whole = sync[q].whole /\ sync'[q].want = sync[q].want /\ sync'[q].gone = sync[q].gone
    /\ sync'[q].put = sync[q].put /\ sync'[q].reader = sync[q].reader /\ sync'[q].written = sync[q].written
    /\ sync[q].dropped => sync'[q].dropped
    /\ sync[q].overtaken => sync'[q].overtaken

\* The objects it relies on the copy for.
Relies(q, n) == sync[q].at = "asked" \/ (sync[q].at \in {"fetching", "pulled", "commit"} /\ n \notin Covered(q))

\* What the other steps do to it while it may save.
NoneAhead(q) ==
    /\ \/ held' <= held
       \/ \E w \in Writers : write[w].at = "applying" /\ held' = write[w].held
       \/ \E t \in Syncs \ {q} : sync[t].at = "commit" /\ held' = sync[t].token
    /\ \A w \in Writers : write'[w].at = "applying" => write[w].at = "applying" /\ write'[w].held = write[w].held
    /\ \A t \in Syncs \ {q} : sync'[t].at = "commit" => sync[t].at = "commit" /\ sync'[t].token = sync[t].token

LEMMA SyncGoesOn ==
    ASSUME Types, Types', Turns, NEW q \in Syncs, SyncRight(q), GoesOn(q), reports' = reports,
           \A n \in Names : (mod'[n] = mod[n] /\ (n \in there' <=> n \in there)) \/ mod'[n] > version,
           Live(q)' => Live(q) /\ NoneAhead(q),
           \A n \in Names : Live(q)' /\ Relies(q, n) /\ mod'[n] = mod[n] /\ Older(q, n) /\ Rests(q, n) => Rests(q, n)',
           \/ reports \/ sync'[q].overtaken \/ sync[q].at \notin {"fetching", "pulled", "commit"}
           \/ \A n \in Names : Live(q)' /\ Relies(q, n) /\ mod'[n] = mod[n] /\ Rests(q, n) => Rests(q, n)'
    PROVE  SyncRight(q)'
<1>t. /\ version \in Int /\ held \in Int /\ held' \in Int
      /\ \A n \in Names : mod[n] \in Int /\ mod'[n] \in Int
      /\ \A s \in Syncs : sync[s].base \in Int /\ sync[s].token \in Int /\ sync[s].token <= version /\ sync[s].base <= version
      /\ \A w \in Writers : write[w].held \in Int
  <2>1. version \in Int /\ held \in Int /\ held' \in Int /\ \A n \in Names : mod[n] \in Int /\ mod'[n] \in Int
    BY MirrorAssumption DEF Types, ServerTypes, DiskTypes, Versions, Marks, None
  <2>2. Marks \subseteq Int
    BY MirrorAssumption DEF Marks, None
  <2>3. \A s \in Syncs : sync[s].base \in Int /\ sync[s].token \in Int /\ sync[s].token <= version /\ sync[s].base <= version
    BY <2>2 DEF Types, SyncTypes, SyncStates
  <2>4. \A w \in Writers : write[w].held \in Int
    BY <2>2 DEF Types, WriteTypes, WriteStates
  <2> QED  BY <2>1, <2>3, <2>4
<1>g. /\ sync'[q].at = sync[q].at /\ sync'[q].base = sync[q].base /\ sync'[q].token = sync[q].token
      /\ sync'[q].whole = sync[q].whole /\ sync'[q].want = sync[q].want /\ sync'[q].gone = sync[q].gone
      /\ sync'[q].put = sync[q].put
      /\ sync[q].dropped => sync'[q].dropped
      /\ sync[q].overtaken => sync'[q].overtaken
  BY DEF GoesOn
<1>r. Ahead(q) /\ Behind(q) /\ AskedInStep(q) /\ RestInStep(q) /\ WantedThere(q) /\ PulledRight(q)
  BY DEF SyncRight
<1>s. Saved(q)' = Saved(q) /\ Covered(q)' = Covered(q) /\ Saved(q) \subseteq Names
  <2>1. Saved(q)' = Saved(q)
    BY <1>g DEF Saved
  <2>2. Saved(q) \subseteq Names
    BY DEF Saved, Types, SyncTypes, SyncStates
  <2> QED  BY <1>g, <2>1, <2>2 DEF Covered
\* What changes on the server is past everything noted so far.
<1>m. ASSUME NEW n \in Names, NEW v \in Int, v <= version, mod'[n] <= v
      PROVE  mod'[n] = mod[n] /\ mod[n] <= v /\ (n \in there' <=> n \in there) /\ Content(n)' = Content(n)
  <2>1. ~(mod'[n] > version)
    BY <1>t, <1>m
  <2>2. mod'[n] = mod[n] /\ (n \in there' <=> n \in there)
    BY <2>1
  <2> QED  BY <1>m, <2>2 DEF Content
<1>1. Ahead(q)'
  <2> SUFFICES ASSUME Live(q)', sync[q].at \in {"listing", "fetching", "pulled", "commit"}
               PROVE  /\ held' <= sync[q].token
                      /\ \A w \in Writers : write'[w].at = "applying" => write'[w].held <= sync[q].token
                      /\ \A t \in Syncs \ {q} : sync'[t].at = "commit" => sync'[t].token <= sync[q].token
    BY <1>g DEF Ahead
  <2>1. /\ held <= sync[q].token
        /\ \A w \in Writers : write[w].at = "applying" => write[w].held <= sync[q].token
        /\ \A t \in Syncs \ {q} : sync[t].at = "commit" => sync[t].token <= sync[q].token
    BY <1>r DEF Ahead
  <2>2. held' <= sync[q].token
    BY <1>t, <2>1 DEF NoneAhead
  <2> QED  BY <2>1, <2>2 DEF NoneAhead
<1>2. Behind(q)'
  <2>1. ASSUME Live(q)', sync[q].at = "asked", NEW t \in Syncs \ {q}, sync'[t].at = "commit" PROVE sync[q].base <= sync'[t].token
    BY <1>r, <2>1 DEF Behind, NoneAhead
  <2>2. ASSUME Live(q)', reports, sync[q].at \in {"fetching", "pulled"}, NEW n \in Names \ Covered(q), mod'[n] <= sync[q].token,
               NEW t \in Syncs \ {q}, sync'[t].at = "commit"
        PROVE  mod'[n] <= sync'[t].token
    <3>1. mod'[n] = mod[n] /\ mod[n] <= sync[q].token
      BY <1>t, <1>m, <2>2
    <3> QED  BY <1>r, <2>2, <3>1 DEF Behind, NoneAhead, Older
  <2> QED  BY <1>g, <1>s, <2>1, <2>2 DEF Behind, Older
<1>3. AskedInStep(q)'
  <2> SUFFICES ASSUME Live(q)', sync[q].at = "asked", NEW n \in Names, mod'[n] <= sync[q].base PROVE Rests(q, n)'
    BY <1>g DEF AskedInStep
  <2>1. mod'[n] = mod[n] /\ mod[n] <= sync[q].base
    BY <1>t, <1>m
  <2>2. Rests(q, n)
    BY <1>r, <2>1 DEF AskedInStep
  <2>3. Older(q, n)
    <3> SUFFICES ASSUME NEW t \in Syncs \ {q}, sync[t].at = "commit" PROVE mod[n] <= sync[t].token
      BY DEF Older
    <3>1. sync[q].base <= sync[t].token
      BY <1>r DEF Behind
    <3> QED  BY <1>t, <2>1, <3>1
  <2> QED  BY <2>1, <2>2, <2>3 DEF Relies
<1>4. RestInStep(q)'
  <2> SUFFICES ASSUME Live(q)', sync[q].at \in {"fetching", "pulled", "commit"}, NEW n \in Names \ Covered(q),
                      mod'[n] <= sync[q].token, ~sync'[q].overtaken
               PROVE  Rests(q, n)'
    BY <1>g, <1>s DEF RestInStep
  <2>1. mod'[n] = mod[n] /\ mod[n] <= sync[q].token
    BY <1>t, <1>m
  <2>2. Rests(q, n)
    BY <1>g, <1>r, <2>1 DEF RestInStep
  <2>3. Relies(q, n)
    BY DEF Relies
  <2>4. CASE reports
    <3>1. Older(q, n)
      <4>1. CASE sync[q].at = "commit"
        BY <4>1 DEF Older, Turns, Saving
      <4>2. CASE sync[q].at # "commit"
        BY <1>r, <2>1, <2>4, <4>2 DEF Behind
      <4> QED  BY <4>1, <4>2
    <3> QED  BY <2>1, <2>2, <2>3, <3>1
  <2>5. CASE ~reports
    BY <2>1, <2>2, <2>3, <2>5
  <2> QED  BY <2>4, <2>5
<1>5. WantedThere(q)'
  <2> SUFFICES ASSUME sync[q].at = "fetching", NEW n \in Names, mod'[n] <= sync[q].token
               PROVE  /\ n \in sync[q].want => n \in there'
                      /\ n \in sync[q].gone => n \notin there'
                      /\ sync[q].whole /\ n \notin sync[q].want => n \notin there'
    BY <1>g DEF WantedThere
  <2>1. mod[n] <= sync[q].token /\ (n \in there' <=> n \in there)
    BY <1>t, <1>m
  <2> QED  BY <1>r, <2>1 DEF WantedThere
<1>6. PulledRight(q)'
  <2> SUFFICES ASSUME sync[q].at \in {"pulled", "commit"}, NEW n \in Saved(q), mod'[n] <= sync[q].token
               PROVE  sync[q].put[n] = Content(n)'
    BY <1>g, <1>s DEF PulledRight
  <2>0. n \in Names
    BY <1>s
  <2>1. mod[n] <= sync[q].token /\ Content(n)' = Content(n)
    BY <1>t, <1>m, <2>0
  <2> QED  BY <1>r, <2>1 DEF PulledRight
<1> QED  BY <1>1, <1>2, <1>3, <1>4, <1>5, <1>6 DEF SyncRight

----------------------------------------------------------------------------
(* The steps of a sync that leave the copy *)

LEMMA SyncMoves ==
    ASSUME MirrorInv, NEW s \in Syncs, NEW d \in SyncStates, sync' = [sync EXCEPT ![s] = d],
           UNCHANGED <<reports, version, mod, there, held, copy, late, missing, reader, writes, write>>,
           d.base <= version, d.token <= version,
           d.at \in {"listing", "fetching", "pulled", "commit"} => d.token # None,
           d.at \in {"began", "asked", "listing"} => d.want = {} /\ d.gone = {} /\ ~d.whole,
           d.at \notin {"pulled", "commit"} => \A n \in Names : d.put[n] = 0,
           d.at \in {"pulled", "commit"} => d.want = {},
           d.at = "listing" => ~reports,
           \/ d.at = "commit" /\ sync[s].at = "pulled" /\ Current(s) /\ saving = Nobody /\ saving' = s
           \/ d.at # "commit" /\ saving' = IF saving = s THEN Nobody ELSE saving,
           \/ d.at = "off" /\ sync[s].at # "off" /\ syncing' = (syncing /\ sync[s].reader # reader)
           \/ d.at # "off" /\ sync[s].at # "off" /\ d.reader = sync[s].reader /\ d.written = sync[s].written /\ syncing' = syncing
           \/ d.at # "off" /\ ~syncing /\ syncing' = TRUE /\ d.reader = reader /\ d.written = writes,
           d.at # "off" => SyncRight(s)'
    PROVE  MirrorInv'
<1>0. Types /\ Turns /\ InStep /\ \A q \in Syncs : SyncRight(q)
  BY DEF MirrorInv
<1>t. ServerTypes /\ DiskTypes /\ MemoryTypes /\ SyncTypes /\ WriteTypes
  BY <1>0 DEF Types
<1>s. sync \in [Syncs -> SyncStates]
  BY <1>t DEF SyncTypes
<1>1. sync'[s] = d /\ \A q \in Syncs \ {s} : sync'[q] = sync[q]
  BY <1>s
<1>n. /\ s \notin Writers /\ \A q \in Syncs : q # Nobody /\ q \notin Writers
      /\ \A w \in Writers : w # Nobody
  BY MirrorAssumption DEF Nobody
<1>2. SyncTypes'
  <2>1. sync' \in [Syncs -> SyncStates]
    BY <1>s
  <2> QED  BY <1>t, <1>1, <2>1 DEF SyncTypes
<1>3. syncing' \in BOOLEAN
  BY <1>t DEF MemoryTypes
<1>4. Types'
  BY <1>t, <1>2, <1>3 DEF Types, ServerTypes, DiskTypes, MemoryTypes, WriteTypes
<1>5. Saving'
  <2>0. Saving
    BY <1>0 DEF Turns
  <2>1. CASE d.at = "commit"
    BY <1>1, <1>n, <2>0, <2>1 DEF Saving
  <2>2. CASE d.at # "commit"
    BY <1>1, <1>n, <2>0, <2>2 DEF Saving
  <2> QED  BY <2>1, <2>2
<1>6. OneSync'
  <2>0. OneSync /\ reader \in Int /\ writes \in Int
    BY <1>0, <1>t DEF Turns, MemoryTypes
  <2>1. CASE d.at = "off" /\ sync[s].at # "off" /\ syncing' = (syncing /\ sync[s].reader # reader)
    <3>1. ASSUME NEW q \in Syncs, sync'[q].at # "off", sync'[q].reader = reader
          PROVE  q # s /\ syncing /\ sync[s].reader # reader
      BY <1>1, <2>0, <2>1, <3>1 DEF OneSync
    <3> QED  BY <1>1, <2>0, <2>1, <3>1 DEF OneSync
  <2>2. CASE d.at # "off" /\ sync[s].at # "off" /\ d.reader = sync[s].reader /\ d.written = sync[s].written /\ syncing' = syncing
    BY <1>1, <2>0, <2>2 DEF OneSync
  <2>3. CASE d.at # "off" /\ ~syncing /\ syncing' = TRUE /\ d.reader = reader /\ d.written = writes
    BY <1>1, <2>0, <2>3 DEF OneSync
  <2> QED  BY <2>1, <2>2, <2>3
<1>7. HeldAsRead' /\ InStep'
  BY <1>0 DEF Turns, HeldAsRead, InStep, Good, Matches, Content
<1>8. ASSUME NEW q \in Syncs \ {s} PROVE SyncRight(q)'
  <2>1. GoesOn(q)
    BY <1>1 DEF GoesOn
  <2>2. Live(q)' => Live(q)
    BY <1>1 DEF Live, Current
  \* Where s has checked, it is the reader's sync, and q is not.
  <2>3. d.at = "commit" => sync[s].at = "pulled" /\ Current(s) /\ sync[q].at # "commit"
    BY <1>0, <1>n DEF Turns, Saving
  <2>4. d.at = "commit" => ~Live(q)
    BY <1>0, <2>3 DEF Live, Current, Turns, OneSync
  <2>5. held' <= held
    BY <1>t, MirrorAssumption DEF DiskTypes, Marks, None
  <2>6. Live(q)' => Live(q) /\ NoneAhead(q)
    BY <1>1, <2>2, <2>4, <2>5 DEF NoneAhead
  <2>7. \A n \in Names : Rests(q, n) => Rests(q, n)'
    BY <1>1 DEF Rests, Good, Matches, Content
  <2> QED  BY <1>0, <1>4, <2>1, <2>6, <2>7, SyncGoesOn
<1>9. SyncRight(s)'
  <2>1. CASE d.at = "off"
    BY <1>1, <2>1 DEF SyncRight, Ahead, Behind, AskedInStep, RestInStep, WantedThere, PulledRight, Live
  <2> QED  BY <2>1
<1> QED  BY <1>4, <1>5, <1>6, <1>7, <1>8, <1>9 DEF MirrorInv, Turns

\* Start, the failures, and the check of one that is not current: nothing to show.
LEMMA SyncStartsEnds ==
    ASSUME MirrorInv, NEW s \in Syncs, Start(s) \/ PullFails(s) \/ SaveFails(s)
    PROVE  MirrorInv'
<1>0. Types /\ Turns /\ InStep /\ \A q \in Syncs : SyncRight(q)
  BY DEF MirrorInv
<1>t. ServerTypes /\ DiskTypes /\ MemoryTypes /\ SyncTypes /\ WriteTypes
  BY <1>0 DEF Types
<1>s. sync \in [Syncs -> SyncStates] /\ sync[s] \in SyncStates
  BY <1>t DEF SyncTypes
<1>v. version \in Nat /\ None <= version
  BY <1>t, MirrorAssumption DEF ServerTypes, Versions, None
<1>o. /\ SyncOff \in SyncStates /\ SyncOff.at = "off" /\ SyncOff.base = None /\ SyncOff.token = None /\ SyncOff.want = {}
      /\ \A n \in Names : SyncOff.put[n] = 0
  BY OffTypes DEF SyncOff
<1>1. CASE Start(s)
  <2>1. PICK d : d = [SyncOff EXCEPT !.at = "began", !.reader = reader, !.written = writes]
    OBVIOUS
  <2>2. /\ sync[s].at = "off" /\ ~syncing /\ syncing' = TRUE /\ sync' = [sync EXCEPT ![s] = d]
        /\ UNCHANGED <<reports, version, mod, there, held, copy, late, missing, reader, writes, saving, write>>
    BY <1>1, <2>1 DEF Start, server, disk
  <2>3. d \in SyncStates
    BY <1>o, <1>t, <2>1 DEF SyncStates, SyncSteps, MemoryTypes
  <2>4. /\ d.at = "began" /\ d.reader = reader /\ d.written = writes /\ d.base = None /\ d.token = None
        /\ d.want = {} /\ d.gone = {} /\ ~d.whole /\ \A n \in Names : d.put[n] = 0
    BY <2>1 DEF SyncOff
  <2>5. saving # s
    BY <1>0, <2>2 DEF Turns, Saving
  <2>6. sync'[s] = d
    BY <1>s, <2>2
  <2>7. SyncRight(s)'
    BY <2>4, <2>6 DEF SyncRight, Ahead, Behind, AskedInStep, RestInStep, WantedThere, PulledRight, Live
  <2> QED  BY <1>v, <2>2, <2>3, <2>4, <2>5, <2>7, SyncMoves
<1>2. CASE PullFails(s) \/ SaveFails(s)
  <2>1. PICK d : d = SyncOff
    OBVIOUS
  <2>2. /\ sync' = [sync EXCEPT ![s] = d] /\ syncing' = (syncing /\ sync[s].reader # reader)
        /\ sync[s].at # "off"
        /\ UNCHANGED <<reports, version, mod, there, held, copy, late, missing, reader, writes, write>>
    BY <1>2, <2>1 DEF PullFails, SaveFails, Ended, server, disk
  <2>3. saving' = IF saving = s THEN Nobody ELSE saving
    BY <1>0, <1>2 DEF PullFails, SaveFails, Turns, Saving
  <2> QED  BY <1>o, <1>v, <2>1, <2>2, <2>3, SyncMoves
<1> QED  BY <1>1, <1>2

\* The sync moves on: the same reader's, started when it was.
LEMMA SyncPulls ==
    ASSUME MirrorInv, NEW s \in Syncs, ReadHeld(s) \/ Report(s) \/ CTag(s) \/ List(s) \/ Fetch(s)
    PROVE  MirrorInv'
<1>0. Types /\ Turns /\ InStep /\ SyncRight(s)
  BY DEF MirrorInv
<1>t. ServerTypes /\ DiskTypes /\ MemoryTypes /\ SyncTypes /\ WriteTypes
  BY <1>0 DEF Types
<1>s. sync \in [Syncs -> SyncStates] /\ sync[s] \in SyncStates
  BY <1>t DEF SyncTypes
<1>r. Ahead(s) /\ Behind(s) /\ AskedInStep(s) /\ RestInStep(s) /\ WantedThere(s) /\ PulledRight(s)
  BY <1>0 DEF SyncRight
<1>m. Marks \subseteq Int /\ Versions \subseteq Marks /\ version \in Versions
  BY <1>t, MirrorAssumption DEF Marks, Versions, None, ServerTypes
<1>i. /\ version \in Int /\ held \in Int /\ held <= version /\ None \in Int
      /\ \A n \in Names : mod[n] \in Int /\ mod[n] <= version /\ 1 <= mod[n]
      /\ \A q \in Syncs : sync[q].base \in Int /\ sync[q].token \in Int /\ sync[q].token <= version /\ sync[q].base <= version
      /\ \A w \in Writers : write[w].held <= version
  <2>1. \A q \in Syncs : sync[q].base \in Int /\ sync[q].token \in Int
    BY <1>t, <1>m DEF SyncTypes, SyncStates
  <2>2. \A n \in Names : mod[n] \in Int
    BY <1>t, <1>m DEF ServerTypes
  <2> QED  BY <1>t, <1>m, <2>1, <2>2 DEF SyncTypes, ServerTypes, DiskTypes, WriteTypes, None
<1>u. /\ UNCHANGED <<reports, version, mod, there, held, copy, late, missing, reader, writes, syncing, saving, write>>
      /\ sync[s].at \notin {"off", "commit"} /\ saving # s
  <2>1. /\ UNCHANGED <<reports, version, mod, there, held, copy, late, missing, reader, writes, syncing, saving, write>>
        /\ sync[s].at \notin {"off", "commit"}
    BY DEF ReadHeld, Report, CTag, List, Fetch, server, disk, memory
  <2> QED  BY <1>0, <2>1 DEF Turns, Saving
\* What is left to show of each.
<1>g. ASSUME NEW d \in SyncStates, sync' = [sync EXCEPT ![s] = d],
             d.at \in {"asked", "listing", "fetching", "pulled"},
             d.reader = sync[s].reader, d.written = sync[s].written,
             d.base <= version, d.token <= version,
             d.at \in {"listing", "fetching", "pulled"} => d.token # None,
             d.at \in {"asked", "listing"} => d.want = {} /\ d.gone = {} /\ ~d.whole,
             d.at # "pulled" => \A n \in Names : d.put[n] = 0,
             d.at = "pulled" => d.want = {},
             d.at = "listing" => ~reports,
             SyncRight(s)'
      PROVE  MirrorInv'
  BY <1>g, <1>u, SyncMoves
<1>k. ASSUME NEW d \in SyncStates, sync' = [sync EXCEPT ![s] = d], d.at \in {"asked", "listing", "fetching", "pulled"},
             d.reader = sync[s].reader, d.written = sync[s].written
      PROVE  /\ sync'[s] = d /\ \A t \in Syncs \ {s} : sync'[t] = sync[t]
             /\ Live(s)' => Live(s)
             /\ \A n \in Names : (Good(n) => Good(n)') /\ Content(n)' = Content(n)
             /\ \A n \in Names : Older(s, n) => Older(s, n)'
  <2>1. sync'[s] = d /\ \A t \in Syncs \ {s} : sync'[t] = sync[t]
    BY <1>s, <1>k
  <2>2. Live(s)' => Live(s)
    BY <1>u, <1>k, <2>1 DEF Live, Current
  <2>3. \A n \in Names : (Good(n) => Good(n)') /\ Content(n)' = Content(n)
    BY <1>u DEF Good, Matches, Content
  <2>4. \A n \in Names : Older(s, n) => Older(s, n)'
    BY <1>u, <2>1 DEF Older
  <2> QED  BY <2>1, <2>2, <2>3, <2>4
<1>1. CASE ReadHeld(s)
  <2>1. PICK d : d = [sync[s] EXCEPT !.at = "asked", !.base = held]
    OBVIOUS
  <2>2. sync[s].at = "began" /\ sync' = [sync EXCEPT ![s] = d]
    BY <1>1, <2>1 DEF ReadHeld
  <2>3. /\ d \in SyncStates /\ d.at = "asked" /\ d.base = held /\ d.reader = sync[s].reader /\ d.written = sync[s].written
        /\ d.token = sync[s].token /\ d.want = sync[s].want /\ d.gone = sync[s].gone /\ d.whole = sync[s].whole
        /\ d.put = sync[s].put /\ d.dropped = sync[s].dropped
    BY <1>t, <1>s, <2>1 DEF SyncStates, SyncSteps, DiskTypes
  <2>4. /\ sync'[s] = d /\ \A t \in Syncs \ {s} : sync'[t] = sync[t]
        /\ Live(s)' => Live(s)
        /\ \A n \in Names : (Good(n) => Good(n)') /\ Content(n)' = Content(n)
    BY <1>k, <2>2, <2>3
  <2>5. Behind(s)'
    <3> SUFFICES ASSUME NEW t \in Syncs \ {s}, sync[t].at = "commit" PROVE held <= sync[t].token
      BY <2>3, <2>4 DEF Behind
    <3>1. Ahead(t) /\ Live(t)
      BY DEF MirrorInv, SyncRight, Live
    <3> QED  BY <3>1 DEF Ahead
  <2>6. AskedInStep(s)'
    BY <1>0, <1>u, <2>3, <2>4 DEF AskedInStep, InStep, Rests
  <2>7. SyncRight(s)'
    BY <2>3, <2>4, <2>5, <2>6 DEF SyncRight, Ahead, RestInStep, WantedThere, PulledRight
  <2>8. d.token <= version /\ d.want = {} /\ d.gone = {} /\ ~d.whole /\ \A n \in Names : d.put[n] = 0
    BY <1>t, <2>2, <2>3 DEF SyncTypes
  <2> QED  BY <1>g, <1>i, <2>2, <2>3, <2>7, <2>8
<1>2. CASE Report(s)
  <2>0. PICK from \in {sync[s].base, None} :
          sync' = [sync EXCEPT ![s].at = "fetching", ![s].base = None, ![s].token = version, ![s].whole = from = None,
                               ![s].dropped = @ /\ from # None,
                               ![s].want = {n \in there : mod[n] > from},
                               ![s].gone = {n \in Names \ there : from # None /\ mod[n] > from}]
    BY <1>2 DEF Report
  <2>w. PICK want \in SUBSET Names : want = {n \in there : mod[n] > from}
    BY <1>t DEF ServerTypes
  <2>o. PICK gone \in SUBSET Names : gone = {n \in Names \ there : from # None /\ mod[n] > from}
    OBVIOUS
  <2>h. PICK whole \in BOOLEAN : whole <=> from = None
    OBVIOUS
  <2>p. PICK dropped \in BOOLEAN : dropped <=> sync[s].dropped /\ from # None
    OBVIOUS
  <2>1. PICK d : d = [sync[s] EXCEPT !.at = "fetching", !.base = None, !.token = version, !.whole = whole, !.dropped = dropped,
                                     !.want = want, !.gone = gone]
    OBVIOUS
  <2>2. sync[s].at = "asked" /\ reports
    BY <1>2 DEF Report
  <2>3. sync' = [sync EXCEPT ![s] = d]
    <3>1. (from = None) = whole
      BY <2>h
    <3>2. sync[s].dropped \in BOOLEAN
      BY <1>s DEF SyncStates
    <3>3. (sync[s].dropped /\ from # None) = dropped
      BY <2>p, <3>2
    <3> QED  BY <1>s, <2>0, <2>1, <2>w, <2>o, <3>1, <3>3
  <2>4. /\ d \in SyncStates /\ d.at = "fetching" /\ d.base = None /\ d.token = version /\ d.whole = whole
        /\ d.dropped = dropped /\ d.want = want /\ d.gone = gone /\ d.put = sync[s].put
        /\ d.reader = sync[s].reader /\ d.written = sync[s].written
    BY <1>s, <1>m, <2>1 DEF SyncStates, SyncSteps, Marks
  <2>5. /\ sync'[s] = d /\ \A t \in Syncs \ {s} : sync'[t] = sync[t]
        /\ Live(s)' => Live(s)
        /\ \A n \in Names : (Good(n) => Good(n)') /\ Content(n)' = Content(n)
        /\ \A n \in Names : Older(s, n) => Older(s, n)'
    BY <1>k, <2>3, <2>4
  <2>6. Ahead(s)'
    BY <1>i, <1>u, <2>4, <2>5 DEF Ahead
  \* What it did not ask for is covered by the token it asked from.
  <2>7. ASSUME NEW n \in Names, n \notin Covered(s)' PROVE mod[n] <= sync[s].base /\ from = sync[s].base /\ from # None
    <3>1. n \notin want /\ ~whole /\ n \notin gone
      BY <2>4, <2>5, <2>7 DEF Covered, Saved
    <3>2. from # None /\ from = sync[s].base
      BY <2>h, <3>1
    <3>3. ~(mod[n] > from)
      BY <2>w, <2>o, <3>1, <3>2
    <3> QED  BY <1>i, <3>2, <3>3
  <2>8. Behind(s)'
    <3> SUFFICES ASSUME Live(s), NEW n \in Names, n \notin Covered(s)' PROVE Older(s, n)'
      BY <2>4, <2>5 DEF Behind
    <3>1. Older(s, n)
      <4> SUFFICES ASSUME NEW t \in Syncs \ {s}, sync[t].at = "commit" PROVE mod[n] <= sync[t].token
        BY DEF Older
      <4>1. sync[s].base <= sync[t].token
        BY <1>r, <2>2 DEF Behind
      <4> QED  BY <1>i, <2>7, <4>1
    <3> QED  BY <2>5, <3>1
  <2>9. RestInStep(s)'
    <3> SUFFICES ASSUME Live(s), NEW n \in Names, n \notin Covered(s)' PROVE Rests(s, n)'
      BY <2>5 DEF RestInStep
    <3>1. mod[n] <= sync[s].base /\ from # None
      BY <2>7
    <3>2. Rests(s, n)
      BY <1>r, <2>2, <3>1 DEF AskedInStep
    <3> QED  BY <1>u, <2>p, <2>4, <2>5, <3>1, <3>2 DEF Rests
  <2>10. WantedThere(s)'
    <3> SUFFICES ASSUME NEW n \in Names
                 PROVE  /\ n \in want => n \in there
                        /\ n \in gone => n \notin there
                        /\ whole /\ n \notin want => n \notin there
      BY <1>u, <2>4, <2>5 DEF WantedThere
    <3>1. whole /\ n \in there => mod[n] > from
      BY <1>i, <2>h DEF None
    <3> QED  BY <2>w, <2>o, <3>1
  <2>11. SyncRight(s)'
    BY <2>4, <2>5, <2>6, <2>8, <2>9, <2>10 DEF SyncRight, AskedInStep, PulledRight
  <2>12. version # None /\ version <= version /\ None <= version
    BY <1>m, MirrorAssumption DEF Versions, None
  <2>13. \A n \in Names : d.put[n] = 0
    BY <1>t, <2>2, <2>4 DEF SyncTypes
  <2> QED  BY <1>g, <2>2, <2>3, <2>4, <2>11, <2>12, <2>13
<1>3. CASE CTag(s)
  <2>a. PICK at \in {"pulled", "listing"} : at = IF version = sync[s].base THEN "pulled" ELSE "listing"
    OBVIOUS
  <2>1. PICK d : d = [sync[s] EXCEPT !.at = at, !.base = None, !.token = version]
    OBVIOUS
  <2>2. sync[s].at = "asked" /\ ~reports /\ sync' = [sync EXCEPT ![s] = d]
    BY <1>3, <2>a, <2>1 DEF CTag
  <2>3. /\ d \in SyncStates /\ d.at = at /\ d.base = None /\ d.token = version /\ d.reader = sync[s].reader /\ d.written = sync[s].written
        /\ d.want = sync[s].want /\ d.gone = sync[s].gone /\ d.whole = sync[s].whole
        /\ d.put = sync[s].put /\ d.dropped = sync[s].dropped
    BY <1>s, <1>m, <2>a, <2>1 DEF SyncStates, SyncSteps, Marks
  <2>4. /\ sync'[s] = d /\ \A t \in Syncs \ {s} : sync'[t] = sync[t]
        /\ Live(s)' => Live(s)
        /\ \A n \in Names : (Good(n) => Good(n)') /\ Content(n)' = Content(n)
    BY <1>k, <2>a, <2>2, <2>3
  <2>5. d.want = {} /\ d.gone = {} /\ ~d.whole /\ \A n \in Names : d.put[n] = 0
    BY <1>t, <2>2, <2>3 DEF SyncTypes
  <2>6. Ahead(s)'
    BY <1>i, <1>u, <2>3, <2>4 DEF Ahead
  <2>7. RestInStep(s)'
    <3> SUFFICES ASSUME Live(s), at = "pulled", NEW n \in Names PROVE Rests(s, n)'
      BY <2>a, <2>3, <2>4 DEF RestInStep
    <3>1. Rests(s, n)
      BY <1>i, <1>r, <2>a, <2>2 DEF AskedInStep
    <3> QED  BY <1>u, <2>3, <2>4, <3>1 DEF Rests
  <2>8. PulledRight(s)'
    <3>1. Saved(s)' = {}
      BY <2>4, <2>5 DEF Saved
    <3> QED  BY <3>1 DEF PulledRight
  <2>9. SyncRight(s)'
    BY <1>u, <2>a, <2>2, <2>3, <2>4, <2>6, <2>7, <2>8 DEF SyncRight, Behind, AskedInStep, WantedThere
  <2>10. version # None /\ version <= version /\ None <= version
    BY <1>m, MirrorAssumption DEF Versions, None
  <2> QED  BY <1>g, <2>a, <2>2, <2>3, <2>5, <2>9, <2>10
<1>4. CASE List(s)
  <2>w. PICK want \in SUBSET Names : want = {n \in there : copy[n] # mod[n]}
    BY <1>t DEF ServerTypes
  <2>o. PICK gone \in SUBSET Names : gone = {n \in Names \ there : copy[n] # 0}
    OBVIOUS
  <2>1. PICK d : d = [sync[s] EXCEPT !.at = "fetching", !.dropped = FALSE, !.want = want, !.gone = gone]
    OBVIOUS
  <2>2. sync[s].at = "listing" /\ sync' = [sync EXCEPT ![s] = d]
    BY <1>4, <2>w, <2>o, <2>1 DEF List
  <2>3. /\ d \in SyncStates /\ d.at = "fetching" /\ d.base = sync[s].base /\ d.token = sync[s].token
        /\ d.whole = sync[s].whole /\ d.want = want /\ d.gone = gone /\ d.put = sync[s].put
        /\ d.reader = sync[s].reader /\ d.written = sync[s].written
    BY <1>s, <2>1 DEF SyncStates, SyncSteps
  <2>4. /\ sync'[s] = d /\ \A t \in Syncs \ {s} : sync'[t] = sync[t]
        /\ Live(s)' => Live(s)
        /\ \A n \in Names : (Good(n) => Good(n)') /\ Content(n)' = Content(n)
    BY <1>k, <2>2, <2>3
  <2>5. ~reports /\ ~sync[s].whole /\ sync[s].token # None /\ \A n \in Names : sync[s].put[n] = 0
    BY <1>t, <2>2 DEF SyncTypes
  <2>6. Ahead(s)'
    BY <1>r, <1>u, <2>2, <2>3, <2>4 DEF Ahead
  <2>7. ASSUME NEW n \in Names, n \notin Covered(s)' PROVE Good(n)
    <3>1. n \notin want /\ n \notin gone
      BY <2>3, <2>4, <2>5, <2>7 DEF Covered, Saved
    <3>2. copy[n] = Content(n)
      BY <2>w, <2>o, <3>1 DEF Content
    <3> QED  BY <3>2 DEF Good, Matches
  <2>8. RestInStep(s)'
    BY <2>4, <2>7 DEF RestInStep, Rests
  \* A listing is made only where the server has no reports.
  <2>9. Behind(s)'
    BY <1>u, <2>3, <2>4, <2>5 DEF Behind
  <2>10. WantedThere(s)'
    BY <1>u, <2>w, <2>o, <2>3, <2>4, <2>5 DEF WantedThere
  <2>11. SyncRight(s)'
    BY <2>3, <2>4, <2>6, <2>8, <2>9, <2>10 DEF SyncRight, AskedInStep, PulledRight
  <2> QED  BY <1>g, <1>i, <2>2, <2>3, <2>5, <2>11
<1>5. CASE Fetch(s)
  <2>p. PICK put \in [Names -> Versions] : put = [n \in Names |-> IF n \in sync[s].want THEN Content(n) ELSE 0]
    <3>1. \A n \in Names : Content(n) \in Versions
      BY <1>t, MirrorAssumption DEF Content, ServerTypes, Versions
    <3>2. 0 \in Versions
      BY MirrorAssumption DEF Versions
    <3> QED  BY <3>1, <3>2
  <2>1. PICK d : d = [sync[s] EXCEPT !.at = "pulled", !.want = {}, !.put = put]
    OBVIOUS
  <2>2. sync[s].at = "fetching" /\ sync' = [sync EXCEPT ![s] = d]
    BY <1>5, <2>p, <2>1 DEF Fetch
  <2>3. /\ d \in SyncStates /\ d.at = "pulled" /\ d.base = sync[s].base /\ d.token = sync[s].token
        /\ d.whole = sync[s].whole /\ d.want = {} /\ d.gone = sync[s].gone /\ d.put = put
        /\ d.reader = sync[s].reader /\ d.written = sync[s].written
        /\ d.dropped = sync[s].dropped /\ d.overtaken = sync[s].overtaken
    BY <1>s, <2>1 DEF SyncStates, SyncSteps
  <2>4. /\ sync'[s] = d /\ \A t \in Syncs \ {s} : sync'[t] = sync[t]
        /\ Live(s)' => Live(s)
        /\ \A n \in Names : (Good(n) => Good(n)') /\ Content(n)' = Content(n)
        /\ \A n \in Names : Older(s, n) => Older(s, n)'
    BY <1>k, <2>2, <2>3
  <2>5. sync[s].token # None /\ \A n \in Names : sync[s].put[n] = 0
    BY <1>t, <2>2 DEF SyncTypes
  <2>6. Ahead(s)'
    BY <1>r, <1>u, <2>2, <2>3, <2>4 DEF Ahead
  \* What it did not get, it did not ask for, or will in the next sync.
  <2>7. ASSUME NEW n \in Names, n \notin Covered(s)', mod[n] <= sync[s].token PROVE n \notin Covered(s)
    <3>1. put[n] = 0 /\ ~sync[s].whole /\ n \notin sync[s].gone
      BY <2>3, <2>4, <2>7 DEF Covered, Saved
    <3>2. n \notin sync[s].want
      <4>1. n \in sync[s].want => n \in there
        BY <1>r, <2>2, <2>7 DEF WantedThere
      <4>2. n \in there => Content(n) # 0
        BY <1>i DEF Content
      <4> QED  BY <2>p, <3>1, <4>1, <4>2
    <3> QED  BY <2>5, <3>1, <3>2 DEF Covered, Saved
  <2>8. RestInStep(s)'
    <3> SUFFICES ASSUME Live(s), NEW n \in Names, n \notin Covered(s)', mod[n] <= sync[s].token, ~sync[s].overtaken PROVE Rests(s, n)'
      BY <1>u, <2>3, <2>4 DEF RestInStep
    <3>1. Rests(s, n)
      BY <1>r, <2>2, <2>7 DEF RestInStep
    <3> QED  BY <1>u, <2>3, <2>4, <3>1 DEF Rests
  <2>9. Behind(s)'
    <3> SUFFICES ASSUME Live(s), reports, NEW n \in Names, n \notin Covered(s)', mod[n] <= sync[s].token PROVE Older(s, n)'
      BY <1>u, <2>3, <2>4 DEF Behind
    <3>1. Older(s, n)
      BY <1>r, <2>2, <2>7 DEF Behind
    <3> QED  BY <2>4, <3>1
  <2>10. PulledRight(s)'
    <3> SUFFICES ASSUME NEW n \in Names, n \in Saved(s)', mod[n] <= sync[s].token PROVE put[n] = Content(n)
      <4>1. Saved(s)' \subseteq Names
        BY <1>s, <2>3, <2>4 DEF Saved, SyncStates
      <4> QED  BY <1>u, <2>3, <2>4, <4>1 DEF PulledRight
    <3>1. CASE n \in sync[s].want
      BY <2>p, <3>1
    <3>2. CASE n \notin sync[s].want
      <4>1. put[n] = 0
        BY <2>p, <3>2
      <4>2. sync[s].whole \/ n \in sync[s].gone
        BY <2>3, <2>4, <4>1 DEF Saved
      <4>3. n \notin there
        BY <1>r, <2>2, <3>2, <4>2 DEF WantedThere
      <4> QED  BY <4>1, <4>3 DEF Content
    <3> QED  BY <3>1, <3>2
  <2>11. SyncRight(s)'
    BY <2>3, <2>4, <2>6, <2>8, <2>9, <2>10 DEF SyncRight, AskedInStep, WantedThere
  <2> QED  BY <1>g, <1>i, <2>2, <2>3, <2>5, <2>11
<1> QED  BY <1>1, <1>2, <1>3, <1>4, <1>5

\* save, under saving: the sync goes on if it is current, and otherwise ends.
LEMMA SyncChecks ==
    ASSUME MirrorInv, NEW s \in Syncs, SaveCheck(s)
    PROVE  MirrorInv'
<1>0. Types /\ Turns /\ SyncRight(s)
  BY DEF MirrorInv
<1>t. ServerTypes /\ SyncTypes
  BY <1>0 DEF Types
<1>s. sync \in [Syncs -> SyncStates] /\ sync[s] \in SyncStates
  BY <1>t DEF SyncTypes
<1>u. /\ UNCHANGED <<reports, version, mod, there, held, copy, late, missing, reader, writes, write>>
      /\ sync[s].at = "pulled" /\ saving = Nobody
  BY DEF SaveCheck, server, disk
<1>n. s # Nobody
  BY MirrorAssumption DEF Nobody
<1>1. CASE Current(s)
  <2>1. PICK d : d = [sync[s] EXCEPT !.at = "commit"]
    OBVIOUS
  <2>2. sync' = [sync EXCEPT ![s] = d] /\ saving' = s /\ syncing' = syncing
    BY <1>1, <2>1 DEF SaveCheck
  <2>3. /\ d \in SyncStates /\ d.at = "commit" /\ d.base = sync[s].base /\ d.token = sync[s].token
        /\ d.whole = sync[s].whole /\ d.want = sync[s].want /\ d.gone = sync[s].gone /\ d.put = sync[s].put
        /\ d.reader = sync[s].reader /\ d.written = sync[s].written
        /\ d.dropped = sync[s].dropped /\ d.overtaken = sync[s].overtaken
    BY <1>s, <2>1 DEF SyncStates, SyncSteps
  <2>4. sync'[s] = d /\ \A t \in Syncs \ {s} : sync'[t] = sync[t]
    BY <1>s, <2>2
  <2>5. d.base <= version /\ d.token <= version /\ d.token # None /\ d.want = {}
    BY <1>t, <1>u, <2>3 DEF SyncTypes
  <2>6. Live(s) /\ Saved(s)' = Saved(s) /\ Covered(s)' = Covered(s)
    BY <1>1, <1>u, <2>3, <2>4 DEF Live, Saved, Covered
  <2>7. Ahead(s) /\ RestInStep(s) /\ PulledRight(s)
    BY <1>0 DEF SyncRight
  <2>8. Ahead(s)'
    BY <1>u, <2>3, <2>4, <2>6, <2>7 DEF Ahead
  <2>9. RestInStep(s)'
    <3> SUFFICES ASSUME NEW n \in Names \ Covered(s), mod[n] <= sync[s].token, ~sync[s].overtaken PROVE Rests(s, n)'
      BY <1>u, <2>3, <2>4, <2>6 DEF RestInStep
    <3>1. Rests(s, n)
      BY <1>u, <2>6, <2>7 DEF RestInStep
    <3> QED  BY <1>u, <2>3, <2>4, <3>1 DEF Rests, Good, Matches, Content
  <2>10. PulledRight(s)'
    BY <1>u, <2>3, <2>4, <2>6, <2>7 DEF PulledRight, Content
  <2>11. SyncRight(s)'
    BY <2>3, <2>4, <2>8, <2>9, <2>10 DEF SyncRight, Behind, AskedInStep, WantedThere
  <2> QED  BY <1>1, <1>u, <2>2, <2>3, <2>5, <2>11, SyncMoves
<1>2. CASE ~Current(s)
  <2>1. PICK d : d = SyncOff
    OBVIOUS
  <2>2. /\ sync' = [sync EXCEPT ![s] = d] /\ syncing' = (syncing /\ sync[s].reader # reader)
        /\ saving' = saving
    BY <1>2, <2>1 DEF SaveCheck, Ended
  <2>3. /\ d \in SyncStates /\ d.at = "off" /\ d.base = None /\ d.token = None /\ d.want = {}
        /\ \A n \in Names : d.put[n] = 0
    BY <2>1, OffTypes DEF SyncOff
  <2>4. None <= version
    BY <1>t, MirrorAssumption DEF ServerTypes, Versions, None
  <2> QED  BY <1>u, <1>n, <2>2, <2>3, <2>4, SyncMoves
<1> QED  BY <1>1, <1>2

----------------------------------------------------------------------------
(* The steps that leave every sync and the copy *)

LEMMA SyncsLeft ==
    ASSUME MirrorInv, Types', Turns', UNCHANGED <<sync, reports, held, copy, late, missing>>,
           \A n \in Names : (mod'[n] = mod[n] /\ (n \in there' <=> n \in there)) \/ mod'[n] > version,
           \A q \in Syncs : Live(q)' =>
               Live(q) /\ \A w \in Writers : write'[w].at = "applying" => write[w].at = "applying" /\ write'[w].held = write[w].held
    PROVE  MirrorInv'
<1>0. Types /\ Turns /\ InStep /\ \A q \in Syncs : SyncRight(q)
  BY DEF MirrorInv
<1>t. ServerTypes /\ DiskTypes
  BY <1>0 DEF Types
<1>i. version \in Int /\ held \in Int /\ held <= version /\ \A n \in Names : mod[n] \in Int /\ mod[n] <= version
  BY <1>t, MirrorAssumption DEF ServerTypes, DiskTypes, Versions, Marks, None
<1>j. \A n \in Names : mod'[n] \in Int
  BY MirrorAssumption DEF Types, ServerTypes, Versions
<1>1. ASSUME NEW n \in Names, mod'[n] <= version PROVE mod'[n] = mod[n] /\ (Good(n) => Good(n)')
  <2>1. mod'[n] = mod[n] /\ (n \in there' <=> n \in there)
    BY <1>i, <1>j, <1>1
  <2> QED  BY <2>1 DEF Good, Matches, Content
<1>2. InStep'
  <2> SUFFICES ASSUME NEW n \in Names, mod'[n] <= held PROVE Good(n)'
    BY DEF InStep
  <2>1. mod'[n] <= version
    BY <1>i, <1>j
  <2> QED  BY <1>0, <1>1, <2>1 DEF InStep
<1>3. ASSUME NEW q \in Syncs PROVE SyncRight(q)'
  <2>1. GoesOn(q)
    BY DEF GoesOn
  <2>2. Live(q)' => Live(q) /\ NoneAhead(q)
    BY <1>i DEF NoneAhead
  <2>3. \A n \in Names : mod'[n] = mod[n] /\ Rests(q, n) => Rests(q, n)'
    BY <1>i, <1>1 DEF Rests
  <2> QED  BY <1>0, <2>1, <2>2, <2>3, SyncGoesOn
<1> QED  BY <1>2, <1>3 DEF MirrorInv

LEMMA ServerMoves ==
    ASSUME ServerTypes, NEW n \in Names, NEW exists \in BOOLEAN, ServerChange(n, exists)
    PROVE  /\ ServerTypes' /\ reports' = reports /\ version' = version + 1 /\ version + 1 \in Versions
           /\ \A m \in Names : (mod'[m] = mod[m] /\ (m \in there' <=> m \in there)) \/ mod'[m] > version
<1>1. version \in Int /\ version + 1 \in Versions /\ reports' = reports /\ version' = version + 1
  BY MirrorAssumption DEF ServerTypes, ServerChange, Versions
<1>2. mod' \in [Names -> Versions] /\ mod'[n] = version + 1 /\ \A m \in Names \ {n} : mod'[m] = mod[m]
  BY <1>1 DEF ServerTypes, ServerChange
<1>3. there' \subseteq Names /\ \A m \in Names \ {n} : m \in there' <=> m \in there
  BY DEF ServerTypes, ServerChange
<1>4. \A m \in Names : mod[m] \in Int
  BY MirrorAssumption DEF ServerTypes, Versions
<1>5. \A m \in Names : 1 <= mod'[m] /\ mod'[m] <= version'
  <2>1. 1 <= version + 1
    BY <1>1, MirrorAssumption DEF ServerTypes, Versions
  <2> QED  BY <1>1, <1>2, <1>4, <2>1 DEF ServerTypes
<1>6. ServerTypes'
  BY <1>1, <1>2, <1>3, <1>5 DEF ServerTypes
<1>7. mod'[n] > version
  BY <1>1, <1>2
<1> QED  BY <1>1, <1>2, <1>3, <1>6, <1>7

\* The server has grown, and all that is noted is of before.
LEMMA LaterServer ==
    ASSUME Types, version' = version + 1, UNCHANGED <<held, copy, late, missing, sync, reports>>
    PROVE  DiskTypes' /\ SyncTypes' /\ \A w \in Writers : write[w].held <= version'
<1>1. version \in Int
  BY MirrorAssumption DEF Types, ServerTypes, Versions
<1>2. Marks \subseteq Int
  BY MirrorAssumption DEF Marks, None
<1>3. \A m \in Marks : m <= version => m <= version'
  BY <1>1, <1>2
<1>4. DiskTypes'
  BY <1>3 DEF Types, DiskTypes
<1>5. \A s \in Syncs : sync[s].base \in Marks /\ sync[s].token \in Marks
  BY DEF Types, SyncTypes, SyncStates
<1>6. SyncTypes'
  BY <1>3, <1>5 DEF Types, SyncTypes
<1>7. \A w \in Writers : write[w].held \in Marks
  BY DEF Types, WriteTypes, WriteStates
<1> QED  BY <1>3, <1>4, <1>6, <1>7 DEF Types, WriteTypes

LEMMA ServerStepKeeps ==
    ASSUME MirrorInv, (\E n \in Names : Foreign(n)) \/ (\E w \in Writers : Send(w))
    PROVE  MirrorInv'
<1>0. Types /\ Turns
  BY DEF MirrorInv
<1>t. ServerTypes /\ DiskTypes /\ MemoryTypes /\ SyncTypes /\ WriteTypes
  BY <1>0 DEF Types
<1>u. UNCHANGED <<held, copy, late, missing, reader, writes, syncing, saving, sync>>
  BY DEF Foreign, Send, disk, memory
<1>l. \A q \in Syncs : Live(q)' => Live(q)
  BY <1>u DEF Live, Current
<1>v. version \in Int /\ None <= version /\ None \in Marks
  BY <1>t, MirrorAssumption DEF ServerTypes, Versions, None, Marks
<1>w. write \in [Writers -> WriteStates] /\ \A w \in Writers : write[w].held <= version
  BY <1>t DEF WriteTypes
\* The server changed, or nothing there did.
<1>s. /\ ServerTypes' /\ DiskTypes' /\ SyncTypes' /\ reports' = reports /\ None <= version'
      /\ \A w \in Writers : write[w].held <= version'
      /\ \A m \in Names : (mod'[m] = mod[m] /\ (m \in there' <=> m \in there)) \/ mod'[m] > version
  <2>1. ASSUME NEW n \in Names, NEW exists \in BOOLEAN, ServerChange(n, exists)
        PROVE  <1>s!:
    <3>1. /\ ServerTypes' /\ reports' = reports /\ version' = version + 1
          /\ \A m \in Names : (mod'[m] = mod[m] /\ (m \in there' <=> m \in there)) \/ mod'[m] > version
      BY <1>t, <2>1, ServerMoves
    <3>2. DiskTypes' /\ SyncTypes' /\ \A w \in Writers : write[w].held <= version'
      BY <1>0, <1>u, <3>1, LaterServer
    <3>3. None <= version'
      BY <1>v, <3>1 DEF None
    <3> QED  BY <3>1, <3>2, <3>3
  <2>2. ASSUME UNCHANGED server PROVE <1>s!:
    BY <1>t, <1>u, <1>v, <1>w, <2>2 DEF server, ServerTypes, DiskTypes, SyncTypes
  <2>3. \/ \E n \in Names, exists \in BOOLEAN : ServerChange(n, exists)
        \/ UNCHANGED server
    BY DEF Foreign, Send
  <2> QED  BY <2>1, <2>2, <2>3
<1>1. CASE \E n \in Names : Foreign(n)
  <2>1. UNCHANGED write
    BY <1>1 DEF Foreign
  <2>2. Types' /\ Turns'
    BY <1>0, <1>t, <1>u, <1>s, <2>1 DEF Types, MemoryTypes, WriteTypes, Turns, Saving, OneSync, HeldAsRead
  <2> QED  BY <1>l, <1>u, <1>s, <2>1, <2>2, SyncsLeft
<1>2. CASE \E w \in Writers : Send(w)
  <2>1. PICK w \in Writers : Send(w)
    BY <1>2
  <2>2. PICK k \in Kinds, n \in Names, etag \in BOOLEAN :
          /\ \/ k = "put" /\ ServerChange(n, TRUE)
             \/ k \in {"delete", "move"} /\ n \in there /\ ServerChange(n, FALSE)
             \/ k \in {"refused", "props"} /\ UNCHANGED server
          /\ write' = [write EXCEPT ![w] = [at |-> "sent", kind |-> k,
                                            name |-> IF k \in {"put", "delete"} THEN n ELSE Nobody,
                                            body |-> IF k = "put" THEN version + 1 ELSE 0,
                                            etag |-> etag, held |-> None]]
    BY <2>1 DEF Send
  <2>3. PICK body \in Versions : body = IF k = "put" THEN version + 1 ELSE 0
    <3>1. k = "put" => version + 1 \in Versions
      BY <1>t, <2>2, ServerMoves
    <3>2. 0 \in Versions
      BY MirrorAssumption DEF Versions
    <3> QED  BY <3>1, <3>2
  <2>4. PICK name \in Names \cup {Nobody} : name = IF k \in {"put", "delete"} THEN n ELSE Nobody
    OBVIOUS
  <2>5. PICK d : d = [at |-> "sent", kind |-> k, name |-> name, body |-> body, etag |-> etag, held |-> None]
    OBVIOUS
  <2>6. d \in WriteStates /\ d.at = "sent" /\ d.held = None
    BY <1>v, <2>5, MirrorAssumption DEF WriteStates
  <2>7. write' = [write EXCEPT ![w] = d] /\ write[w].at = "off"
    BY <2>1, <2>2, <2>3, <2>4, <2>5 DEF Send
  <2>8. write' \in [Writers -> WriteStates] /\ write'[w] = d /\ \A x \in Writers \ {w} : write'[x] = write[x]
    BY <1>w, <2>6, <2>7
  <2>9. WriteTypes'
    BY <1>t, <1>s, <2>6, <2>8 DEF WriteTypes
  <2>10. Types'
    BY <1>t, <1>u, <1>s, <2>9 DEF Types, MemoryTypes
  <2>11. \A x \in Writers : (write'[x].at = "applying" <=> write[x].at = "applying") /\ (write'[x].at = "applying" => write'[x] = write[x])
    BY <2>6, <2>7, <2>8
  <2>12. Turns'
    BY <1>0, <1>u, <2>11 DEF Turns, Saving, OneSync, HeldAsRead
  <2> QED  BY <1>l, <1>u, <1>s, <2>10, <2>11, <2>12, SyncsLeft
<1> QED  BY <1>1, <1>2

\* A write that is not applied, signing out, and nothing.
LEMMA QuietStepKeeps ==
    ASSUME MirrorInv, (\E w \in Writers : Wrote(w) \/ ApplyFails(w)) \/ Forget \/ UNCHANGED vars
    PROVE  MirrorInv'
<1>0. Types /\ Turns
  BY DEF MirrorInv
<1>t. ServerTypes /\ DiskTypes /\ MemoryTypes /\ SyncTypes /\ WriteTypes
  BY <1>0 DEF Types
<1>u. UNCHANGED <<reports, version, mod, there, held, copy, late, missing, sync>>
  BY DEF Wrote, ApplyFails, Forget, vars, server, disk
<1>v. ServerTypes' /\ DiskTypes' /\ SyncTypes'
  BY <1>t, <1>u DEF ServerTypes, DiskTypes, SyncTypes
<1>n. /\ \A q \in Syncs : q # Nobody /\ q \notin Writers
      /\ \A w \in Writers : w # Nobody /\ w \notin Syncs
  BY MirrorAssumption DEF Nobody
<1>i. reader \in Int /\ writes \in Int /\ \A q \in Syncs : sync[q].reader \in Int /\ sync[q].written \in Int
  <2>1. 0..MaxForgets \subseteq Int
    OBVIOUS
  <2> QED  BY <1>t, <2>1 DEF MemoryTypes, SyncTypes, SyncStates
<1>w. write \in [Writers -> WriteStates]
  BY <1>t DEF WriteTypes
<1>o. WriteOff \in WriteStates /\ WriteOff.at = "off" /\ WriteOff.held = None /\ None <= version
  BY <1>t, OffTypes, MirrorAssumption DEF WriteOff, ServerTypes, Versions, None
<1>1. ASSUME NEW w \in Writers, Wrote(w) PROVE MirrorInv'
  <2>1. /\ write[w].at = "sent" /\ saving = Nobody /\ writes' = writes + 1 /\ UNCHANGED <<reader, syncing>>
    BY <1>1 DEF Wrote
  \* No sync of the reader's there may save now.
  <2>2. \A q \in Syncs : ~Live(q)'
    <3> SUFFICES ASSUME NEW q \in Syncs, Live(q)' PROVE FALSE
      OBVIOUS
    <3>1. sync[q].at # "commit"
      BY <1>0, <1>n, <2>1 DEF Turns, Saving
    <3>2. sync[q].at # "off" /\ sync[q].reader = reader /\ sync[q].written = writes + 1
      BY <1>u, <2>1, <3>1 DEF Live, Current
    <3>3. sync[q].written <= writes
      BY <1>0, <3>2 DEF Turns, OneSync
    <3> QED  BY <1>i, <3>2, <3>3
  <2>3. OneSync'
    <3>1. \A q \in Syncs : sync[q].written <= writes => sync[q].written <= writes + 1
      BY <1>i
    <3> QED  BY <1>0, <1>u, <2>1, <3>1 DEF Turns, OneSync
  <2>4. MemoryTypes'
    BY <1>t, <2>1 DEF MemoryTypes
  <2>5. CASE held = None
    <3>1. write' = [write EXCEPT ![w] = WriteOff] /\ saving' = saving
      BY <1>1, <2>5 DEF Wrote
    <3>2. write' \in [Writers -> WriteStates] /\ write'[w] = WriteOff /\ \A x \in Writers \ {w} : write'[x] = write[x]
      BY <1>w, <1>o, <3>1
    <3>3. WriteTypes'
      BY <1>t, <1>u, <1>o, <3>2 DEF WriteTypes
    <3>4. Saving' /\ HeldAsRead'
      BY <1>0, <1>u, <1>o, <2>1, <3>1, <3>2 DEF Turns, Saving, HeldAsRead
    <3>5. Types' /\ Turns'
      BY <1>v, <2>3, <2>4, <3>3, <3>4 DEF Types, Turns
    <3> QED  BY <1>u, <2>2, <3>5, SyncsLeft
  <2>6. CASE held # None
    <3>0. PICK d : d = [write[w] EXCEPT !.at = "applying", !.held = held]
      OBVIOUS
    <3>1. write' = [write EXCEPT ![w] = d] /\ saving' = w
      BY <1>1, <2>6, <3>0 DEF Wrote
    <3>2. d \in WriteStates /\ d.at = "applying" /\ d.held = held
      BY <1>t, <1>w, <3>0 DEF WriteStates, DiskTypes
    <3>3. write' \in [Writers -> WriteStates] /\ write'[w] = d /\ \A x \in Writers \ {w} : write'[x] = write[x]
      BY <1>w, <3>1, <3>2
    <3>4. WriteTypes'
      BY <1>t, <1>u, <2>6, <3>2, <3>3 DEF WriteTypes, DiskTypes
    <3>5. \A x \in Writers : write[x].at # "applying"
      BY <1>0, <1>n, <2>1 DEF Turns, Saving
    <3>6. Saving'
      BY <1>0, <1>u, <1>n, <2>1, <3>1, <3>2, <3>3, <3>5 DEF Turns, Saving
    <3>7. HeldAsRead'
      BY <1>u, <3>2, <3>3, <3>5 DEF HeldAsRead
    <3>8. Types' /\ Turns'
      BY <1>v, <2>3, <2>4, <3>4, <3>6, <3>7 DEF Types, Turns
    <3> QED  BY <1>u, <2>2, <3>8, SyncsLeft
  <2> QED  BY <2>5, <2>6
<1>2. ASSUME NEW w \in Writers, ApplyFails(w) PROVE MirrorInv'
  <2>1. /\ write[w].at = "applying" /\ saving' = Nobody /\ UNCHANGED <<reader, writes, syncing>>
        /\ write' = [write EXCEPT ![w] = WriteOff]
    BY <1>2 DEF ApplyFails, memory
  <2>2. write' \in [Writers -> WriteStates] /\ write'[w] = WriteOff /\ \A x \in Writers \ {w} : write'[x] = write[x]
    BY <1>w, <1>o, <2>1
  <2>3. WriteTypes'
    BY <1>t, <1>u, <1>o, <2>2 DEF WriteTypes
  <2>4. Types'
    BY <1>t, <1>v, <2>1, <2>3 DEF Types, MemoryTypes
  <2>5. Turns'
    BY <1>0, <1>u, <1>n, <1>o, <2>1, <2>2 DEF Turns, Saving, OneSync, HeldAsRead
  <2>6. \A q \in Syncs : Live(q)' => Live(q)
    BY <1>u, <2>1 DEF Live, Current
  <2>7. \A x \in Writers : write'[x].at = "applying" => write[x].at = "applying" /\ write'[x].held = write[x].held
    BY <1>o, <2>2
  <2> QED  BY <1>u, <2>4, <2>5, <2>6, <2>7, SyncsLeft
<1>3. CASE Forget
  <2>1. reader < MaxForgets /\ reader' = reader + 1 /\ writes' = 0 /\ syncing' = FALSE /\ UNCHANGED <<saving, write>>
    BY <1>3 DEF Forget
  <2>2. MemoryTypes' /\ WriteTypes'
    <3>1. reader + 1 \in 0..MaxForgets
      BY <1>t, <2>1, MirrorAssumption DEF MemoryTypes
    <3> QED  BY <1>t, <1>u, <2>1, <3>1 DEF MemoryTypes, WriteTypes
  <2>3. \A q \in Syncs : sync[q].at # "off" => sync[q].reader <= reader' /\ sync[q].reader # reader'
    BY <1>0, <1>i, <2>1 DEF Turns, OneSync
  <2>4. OneSync'
    BY <1>u, <2>3 DEF OneSync
  <2>5. Saving' /\ HeldAsRead'
    BY <1>0, <1>u, <2>1 DEF Turns, Saving, HeldAsRead
  <2>6. Types' /\ Turns'
    BY <1>v, <2>2, <2>4, <2>5 DEF Types, Turns
  <2>7. \A q \in Syncs : Live(q)' => Live(q)
    BY <1>u, <2>3 DEF Live, Current
  <2> QED  BY <1>u, <2>1, <2>6, <2>7, SyncsLeft
<1>4. CASE UNCHANGED vars
  <2>1. UNCHANGED <<reader, writes, syncing, saving, write>>
    BY <1>4 DEF vars
  <2>2. Types' /\ Turns'
    BY <1>0, <1>t, <1>u, <1>v, <2>1 DEF Types, MemoryTypes, WriteTypes, Turns, Saving, OneSync, HeldAsRead
  <2>3. \A q \in Syncs : Live(q)' => Live(q)
    BY <1>u, <2>1 DEF Live, Current
  <2> QED  BY <1>u, <2>1, <2>2, <2>3, SyncsLeft
<1> QED  BY <1>1, <1>2, <1>3, <1>4

LEMMA CrashKeeps ==
    ASSUME MirrorInv, Crash
    PROVE  MirrorInv'
<1>0. Types /\ Turns /\ InStep
  BY DEF MirrorInv
<1>t. ServerTypes /\ DiskTypes /\ MemoryTypes
  BY <1>0 DEF Types
<1>1. /\ UNCHANGED <<reports, version, mod, there, held, copy, late, missing, reader>>
      /\ saving' = Nobody /\ writes' = 0 /\ syncing' = FALSE
      /\ sync' = [s \in Syncs |-> SyncOff] /\ write' = [w \in Writers |-> WriteOff]
  BY DEF Crash, server, disk
<1>v. None <= version
  BY <1>t, MirrorAssumption DEF ServerTypes, Versions, None
<1>2. \A s \in Syncs : sync'[s] = SyncOff /\ sync'[s].at = "off"
  BY <1>1 DEF SyncOff
<1>3. \A w \in Writers : write'[w] = WriteOff /\ write'[w].at = "off"
  BY <1>1 DEF WriteOff
<1>4. SyncTypes'
  BY <1>1, <1>v, <1>2, OffTypes DEF SyncTypes, SyncOff
<1>5. WriteTypes'
  BY <1>1, <1>v, <1>3, OffTypes DEF WriteTypes, WriteOff
<1>6. ServerTypes' /\ DiskTypes' /\ MemoryTypes' /\ InStep'
  BY <1>0, <1>t, <1>1 DEF ServerTypes, DiskTypes, MemoryTypes, InStep, Good, Matches, Content
<1>n. /\ \A q \in Syncs : q # Nobody
      /\ \A w \in Writers : w # Nobody
  BY MirrorAssumption DEF Nobody
<1>7. Turns'
  BY <1>1, <1>2, <1>3, <1>n DEF Turns, Saving, OneSync, HeldAsRead
<1>8. ASSUME NEW s \in Syncs PROVE SyncRight(s)'
  BY <1>2 DEF SyncRight, Ahead, Behind, AskedInStep, RestInStep, WantedThere, PulledRight, Live
<1> QED  BY <1>4, <1>5, <1>6, <1>7, <1>8 DEF MirrorInv, Types

----------------------------------------------------------------------------
(* The steps that drop the copy *)

LEMMA DropLeaves ==
    ASSUME ServerTypes, UNCHANGED <<version, mod>>, drop
    PROVE  DiskTypes' /\ InStep' /\ held' = None /\ held' <= version /\ \A n \in Names : copy'[n] = 0
<1>1. held' = None /\ copy' = [n \in Names |-> 0] /\ late' = {} /\ missing' = {}
  BY DEF drop
<1>2. version \in Int /\ 0 <= version /\ 0 \in -MaxVersion..MaxVersion /\ None \in Marks /\ \A n \in Names : mod[n] \in Int
  BY MirrorAssumption DEF ServerTypes, Versions, Marks
<1>3. held' <= version /\ \A n \in Names : ~(mod[n] <= held')
  BY <1>1, <1>2 DEF None, ServerTypes
<1> QED  BY <1>1, <1>2, <1>3 DEF DiskTypes, InStep

\* What a drop notes of the syncs in flight.
LEMMA UnnoticedMarks ==
    ASSUME NEW f \in [Syncs -> SyncStates], NEW g, g = Unnoticed(f)
    PROVE  /\ g \in [Syncs -> SyncStates]
           /\ \A q \in Syncs :
                /\ g[q].at = f[q].at /\ g[q].base = f[q].base /\ g[q].token = f[q].token
                /\ g[q].whole = f[q].whole /\ g[q].want = f[q].want /\ g[q].gone = f[q].gone
                /\ g[q].put = f[q].put /\ g[q].reader = f[q].reader /\ g[q].written = f[q].written
                /\ g[q].overtaken = f[q].overtaken /\ (f[q].dropped => g[q].dropped)
                /\ g[q].at \in {"off", "began", "listing"} \/ g[q].whole \/ g[q].dropped
<1>1. g = [q \in Syncs |-> IF f[q].at \in {"off", "began", "listing"} \/ f[q].whole THEN f[q] ELSE [f[q] EXCEPT !.dropped = TRUE]]
  BY DEF Unnoticed
<1>2. ASSUME NEW q \in Syncs
      PROVE  /\ g[q] \in SyncStates
             /\ g[q].at = f[q].at /\ g[q].base = f[q].base /\ g[q].token = f[q].token
             /\ g[q].whole = f[q].whole /\ g[q].want = f[q].want /\ g[q].gone = f[q].gone
             /\ g[q].put = f[q].put /\ g[q].reader = f[q].reader /\ g[q].written = f[q].written
             /\ g[q].overtaken = f[q].overtaken /\ (f[q].dropped => g[q].dropped)
             /\ g[q].at \in {"off", "began", "listing"} \/ g[q].whole \/ g[q].dropped
  <2>1. f[q] \in SyncStates
    OBVIOUS
  <2>2. CASE f[q].at \in {"off", "began", "listing"} \/ f[q].whole
    BY <1>1, <2>1, <2>2
  <2>3. CASE ~(f[q].at \in {"off", "began", "listing"} \/ f[q].whole)
    <3>1. g[q] = [f[q] EXCEPT !.dropped = TRUE]
      BY <1>1, <2>3
    <3> QED  BY <2>1, <3>1 DEF SyncStates
  <2> QED  BY <2>2, <2>3
<1>3. g \in [Syncs -> SyncStates]
  BY <1>1, <1>2
<1> QED  BY <1>2, <1>3

LEMMA DropStepKeeps ==
    ASSUME MirrorInv, (\E s \in Syncs : PullGone(s)) \/ (\E w \in Writers : WroteProps(w) \/ WroteMove(w))
    PROVE  MirrorInv'
<1>0. Types /\ Turns /\ \A q \in Syncs : SyncRight(q)
  BY DEF MirrorInv
<1>t. ServerTypes /\ DiskTypes /\ MemoryTypes /\ SyncTypes /\ WriteTypes
  BY <1>0 DEF Types
<1>s. sync \in [Syncs -> SyncStates] /\ write \in [Writers -> WriteStates]
  BY <1>t DEF SyncTypes, WriteTypes
<1>u. UNCHANGED <<reports, version, mod, there, reader>> /\ drop
  BY DEF PullGone, WroteProps, WroteMove, server, memory
<1>d. DiskTypes' /\ InStep' /\ held' = None /\ held' <= version /\ \A n \in Names : copy'[n] = 0
  BY <1>t, <1>u, DropLeaves
<1>h. held' <= held
  <2>1. held \in Int /\ -1 <= held
    BY <1>t, MirrorAssumption DEF DiskTypes, Marks, None
  <2> QED  BY <1>d, <2>1 DEF None
<1>n. /\ \A q \in Syncs : q # Nobody /\ q \notin Writers
      /\ \A w \in Writers : w # Nobody /\ w \notin Syncs
  BY MirrorAssumption DEF Nobody
<1>o. /\ WriteOff \in WriteStates /\ WriteOff.at = "off" /\ WriteOff.held = None /\ None <= version
      /\ SyncOff \in SyncStates /\ SyncOff.at = "off" /\ SyncOff.base = None /\ SyncOff.token = None
      /\ SyncOff.want = {} /\ \A n \in Names : SyncOff.put[n] = 0
  BY <1>t, OffTypes, MirrorAssumption DEF WriteOff, SyncOff, ServerTypes, Versions, None
\* A sync that goes on knows of the drop, relies on nothing, or may not save.
<1>g. ASSUME Types', NEW q \in Syncs, GoesOn(q),
             Live(q)' => /\ Live(q)
                         /\ sync[q].at \in {"off", "began", "listing"} \/ sync[q].whole \/ sync'[q].dropped,
             \A w \in Writers : write'[w].at = "applying" => write[w].at = "applying" /\ write'[w].held = write[w].held,
             \A t \in Syncs \ {q} : sync'[t].at = "commit" => sync[t].at = "commit" /\ sync'[t].token = sync[t].token
      PROVE  SyncRight(q)'
  <2>1. \A n \in Names : Live(q)' /\ Relies(q, n) => Rests(q, n)'
    <3> SUFFICES ASSUME NEW n \in Names, Live(q)', Relies(q, n) PROVE sync'[q].dropped
      BY <1>d DEF Rests
    <3>1. sync[q].at \notin {"off", "began", "listing"}
      BY DEF Relies
    <3>2. ~sync[q].whole
      <4>1. CASE sync[q].at = "asked"
        BY <1>t, <4>1 DEF SyncTypes
      <4>2. CASE sync[q].at # "asked"
        BY <4>2 DEF Relies, Covered, Saved
      <4> QED  BY <4>1, <4>2
    <3> QED  BY <1>g, <3>1, <3>2
  <2>2. Live(q)' => Live(q) /\ NoneAhead(q)
    BY <1>g, <1>h DEF NoneAhead
  <2> QED  BY <1>0, <1>u, <1>g, <2>1, <2>2, SyncGoesOn
<1>1. ASSUME NEW s \in Syncs, PullGone(s) PROVE MirrorInv'
  <2>1. PICK f : f = [sync EXCEPT ![s] = SyncOff]
    OBVIOUS
  <2>2. f \in [Syncs -> SyncStates] /\ f[s] = SyncOff /\ \A q \in Syncs \ {s} : f[q] = sync[q]
    BY <1>s, <1>o, <2>1
  <2>3. /\ sync[s].at \in {"asked", "listing", "fetching"} /\ syncing' = (syncing /\ sync[s].reader # reader)
        /\ UNCHANGED <<writes, saving, write>>
    BY <1>1 DEF PullGone
  <2>4. PICK g : g = Unnoticed(f)
    OBVIOUS
  <2>5. sync' = g
    BY <1>1, <2>1, <2>4 DEF PullGone
  <2>6. /\ g \in [Syncs -> SyncStates]
        /\ \A q \in Syncs :
             /\ g[q].at = f[q].at /\ g[q].base = f[q].base /\ g[q].token = f[q].token
             /\ g[q].whole = f[q].whole /\ g[q].want = f[q].want /\ g[q].gone = f[q].gone
             /\ g[q].put = f[q].put /\ g[q].reader = f[q].reader /\ g[q].written = f[q].written
             /\ g[q].overtaken = f[q].overtaken /\ (f[q].dropped => g[q].dropped)
             /\ g[q].at \in {"off", "began", "listing"} \/ g[q].whole \/ g[q].dropped
    BY <2>2, <2>4, UnnoticedMarks
  <2>7. SyncTypes'
    <3>1. ASSUME NEW q \in Syncs
          PROVE  /\ g[q].base <= version /\ g[q].token <= version
                 /\ g[q].at \in {"listing", "fetching", "pulled", "commit"} => g[q].token # None
                 /\ g[q].at \in {"began", "asked", "listing"} => g[q].want = {} /\ g[q].gone = {} /\ ~g[q].whole
                 /\ g[q].at \notin {"pulled", "commit"} => \A n \in Names : g[q].put[n] = 0
                 /\ g[q].at \in {"pulled", "commit"} => g[q].want = {}
                 /\ g[q].at = "listing" => ~reports
      <4>1. CASE q = s
        BY <1>o, <2>2, <2>6, <4>1
      <4>2. CASE q # s
        BY <1>t, <2>2, <2>6, <4>2 DEF SyncTypes
      <4> QED  BY <4>1, <4>2
    <3> QED  BY <1>u, <2>5, <2>6, <3>1 DEF SyncTypes
  <2>8. Types'
    BY <1>t, <1>u, <1>d, <2>3, <2>7 DEF Types, ServerTypes, MemoryTypes, WriteTypes
  <2>9. Saving' /\ HeldAsRead'
    <3>1. \A q \in Syncs : g[q].at = "commit" <=> sync[q].at = "commit"
      BY <1>o, <2>2, <2>3, <2>6
    <3> QED  BY <1>0, <1>d, <2>3, <2>5, <3>1 DEF Turns, Saving, HeldAsRead
  <2>10. OneSync'
    <3>0. OneSync
      BY <1>0 DEF Turns
    <3>1. ASSUME NEW q \in Syncs, g[q].at # "off" PROVE q # s /\ sync[q].at # "off" /\ g[q].reader = sync[q].reader /\ g[q].written = sync[q].written
      BY <1>o, <2>2, <2>6, <3>1
    <3>2. ASSUME NEW q \in Syncs, g[q].at # "off", g[q].reader = reader PROVE syncing /\ sync[s].reader # reader
      BY <2>3, <3>0, <3>1, <3>2 DEF OneSync
    <3> QED  BY <1>u, <2>3, <2>5, <3>0, <3>1, <3>2 DEF OneSync
  <2>11. ASSUME NEW q \in Syncs PROVE SyncRight(q)'
    <3>1. CASE q = s
      <4>1. sync'[q].at = "off"
        BY <1>o, <2>2, <2>5, <2>6, <3>1
      <4> QED  BY <4>1 DEF SyncRight, Ahead, Behind, AskedInStep, RestInStep, WantedThere, PulledRight, Live
    <3>2. CASE q # s
      <4>1. GoesOn(q)
        BY <2>2, <2>5, <2>6, <3>2 DEF GoesOn
      <4>2. Live(q)' => Live(q)
        BY <1>u, <2>3, <4>1 DEF Live, Current, GoesOn
      <4>3. sync[q].at \in {"off", "began", "listing"} \/ sync[q].whole \/ sync'[q].dropped
        BY <2>2, <2>5, <2>6, <3>2
      <4>4. \A t \in Syncs \ {q} : sync'[t].at = "commit" => sync[t].at = "commit" /\ sync'[t].token = sync[t].token
        BY <1>o, <2>2, <2>5, <2>6
      <4> QED  BY <1>g, <2>3, <2>8, <4>1, <4>2, <4>3, <4>4
    <3> QED  BY <3>1, <3>2
  <2> QED  BY <1>d, <2>8, <2>9, <2>10, <2>11 DEF MirrorInv, Turns
\* A write is over.
<1>w. ASSUME NEW w \in Writers, write[w].at = "sent", write' = [write EXCEPT ![w] = WriteOff]
      PROVE  /\ WriteTypes'
             /\ \A x \in Writers : write'[x].at = "applying" <=> write[x].at = "applying"
             /\ \A x \in Writers : write'[x].at = "applying" => write[x].at = "applying" /\ write'[x].held = write[x].held
  <2>1. write' \in [Writers -> WriteStates] /\ write'[w] = WriteOff /\ \A x \in Writers \ {w} : write'[x] = write[x]
    BY <1>s, <1>o, <1>w
  <2> QED  BY <1>t, <1>u, <1>o, <1>w, <2>1 DEF WriteTypes
<1>2. ASSUME NEW w \in Writers, WroteProps(w) PROVE MirrorInv'
  <2>1. /\ write[w].at = "sent" /\ write' = [write EXCEPT ![w] = WriteOff] /\ UNCHANGED <<writes, syncing, saving>>
    BY <1>2 DEF WroteProps, memory
  <2>2. /\ WriteTypes'
        /\ \A x \in Writers : write'[x].at = "applying" <=> write[x].at = "applying"
        /\ \A x \in Writers : write'[x].at = "applying" => write[x].at = "applying" /\ write'[x].held = write[x].held
    BY <1>w, <2>1
  <2>3. PICK f : f = sync
    OBVIOUS
  <2>4. PICK g : g = Unnoticed(f)
    OBVIOUS
  <2>5. sync' = g /\ f \in [Syncs -> SyncStates]
    BY <1>s, <1>2, <2>3, <2>4 DEF WroteProps
  <2>6. /\ g \in [Syncs -> SyncStates]
        /\ \A q \in Syncs :
             /\ g[q].at = f[q].at /\ g[q].base = f[q].base /\ g[q].token = f[q].token
             /\ g[q].whole = f[q].whole /\ g[q].want = f[q].want /\ g[q].gone = f[q].gone
             /\ g[q].put = f[q].put /\ g[q].reader = f[q].reader /\ g[q].written = f[q].written
             /\ g[q].overtaken = f[q].overtaken /\ (f[q].dropped => g[q].dropped)
             /\ g[q].at \in {"off", "began", "listing"} \/ g[q].whole \/ g[q].dropped
    BY <2>4, <2>5, UnnoticedMarks
  <2>7. \A q \in Syncs : GoesOn(q)
    BY <2>3, <2>5, <2>6 DEF GoesOn
  <2>8. SyncTypes'
    BY <1>t, <1>u, <2>3, <2>5, <2>6 DEF SyncTypes
  <2>9. Types'
    BY <1>t, <1>u, <1>d, <2>1, <2>2, <2>8 DEF Types, ServerTypes, MemoryTypes
  <2>10. Turns'
    BY <1>0, <1>u, <1>d, <2>1, <2>2, <2>7 DEF Turns, Saving, OneSync, HeldAsRead, GoesOn
  <2>11. ASSUME NEW q \in Syncs PROVE SyncRight(q)'
    <3>1. Live(q)' => Live(q)
      BY <1>u, <2>1, <2>7 DEF Live, Current, GoesOn
    <3>2. sync[q].at \in {"off", "began", "listing"} \/ sync[q].whole \/ sync'[q].dropped
      BY <2>3, <2>5, <2>6
    <3>3. \A t \in Syncs \ {q} : sync'[t].at = "commit" => sync[t].at = "commit" /\ sync'[t].token = sync[t].token
      BY <2>7 DEF GoesOn
    <3> QED  BY <1>g, <2>2, <2>7, <2>9, <3>1, <3>2, <3>3
  <2> QED  BY <1>d, <2>9, <2>10, <2>11 DEF MirrorInv
<1>3. ASSUME NEW w \in Writers, WroteMove(w) PROVE MirrorInv'
  <2>1. /\ write[w].at = "sent" /\ write' = [write EXCEPT ![w] = WriteOff] /\ saving = Nobody /\ writes' = writes + 1
        /\ UNCHANGED <<syncing, saving, sync>>
    BY <1>3 DEF WroteMove
  <2>2. /\ WriteTypes'
        /\ \A x \in Writers : write'[x].at = "applying" <=> write[x].at = "applying"
        /\ \A x \in Writers : write'[x].at = "applying" => write[x].at = "applying" /\ write'[x].held = write[x].held
    BY <1>w, <2>1
  <2>3. writes \in Int /\ \A q \in Syncs : sync[q].written \in Int
    BY <1>t DEF MemoryTypes, SyncTypes, SyncStates
  <2>4. \A q \in Syncs : ~Live(q)'
    <3> SUFFICES ASSUME NEW q \in Syncs, Live(q)' PROVE FALSE
      OBVIOUS
    <3>1. sync[q].at # "commit"
      BY <1>0, <1>n, <2>1 DEF Turns, Saving
    <3>2. sync[q].at # "off" /\ sync[q].reader = reader /\ sync[q].written = writes + 1
      BY <1>u, <2>1, <3>1 DEF Live, Current
    <3>3. sync[q].written <= writes
      BY <1>0, <3>2 DEF Turns, OneSync
    <3> QED  BY <2>3, <3>2, <3>3
  <2>5. OneSync'
    <3>1. \A q \in Syncs : sync[q].written <= writes => sync[q].written <= writes + 1
      BY <2>3
    <3> QED  BY <1>0, <1>u, <2>1, <3>1 DEF Turns, OneSync
  <2>6. Types'
    BY <1>t, <1>u, <1>d, <2>1, <2>2 DEF Types, ServerTypes, MemoryTypes, SyncTypes
  <2>7. Saving' /\ HeldAsRead'
    BY <1>0, <1>d, <2>1, <2>2 DEF Turns, Saving, HeldAsRead
  <2>8. ASSUME NEW q \in Syncs PROVE SyncRight(q)'
    <3>1. GoesOn(q)
      BY <2>1 DEF GoesOn
    <3> QED  BY <1>g, <2>1, <2>2, <2>4, <2>6, <3>1
  <2> QED  BY <1>d, <2>5, <2>6, <2>7, <2>8 DEF MirrorInv, Turns
<1> QED  BY <1>1, <1>2, <1>3

----------------------------------------------------------------------------
(* The steps that save *)

\* What a save notes of the other syncs.
LEMMA NoteMarks ==
    ASSUME SyncTypes, NEW s \in Syncs, Note(s)
    PROVE  /\ sync' \in [Syncs -> SyncStates] /\ sync'[s] = SyncOff
           /\ \A q \in Syncs \ {s} :
                /\ sync'[q].at = sync[q].at /\ sync'[q].base = sync[q].base /\ sync'[q].token = sync[q].token
                /\ sync'[q].whole = sync[q].whole /\ sync'[q].want = sync[q].want /\ sync'[q].gone = sync[q].gone
                /\ sync'[q].put = sync[q].put /\ sync'[q].reader = sync[q].reader /\ sync'[q].written = sync[q].written
                /\ sync'[q].dropped = sync[q].dropped /\ (sync[q].overtaken => sync'[q].overtaken)
                /\ ~reports /\ sync[q].at \in {"fetching", "pulled"} => sync'[q].overtaken
<1>1. sync' = [q \in Syncs |-> CASE q = s -> SyncOff
                                 [] q # s /\ ~reports /\ sync[q].at \in {"fetching", "pulled"} -> [sync[q] EXCEPT !.overtaken = TRUE]
                                 [] OTHER -> sync[q]]
  BY DEF Note
<1>2. sync'[s] = SyncOff
  BY <1>1
<1>3. ASSUME NEW q \in Syncs \ {s}
      PROVE  /\ sync'[q] \in SyncStates
             /\ sync'[q].at = sync[q].at /\ sync'[q].base = sync[q].base /\ sync'[q].token = sync[q].token
             /\ sync'[q].whole = sync[q].whole /\ sync'[q].want = sync[q].want /\ sync'[q].gone = sync[q].gone
             /\ sync'[q].put = sync[q].put /\ sync'[q].reader = sync[q].reader /\ sync'[q].written = sync[q].written
             /\ sync'[q].dropped = sync[q].dropped /\ (sync[q].overtaken => sync'[q].overtaken)
             /\ ~reports /\ sync[q].at \in {"fetching", "pulled"} => sync'[q].overtaken
  <2>1. sync[q] \in SyncStates
    BY DEF SyncTypes
  <2>2. CASE ~reports /\ sync[q].at \in {"fetching", "pulled"}
    <3>1. sync'[q] = [sync[q] EXCEPT !.overtaken = TRUE]
      BY <1>1, <1>3, <2>2
    <3> QED  BY <2>1, <3>1 DEF SyncStates
  <2>3. CASE ~(~reports /\ sync[q].at \in {"fetching", "pulled"})
    <3>1. sync'[q] = sync[q]
      BY <1>1, <1>3, <2>3
    <3> QED  BY <2>1, <2>3, <3>1
  <2> QED  BY <2>2, <2>3
<1>4. sync' \in [Syncs -> SyncStates]
  BY <1>1, <1>2, <1>3, OffTypes
<1> QED  BY <1>2, <1>3, <1>4

LEMMA SaveCommitKeeps ==
    ASSUME MirrorInv, NEW s \in Syncs, SaveCommit(s)
    PROVE  MirrorInv'
<1>0. Types /\ Turns /\ InStep /\ \A q \in Syncs : SyncRight(q)
  BY DEF MirrorInv
<1>t. ServerTypes /\ DiskTypes /\ MemoryTypes /\ SyncTypes /\ WriteTypes
  BY <1>0 DEF Types
<1>s. sync[s] \in SyncStates
  BY <1>t DEF SyncTypes
<1>u. /\ UNCHANGED <<reports, version, mod, there, reader, writes, write>>
      /\ sync[s].at = "commit" /\ held' = sync[s].token /\ saving' = Nobody
      /\ copy' = [n \in Names |-> IF n \in Saved(s) THEN sync[s].put[n] ELSE copy[n]]
      /\ Note(s)
  BY DEF SaveCommit, server
<1>o. /\ SyncOff \in SyncStates /\ SyncOff.at = "off" /\ SyncOff.base = None /\ SyncOff.token = None
      /\ SyncOff.want = {} /\ (\A n \in Names : SyncOff.put[n] = 0) /\ None <= version
  BY <1>t, OffTypes, MirrorAssumption DEF SyncOff, ServerTypes, Versions, None
<1>n. /\ \A q \in Syncs : q # Nobody /\ q \notin Writers
      /\ \A w \in Writers : w # Nobody /\ w \notin Syncs
  BY MirrorAssumption DEF Nobody
<1>m. /\ sync' \in [Syncs -> SyncStates] /\ sync'[s] = SyncOff
      /\ \A q \in Syncs \ {s} :
           /\ sync'[q].at = sync[q].at /\ sync'[q].base = sync[q].base /\ sync'[q].token = sync[q].token
           /\ sync'[q].whole = sync[q].whole /\ sync'[q].want = sync[q].want /\ sync'[q].gone = sync[q].gone
           /\ sync'[q].put = sync[q].put /\ sync'[q].reader = sync[q].reader /\ sync'[q].written = sync[q].written
           /\ sync'[q].dropped = sync[q].dropped /\ (sync[q].overtaken => sync'[q].overtaken)
           /\ ~reports /\ sync[q].at \in {"fetching", "pulled"} => sync'[q].overtaken
  BY <1>t, <1>u, NoteMarks
<1>l. /\ late' = (late \ Saved(s)) \cup (IF sync[s].overtaken THEN Names \ Saved(s) ELSE {})
      /\ missing' = (missing \ Saved(s)) \cup (IF sync[s].dropped THEN Names \ Saved(s) ELSE {})
      /\ syncing' = (syncing /\ sync[s].reader # reader)
  BY <1>u DEF Note
<1>a. \A q \in Syncs \ {s} : sync[q].at # "commit"
  BY <1>0, <1>u DEF Turns, Saving
<1>1. SyncTypes'
  <2> SUFFICES ASSUME NEW q \in Syncs
               PROVE  /\ sync'[q].base <= version /\ sync'[q].token <= version
                      /\ sync'[q].at \in {"listing", "fetching", "pulled", "commit"} => sync'[q].token # None
                      /\ sync'[q].at \in {"began", "asked", "listing"} => sync'[q].want = {} /\ sync'[q].gone = {} /\ ~sync'[q].whole
                      /\ sync'[q].at \notin {"pulled", "commit"} => \A n \in Names : sync'[q].put[n] = 0
                      /\ sync'[q].at \in {"pulled", "commit"} => sync'[q].want = {}
                      /\ sync'[q].at = "listing" => ~reports
    BY <1>u, <1>m DEF SyncTypes
  <2>1. CASE q = s
    BY <1>o, <1>m, <2>1
  <2>2. CASE q # s
    BY <1>t, <1>m, <2>2 DEF SyncTypes
  <2> QED  BY <2>1, <2>2
<1>2. DiskTypes'
  <2>1. sync[s].token \in Marks /\ sync[s].token <= version /\ sync[s].token # None
    BY <1>t, <1>s, <1>u DEF SyncTypes, SyncStates
  <2>2. \A n \in Names : sync[s].put[n] \in -MaxVersion..MaxVersion
    BY <1>s, MirrorAssumption DEF SyncStates, Versions
  <2>3. copy' \in [Names -> -MaxVersion..MaxVersion]
    BY <1>t, <1>u, <2>2 DEF DiskTypes
  <2>4. late' \subseteq Names /\ missing' \subseteq Names
    BY <1>t, <1>l DEF DiskTypes
  <2> QED  BY <1>u, <2>1, <2>3, <2>4 DEF DiskTypes
<1>3. Types'
  <2>1. syncing' \in BOOLEAN
    BY <1>l
  <2> QED  BY <1>t, <1>u, <1>1, <1>2, <2>1 DEF Types, ServerTypes, MemoryTypes, WriteTypes
<1>4. Saving' /\ HeldAsRead'
  BY <1>0, <1>u, <1>o, <1>n, <1>m, <1>a DEF Turns, Saving, HeldAsRead
<1>5. OneSync'
  <2>0. OneSync
    BY <1>0 DEF Turns
  <2>1. ASSUME NEW q \in Syncs, sync'[q].at # "off"
        PROVE  q # s /\ sync[q].at # "off" /\ sync'[q].reader = sync[q].reader /\ sync'[q].written = sync[q].written
    BY <1>o, <1>m, <2>1
  <2>2. ASSUME NEW q \in Syncs, sync'[q].at # "off", sync'[q].reader = reader PROVE syncing /\ sync[s].reader # reader
    BY <1>u, <2>0, <2>1, <2>2 DEF OneSync
  <2> QED  BY <1>u, <1>l, <2>0, <2>1, <2>2 DEF OneSync
\* What it got is right, as far as its token goes; the rest is as it was.
<1>6. ASSUME NEW n \in Names, n \in Saved(s), mod[n] <= sync[s].token PROVE Good(n)'
  <2>1. sync[s].put[n] = Content(n)
    BY <1>0, <1>u, <1>6 DEF SyncRight, PulledRight
  <2>2. copy'[n] = Content(n)'
    BY <1>u, <1>6, <2>1 DEF Content
  <2> QED  BY <2>2 DEF Good, Matches
<1>7. ASSUME NEW n \in Names, n \notin Saved(s)
      PROVE  /\ copy'[n] = copy[n] /\ (Good(n) => Good(n)')
             /\ sync[s].overtaken => Good(n)'
             /\ sync[s].dropped /\ copy[n] = 0 => Good(n)'
  <2>1. copy'[n] = copy[n] /\ Content(n)' = Content(n)
    BY <1>u, <1>7 DEF Content
  <2>2. /\ n \in late => n \in late'
        /\ n \in missing => n \in missing'
        /\ sync[s].overtaken => n \in late'
        /\ sync[s].dropped => n \in missing'
    BY <1>l, <1>7
  <2> QED  BY <2>1, <2>2 DEF Good, Matches
<1>8. InStep'
  <2> SUFFICES ASSUME NEW n \in Names, mod[n] <= sync[s].token PROVE Good(n)'
    BY <1>u DEF InStep
  <2>1. CASE n \in Saved(s)
    BY <1>6, <2>1
  <2>2. CASE n \notin Saved(s)
    <3>1. n \notin Covered(s)
      BY <1>t, <1>u, <2>2 DEF Covered, SyncTypes
    <3>2. Live(s)
      BY <1>u DEF Live
    <3>3. sync[s].overtaken \/ Rests(s, n)
      BY <1>0, <1>u, <3>1, <3>2 DEF SyncRight, RestInStep
    <3> QED  BY <1>7, <2>2, <3>3 DEF Rests
  <2> QED  BY <2>1, <2>2
<1>9. ASSUME NEW q \in Syncs PROVE SyncRight(q)'
  <2>1. CASE q = s
    <3>1. sync'[q].at = "off"
      BY <1>o, <1>m, <2>1
    <3> QED  BY <3>1 DEF SyncRight, Ahead, Behind, AskedInStep, RestInStep, WantedThere, PulledRight, Live
  <2>2. CASE q # s
    <3>1. GoesOn(q)
      BY <1>m, <2>2 DEF GoesOn
    <3>2. Live(q)' => Live(q)
      BY <1>u, <3>1 DEF Live, Current, GoesOn
    <3>3. NoneAhead(q)
      BY <1>u, <1>o, <1>m, <2>2 DEF NoneAhead
    <3>4. ASSUME NEW n \in Names, Older(q, n), Rests(q, n) PROVE Rests(q, n)'
      <4>1. CASE n \in Saved(s)
        BY <1>u, <1>6, <2>2, <3>4, <4>1 DEF Older, Rests
      <4>2. CASE n \notin Saved(s)
        BY <1>7, <3>1, <3>4, <4>2 DEF Rests, GoesOn
      <4> QED  BY <4>1, <4>2
    <3>5. reports \/ sync'[q].overtaken \/ sync[q].at \notin {"fetching", "pulled", "commit"}
      BY <1>m, <1>a, <2>2
    <3> QED  BY <1>0, <1>u, <1>3, <3>1, <3>2, <3>3, <3>4, <3>5, SyncGoesOn
  <2> QED  BY <2>1, <2>2
<1> QED  BY <1>3, <1>4, <1>5, <1>8, <1>9 DEF MirrorInv, Turns

LEMMA ApplyKeeps ==
    ASSUME MirrorInv, NEW w \in Writers, Apply(w)
    PROVE  MirrorInv'
<1>0. Types /\ Turns /\ InStep /\ \A q \in Syncs : SyncRight(q)
  BY DEF MirrorInv
<1>t. ServerTypes /\ DiskTypes /\ MemoryTypes /\ SyncTypes /\ WriteTypes
  BY <1>0 DEF Types
<1>w. write \in [Writers -> WriteStates] /\ write[w] \in WriteStates
  BY <1>t DEF WriteTypes
<1>1. PICK saved : saved = {write[w].name} \cap Names
  OBVIOUS
<1>2. PICK now : now = IF write[w].etag THEN write[w].body ELSE -write[w].body
  OBVIOUS
<1>u. /\ UNCHANGED <<reports, version, mod, there, reader, writes, syncing, sync>>
      /\ write[w].at = "applying" /\ held' = write[w].held /\ saving' = Nobody
      /\ write' = [write EXCEPT ![w] = WriteOff]
      /\ copy' = [n \in Names |-> IF n \in saved THEN now ELSE copy[n]]
      /\ late' = (late \ saved) \cup {n \in saved : write[w].body # Content(n)}
      /\ missing' = (IF held = None THEN Names ELSE missing) \ saved
  BY <1>1, <1>2 DEF Apply, server, memory
<1>o. WriteOff \in WriteStates /\ WriteOff.at = "off" /\ WriteOff.held = None /\ None <= version
  BY <1>t, OffTypes, MirrorAssumption DEF WriteOff, ServerTypes, Versions, None
<1>n. /\ \A q \in Syncs : q # Nobody /\ q \notin Writers
      /\ \A x \in Writers : x # Nobody /\ x \notin Syncs
  BY MirrorAssumption DEF Nobody
<1>3. write' \in [Writers -> WriteStates] /\ write'[w] = WriteOff /\ \A x \in Writers \ {w} : write'[x] = write[x]
  BY <1>w, <1>o, <1>u
<1>4. write[w].held \in Marks /\ write[w].held <= version /\ write[w].held # None
  BY <1>t, <1>w, <1>u DEF WriteTypes, WriteStates
<1>5. DiskTypes'
  <2>1. write[w].body \in 0..MaxVersion
    BY <1>w DEF WriteStates, Versions
  <2>2. now \in -MaxVersion..MaxVersion
    BY <1>2, <2>1, MirrorAssumption
  <2>3. copy' \in [Names -> -MaxVersion..MaxVersion]
    BY <1>t, <1>u, <2>2 DEF DiskTypes
  <2>4. late' \subseteq Names /\ missing' \subseteq Names
    BY <1>t, <1>u, <1>1 DEF DiskTypes
  <2> QED  BY <1>u, <1>4, <2>3, <2>4 DEF DiskTypes
<1>6. Types'
  <2>1. WriteTypes'
    BY <1>t, <1>u, <1>o, <1>3 DEF WriteTypes
  <2> QED  BY <1>t, <1>u, <1>5, <2>1 DEF Types, ServerTypes, MemoryTypes, SyncTypes
<1>a. \A x \in Writers \ {w} : write[x].at # "applying"
  BY <1>0, <1>u DEF Turns, Saving
<1>7. Turns'
  BY <1>0, <1>u, <1>o, <1>n, <1>3, <1>a DEF Turns, Saving, OneSync, HeldAsRead
\* What is applied is what the server has, or is noted; the rest is as it was.
<1>8. ASSUME NEW n \in Names, n \in saved PROVE Good(n)'
  <2>1. copy'[n] = now /\ Content(n)' = Content(n)
    BY <1>u, <1>8 DEF Content
  <2>2. CASE write[w].body = Content(n)
    BY <1>2, <2>1, <2>2 DEF Good, Matches
  <2>3. CASE write[w].body # Content(n)
    BY <1>u, <1>8, <2>3 DEF Good
  <2> QED  BY <2>2, <2>3
<1>9. ASSUME NEW n \in Names, n \notin saved
      PROVE  copy'[n] = copy[n] /\ (Good(n) => Good(n)') /\ (held = None => Good(n)')
  <2>1. copy'[n] = copy[n] /\ Content(n)' = Content(n)
    BY <1>u, <1>9 DEF Content
  <2>2. n \in late => n \in late'
    BY <1>u, <1>9
  <2>3. n \in missing \/ held = None => n \in missing'
    BY <1>u, <1>9
  <2>4. held = None => copy[n] = 0
    BY <1>t DEF DiskTypes
  <2> QED  BY <2>1, <2>2, <2>3, <2>4 DEF Good, Matches
<1>10. InStep'
  <2> SUFFICES ASSUME NEW n \in Names, mod[n] <= write[w].held PROVE Good(n)'
    BY <1>u DEF InStep
  <2>1. held \in {write[w].held, None}
    BY <1>0, <1>u DEF Turns, HeldAsRead
  <2> QED  BY <1>0, <1>8, <1>9, <2>1 DEF InStep
<1>11. ASSUME NEW q \in Syncs PROVE SyncRight(q)'
  <2>1. GoesOn(q)
    BY <1>u DEF GoesOn
  <2>2. Live(q)' => Live(q)
    BY <1>u DEF Live, Current
  <2>3. NoneAhead(q)
    BY <1>u, <1>o, <1>3 DEF NoneAhead
  <2>4. \A n \in Names : Rests(q, n) => Rests(q, n)'
    BY <1>u, <1>8, <1>9 DEF Rests
  <2> QED  BY <1>0, <1>u, <1>6, <2>1, <2>2, <2>3, <2>4, SyncGoesOn
<1> QED  BY <1>6, <1>7, <1>10, <1>11 DEF MirrorInv

LEMMA NextMirrorInv == MirrorInv /\ [Next]_vars => MirrorInv'
<1> SUFFICES ASSUME MirrorInv, [Next]_vars PROVE MirrorInv'
  OBVIOUS
<1>1. ASSUME NEW s \in Syncs, SyncStep(s) PROVE MirrorInv'
  BY <1>1, SyncStartsEnds, SyncPulls, SyncChecks, DropStepKeeps, SaveCommitKeeps DEF SyncStep
<1>2. ASSUME NEW w \in Writers, WriteStep(w) PROVE MirrorInv'
  BY <1>2, ServerStepKeeps, QuietStepKeeps, DropStepKeeps, ApplyKeeps DEF WriteStep
<1> QED  BY <1>1, <1>2, ServerStepKeeps, QuietStepKeeps, CrashKeeps DEF Next

----------------------------------------------------------------------------
(* The theorems *)

\* The invariant the theorems follow from.
THEOREM MirrorAlways == Spec => []MirrorInv
<1>1. Init => MirrorInv
  BY InitMirrorInv
<1>2. MirrorInv /\ [Next]_vars => MirrorInv'
  BY NextMirrorInv
<1> QED  BY <1>1, <1>2, PTL DEF Spec

\* The types; Mirror.saving is held exactly from save's check to its commit and
\* from wrote to its, whoever crashes or signs out, and no object is kept without
\* a record of the collection.
THEOREM MirrorTypes == Spec => []TypeOK
<1>1. MirrorInv => TypeOK
  <2> SUFFICES ASSUME MirrorInv PROVE TypeOK
    OBVIOUS
  <2>1. ServerTypes /\ DiskTypes /\ MemoryTypes /\ SyncTypes /\ WriteTypes /\ Saving
    BY DEF MirrorInv, Types, Turns
  <2>2. \A s \in Syncs : sync[s].at \in {"off", "began", "asked", "listing", "fetching", "pulled", "commit"}
    BY <2>1 DEF SyncTypes, SyncStates, SyncSteps
  <2>3. \A w \in Writers : write[w].at \in {"off", "sent", "applying"}
    BY <2>1 DEF WriteTypes, WriteStates
  <2>4. held \in Versions \cup {None}
    BY <2>1 DEF DiskTypes, Marks, Versions
  <2> QED  BY <2>1, <2>2, <2>3, <2>4 DEF TypeOK, ServerTypes, DiskTypes, MemoryTypes, Saving
<1> QED  BY <1>1, MirrorAlways, PTL

\* What the kept token covers is in the copy as the server has it, but for the
\* two gaps noted, for any number of objects, syncs, writers and sign-outs: save
\* checks the reader and its writes under saving, and a token never runs ahead of
\* what was pulled for it.
THEOREM MirrorInStep == Spec => []InStepUnlessRaced
<1>1. MirrorInv => InStepUnlessRaced
  BY DEF MirrorInv, InStep, Good, InStepUnlessRaced
<1> QED  BY <1>1, MirrorAlways, PTL

\* No object in the copy is a wrong one, but for those saved unknowing: a drop
\* outside saving leaves objects out and puts none in.
THEOREM MirrorNeverWrong == Spec => []NothingWrong
<1>1. MirrorInv => NothingWrong
  BY DEF MirrorInv, InStep, Good, NothingWrong
<1> QED  BY <1>1, MirrorAlways, PTL
=============================================================================
