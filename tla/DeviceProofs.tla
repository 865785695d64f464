----------------------------- MODULE DeviceProofs -----------------------------
(* Theorems about what the controller keeps of one device: its media player  *)
(* (Player), for every number of commands, speakers, feeds and sessions, and *)
(* its connection (DeviceLink), for every set of connections, either TLS     *)
(* policy and any bounds.  The two do not interact: nothing below relates a  *)
(* variable of one to one of the other.                                      *)
EXTENDS Player, MCDeviceLink, Sequences, FiniteSetTheorems, TLAPS

(***************************************************************************)
(* The media player.  An invariant that holds as long as no two operations *)
(* on the session have overlapped says who may be at it, where the music   *)
(* comes from, what the session records of its owner, and where the user's *)
(* last command is: recorded, under way, or shown.                         *)
(***************************************************************************)
Silent == \A t \in Feeds : ~Audible(t)

\* What the caller c is doing to the session: taking the feed away, or letting
\* it be known that it did.
Halting(c) == op[c].pc \in {"flush", "join", "push"}

\* The owner o has the speaker of the session s, or is about to.
Owning(o, s) == op[o].pc # "idle" /\ ~op[o].release /\ op[o].s = s

\* What c does is what the user or the end of speech asked for.
Carries(c) == Busy(c) /\ (c \in Cmds \/ op[c].release)

\* One operation at a time, on the session of the device.
CallersInv ==
    /\ \A c, d \in Callers : Busy(c) /\ Busy(d) => c = d
    /\ \A o, p \in Owners : op[o].pc # "idle" /\ op[p].pc # "idle" => o = p
    /\ \A c \in Cmds : (op[c].pc = "idle" \/ Halting(c)) /\ ~op[c].release
    /\ \A c \in Callers :
        /\ op[c].release => op[c].pc = "unduck" \/ Halting(c)
        /\ op[c].pc = "unduck" => op[c].release /\ ~op[c].was
        /\ Busy(c) => op[c].s = cur /\ cur # None
        /\ Halting(c) => op[c].kind \in {"play", "pause", "stop"} /\ (~Carries(c) => op[c].kind = "pause")
        /\ op[c].pc \in {"flush", "join"} => op[c].victim \in Feeds

\* Music comes from the task of the session, which plays, or from one that an
\* operation has taken away and not yet cancelled.
FeedInv ==
    /\ \A t \in Feeds : Audible(t) =>
        /\ cur # None
        /\ feed[t].s = cur
        /\ \/ sess[cur].task = t /\ sess[cur].state = "playing"
           \/ \E c \in Callers : op[c].pc = "flush" /\ op[c].victim = t
    /\ \A c \in Callers :
        /\ Halting(c) => sess[cur].task = None
        /\ op[c].pc = "push" /\ op[c].kind # "play" => sess[cur].state # "playing"
    /\ cur # None => device.up /\ (sess[cur].state = "playing" => sess[cur].url # None)

\* What the session says of its owner is so.
OwnInv ==
    /\ cur # None =>
        /\ sess[cur].owned => \E o \in Owners : Owning(o, cur)
        /\ sess[cur].ducked => device.mixes /\ sess[cur].owned
        /\ sess[cur].resumeAfter => sess[cur].owned /\ ~sess[cur].ducked
        /\ sess[cur].pending # None => sess[cur].owned
        /\ \A c \in Callers : Carries(c) => ~sess[cur].owned
    /\ \A o \in Owners : Owning(o, cur) /\ cur # None =>
        /\ sess[cur].owned
        /\ \A c \in Callers : Busy(c) => c = o
        /\ op[o].pc = "duck" => sess[cur].ducked
        /\ op[o].pc = "hold" /\ ~sess[cur].ducked => Silent /\ sess[cur].state # "playing"
        /\ Halting(o) => ~sess[cur].ducked

\* The session r shows the effect of the command w.
Shows(w, r) ==
    /\ w.kind \in {"pause", "stop"} => r.state # "playing" /\ ~r.resumeAfter
    /\ w.kind = "play" => r.url \in {w.url, None}

\* The last command is recorded, or under way, or it shows.
WantInv ==
    /\ want # None => cur # None /\ (want.kind = "play" => want.url # None)
    /\ cur # None /\ sess[cur].pending # None => sess[cur].pending = want
    /\ \A c \in Callers : Carries(c) /\ Halting(c) => want = Recorded(op[c].kind, op[c].url)
    /\ \A c \in Callers : op[c].pc = "unduck" => op[c].deferred \in {None, want}
    /\ \/ want = None
       \/ sess[cur].pending # None
       \/ \E c \in Callers : op[c].pc = "unduck" /\ op[c].deferred # None
       \/ \E c \in Callers : Carries(c) /\ Halting(c)
       \/ Shows(want, sess[cur])

\* While no two operations have overlapped.
SerialInv == CallersInv /\ FeedInv /\ OwnInv /\ WantInv

-----------------------------------------------------------------------------
(* Types. *)

\* A caller that does something does it to a session, and so does a live feed;
\* who halts has a feed to halt.
CallerRecord ==
    {b \in OpRecord : /\ b.pc = "idle" \/ b.s \in Sessions
                      /\ b.pc \in {"flush", "join"} => b.victim \in Feeds}
TaskRecord == {f \in FeedRecord : f.pc = "free" \/ f.s \in Sessions}

TypeInv == TypeOK /\ op \in [Callers -> CallerRecord] /\ feed \in [Feeds -> TaskRecord]

\* An operation leaves what it changes typed.
OpTyped ==
    /\ sess' \in [Sessions -> SessionRecord]
    /\ feed' \in [Feeds -> TaskRecord]
    /\ op' \in [Callers -> CallerRecord]
    /\ told' \in States

LEMMA Subtypes ==
  /\ [Callers -> CallerRecord] \subseteq [Callers -> OpRecord]
  /\ [Feeds -> TaskRecord] \subseteq [Feeds -> FeedRecord]
  BY DEF CallerRecord, TaskRecord

LEMMA NewTypes ==
  /\ NewSession \in SessionRecord /\ NoFeed \in TaskRecord
  /\ NoOp \in OpRecord /\ NoOp \in CallerRecord
  BY DEF NewSession, NoFeed, NoOp, SessionRecord, FeedRecord, TaskRecord, OpRecord, CallerRecord, States

\* A field of a session takes a value of its type.
LEMMA SetState ==
  ASSUME NEW ss \in [Sessions -> SessionRecord], NEW s \in Sessions, NEW v \in States
  PROVE  [ss EXCEPT ![s].state = v] \in [Sessions -> SessionRecord]
  BY DEF SessionRecord

LEMMA SetUrl ==
  ASSUME NEW ss \in [Sessions -> SessionRecord], NEW s \in Sessions, NEW v \in Urls \cup {None}
  PROVE  [ss EXCEPT ![s].url = v] \in [Sessions -> SessionRecord]
  BY DEF SessionRecord

LEMMA SetPending ==
  ASSUME NEW ss \in [Sessions -> SessionRecord], NEW s \in Sessions, NEW v \in Command \cup {None}
  PROVE  [ss EXCEPT ![s].pending = v] \in [Sessions -> SessionRecord]
  BY DEF SessionRecord

LEMMA SetTask ==
  ASSUME NEW ss \in [Sessions -> SessionRecord], NEW s \in Sessions, NEW v \in Feeds \cup {None}
  PROVE  [ss EXCEPT ![s].task = v] \in [Sessions -> SessionRecord]
  BY DEF SessionRecord

LEMMA SetFlags ==
  ASSUME NEW ss \in [Sessions -> SessionRecord], NEW s \in Sessions, NEW v \in BOOLEAN
  PROVE  /\ [ss EXCEPT ![s].owned = v] \in [Sessions -> SessionRecord]
         /\ [ss EXCEPT ![s].resumeAfter = v] \in [Sessions -> SessionRecord]
         /\ [ss EXCEPT ![s].ducked = v] \in [Sessions -> SessionRecord]
         /\ [ss EXCEPT ![s].pos = v] \in [Sessions -> SessionRecord]
         /\ [ss EXCEPT ![s].seekable = v] \in [Sessions -> SessionRecord]
  BY DEF SessionRecord

\* A caller takes a record.
LEMMA SetOp ==
  ASSUME TypeInv, NEW c \in Callers, NEW b \in CallerRecord
  PROVE  [op EXCEPT ![c] = b] \in [Callers -> CallerRecord]
  BY DEF TypeInv

LEMMA HoldingType ==
  ASSUME NEW p \in {"duck", "hold"}, NEW s \in Sessions
  PROVE  Holding(p, s) \in CallerRecord
  BY DEF Holding, NoOp, OpRecord, CallerRecord

LEMMA TypeInit == Init => TypeInv
<1>. SUFFICES ASSUME Init PROVE TypeInv
  OBVIOUS
<1>1. left \in [cmds : 0..MaxCmds, turns : 0..MaxTurns, gone : 0..MaxGone]
  BY BoundsAssumption DEF Init
<1>2. /\ sess \in [Sessions -> SessionRecord]
      /\ feed \in [Feeds -> TaskRecord]
      /\ op \in [Callers -> CallerRecord]
  BY NewTypes DEF Init
<1>3. /\ cur = None /\ told \in States /\ want = None /\ raced = FALSE
      /\ device \in [up : BOOLEAN, mixes : BOOLEAN]
  BY DEF Init, States
<1>. QED  BY <1>1, <1>2, <1>3, Subtypes DEF TypeOK, TypeInv

\* Returning leaves the caller idle or holding the speaker.
LEMMA ReturnType ==
  ASSUME TypeInv, NEW c \in Callers, NEW b \in OpRecord, b.s \in Sessions, Return(c, b)
  PROVE  op' \in [Callers -> CallerRecord]
  BY NewTypes, HoldingType, SetOp DEF Return

LEMMA StartFeedType ==
  ASSUME TypeInv, NEW ss \in [Sessions -> SessionRecord], NEW s \in Sessions, StartFeed(ss, s)
  PROVE  sess' \in [Sessions -> SessionRecord] /\ feed' \in [Feeds -> TaskRecord]
<1>. DEFINE t == CHOOSE x \in Unused : TRUE
            f == [pc |-> "new", s |-> s, eos |-> FALSE]
<1>1. t \in Feeds
  BY DEF StartFeed, Unused
<1>2. sess' = [ss EXCEPT ![s].state = "playing", ![s].task = t] /\ feed' = [feed EXCEPT ![t] = f]
  BY DEF StartFeed
<1>3. f \in TaskRecord
  BY DEF FeedRecord, TaskRecord
<1>. HIDE DEF t, f
<1>4. sess' \in [Sessions -> SessionRecord]
  BY <1>1, <1>2, SetState, SetTask DEF States
<1>5. feed' \in [Feeds -> TaskRecord]
  BY <1>2, <1>3 DEF TypeInv
<1>. QED  BY <1>4, <1>5

LEMMA ResumeType ==
  ASSUME TypeInv, NEW ss \in [Sessions -> SessionRecord], NEW c \in Callers, NEW b \in OpRecord,
         b.s \in Sessions, NEW s \in Sessions, Resume(ss, c, b, s)
  PROVE  OpTyped
<1>1. op' \in [Callers -> CallerRecord] /\ told' \in States
  BY ReturnType DEF Resume, TypeOK, TypeInv
<1>2. sess' \in [Sessions -> SessionRecord] /\ feed' \in [Feeds -> TaskRecord]
  <2>1. CASE ss[s].state = "paused" /\ ss[s].url # None
    BY <2>1, StartFeedType DEF Resume
  <2>2. CASE ~(ss[s].state = "paused" /\ ss[s].url # None)
    BY <2>2 DEF Resume, TypeInv
  <2>. QED  BY <2>1, <2>2
<1>. QED  BY <1>1, <1>2 DEF OpTyped

LEMMA PlayUrlType ==
  ASSUME TypeInv, NEW ss \in [Sessions -> SessionRecord], NEW c \in Callers, NEW b \in OpRecord,
         b.s \in Sessions, NEW s \in Sessions, PlayUrl(ss, c, b, s)
  PROVE  OpTyped
<1>. DEFINE tt == [ss EXCEPT ![s].url = b.url, ![s].pos = FALSE, ![s].seekable = TRUE]
<1>1. tt \in [Sessions -> SessionRecord]
  BY SetUrl, SetFlags DEF OpRecord
<1>2. StartFeed(tt, s) /\ Return(c, b) /\ UNCHANGED told
  BY DEF PlayUrl
<1>. HIDE DEF tt
<1>. QED  BY <1>1, <1>2, StartFeedType, ReturnType DEF OpTyped, TypeOK, TypeInv

\* What Home Assistant is told is a state.
LEMMA PushStateType ==
  ASSUME NEW ss \in [Sessions -> SessionRecord], NEW s \in Sessions \cup {None}, PushState(ss, s)
  PROVE  told' \in States
  BY DEF PushState, ReportedState, SessionRecord, States

Paused(ss, s) == [ss EXCEPT ![s].state = "paused"]
Stopped(ss, s) ==
    [ss EXCEPT ![s].state = "idle", ![s].url = None, ![s].pos = FALSE, ![s].resumeAfter = FALSE]

LEMMA HaltedTypes ==
  ASSUME NEW ss \in [Sessions -> SessionRecord], NEW s \in Sessions
  PROVE  Paused(ss, s) \in [Sessions -> SessionRecord] /\ Stopped(ss, s) \in [Sessions -> SessionRecord]
<1>1. [ss EXCEPT ![s].state = "idle"] \in [Sessions -> SessionRecord]
  BY SetState DEF States
<1>2. [ss EXCEPT ![s].state = "idle", ![s].url = None] \in [Sessions -> SessionRecord]
  BY <1>1, SetUrl
<1>3. [ss EXCEPT ![s].state = "idle", ![s].url = None, ![s].pos = FALSE] \in [Sessions -> SessionRecord]
  BY <1>2, SetFlags
<1>4. Stopped(ss, s) \in [Sessions -> SessionRecord]
  BY <1>3, SetFlags DEF Stopped
<1>. QED  BY <1>4, SetState DEF Paused, States

\* The three ends of a halt: Home Assistant is told next; nothing was left to
\* stop; or the new URL starts at once.
LEMMA AfterHaltCases ==
  ASSUME NEW ss, NEW c, NEW b, NEW s, AfterHalt(ss, c, b, s)
  PROVE  \/ /\ b.kind = "pause" \/ b.was
            /\ sess' = IF b.kind = "pause" THEN Paused(ss, s) ELSE Stopped(ss, s)
            /\ PushState(sess', cur')
            /\ op' = [op EXCEPT ![c] = [b EXCEPT !.pc = "push"]]
            /\ UNCHANGED feed
         \/ /\ b.kind = "stop"
            /\ sess' = Stopped(ss, s)
            /\ Return(c, b)
            /\ UNCHANGED <<feed, told>>
         \/ b.kind = "play" /\ PlayUrl(Stopped(ss, s), c, b, s)
  BY DEF AfterHalt, Paused, Stopped, PushState

LEMMA AfterHaltType ==
  ASSUME TypeInv, NEW ss \in [Sessions -> SessionRecord], NEW c \in Callers, NEW b \in OpRecord,
         b.s \in Sessions, NEW s \in Sessions, AfterHalt(ss, c, b, s), cur' \in Sessions \cup {None}
  PROVE  OpTyped
<1>. DEFINE after == IF b.kind = "pause" THEN Paused(ss, s) ELSE Stopped(ss, s)
<1>0. after \in [Sessions -> SessionRecord] /\ Stopped(ss, s) \in [Sessions -> SessionRecord]
  BY HaltedTypes
<1>1. CASE /\ sess' = after
           /\ PushState(sess', cur')
           /\ op' = [op EXCEPT ![c] = [b EXCEPT !.pc = "push"]]
           /\ UNCHANGED feed
  <2>1. told' \in States
    BY <1>0, <1>1, PushStateType
  <2>2. [b EXCEPT !.pc = "push"] \in CallerRecord
    BY DEF CallerRecord, OpRecord
  <2>. QED  BY <1>0, <1>1, <2>1, <2>2, SetOp DEF OpTyped, TypeInv
<1>2. CASE sess' = Stopped(ss, s) /\ Return(c, b) /\ UNCHANGED <<feed, told>>
  BY <1>0, <1>2, ReturnType DEF OpTyped, TypeOK, TypeInv
<1>3. CASE PlayUrl(Stopped(ss, s), c, b, s)
  BY <1>0, <1>3, PlayUrlType
<1>. QED  BY <1>1, <1>2, <1>3, AfterHaltCases

\* What Perform starts with: the caller remembers the task and the state, and
\* the session has no task any more.
Begun(ss, base, s, k, u) ==
    [base EXCEPT !.s = s, !.kind = k, !.url = u, !.victim = ss[s].task, !.was = ss[s].state # "idle"]
Taken(ss, s) == [ss EXCEPT ![s].task = None]

\* An operation resumes, finds nothing to pause, has a feed to flush, or has
\* none left.
LEMMA PerformCases ==
  ASSUME NEW ss, NEW c, NEW base, NEW s, NEW k, NEW u, Perform(ss, c, base, s, k, u)
  PROVE  \/ k = "resume" /\ Resume(ss, c, Begun(ss, base, s, k, u), s)
         \/ /\ k = "pause" /\ ss[s].state # "playing"
            /\ sess' = ss /\ Return(c, Begun(ss, base, s, k, u)) /\ UNCHANGED <<feed, told>>
         \/ /\ k # "resume" /\ (k = "pause" => ss[s].state = "playing")
            /\ ToHalt(ss[s].task)
            /\ sess' = Taken(ss, s)
            /\ op' = [op EXCEPT ![c] = [Begun(ss, base, s, k, u) EXCEPT !.pc = "flush"]]
            /\ UNCHANGED <<feed, told>>
         \/ /\ k # "resume" /\ (k = "pause" => ss[s].state = "playing")
            /\ ~ToHalt(ss[s].task)
            /\ AfterHalt(Taken(ss, s), c, [Begun(ss, base, s, k, u) EXCEPT !.victim = None], s)
  BY DEF Perform, Begun, Taken

LEMMA BegunType ==
  ASSUME NEW ss \in [Sessions -> SessionRecord], NEW base \in OpRecord, NEW s \in Sessions,
         NEW k \in Kinds, NEW u \in Urls \cup {None}
  PROVE  /\ Begun(ss, base, s, k, u) \in OpRecord
         /\ Begun(ss, base, s, k, u).s = s
         /\ [Begun(ss, base, s, k, u) EXCEPT !.victim = None] \in OpRecord
         /\ [Begun(ss, base, s, k, u) EXCEPT !.victim = None].s = s
         /\ ss[s].task # None => [Begun(ss, base, s, k, u) EXCEPT !.pc = "flush"] \in CallerRecord
<1>1. ss[s].task \in Feeds \cup {None} /\ (ss[s].state # "idle") \in BOOLEAN
  BY DEF SessionRecord
<1>2. Begun(ss, base, s, k, u) \in OpRecord
  BY <1>1 DEF Begun, OpRecord
<1>3. Begun(ss, base, s, k, u).s = s /\ Begun(ss, base, s, k, u).victim = ss[s].task
  BY DEF Begun, OpRecord
<1>4. ss[s].task # None => [Begun(ss, base, s, k, u) EXCEPT !.pc = "flush"] \in CallerRecord
  BY <1>1, <1>2, <1>3 DEF OpRecord, CallerRecord
<1>. QED  BY <1>2, <1>3, <1>4 DEF OpRecord

LEMMA PerformType ==
  ASSUME TypeInv, NEW ss \in [Sessions -> SessionRecord], NEW c \in Callers, NEW base \in OpRecord,
         NEW s \in Sessions, NEW k \in Kinds, NEW u \in Urls \cup {None},
         Perform(ss, c, base, s, k, u), cur' \in Sessions \cup {None}
  PROVE  OpTyped
<1>. DEFINE b == Begun(ss, base, s, k, u)
<1>0. /\ b \in OpRecord /\ b.s = s
      /\ [b EXCEPT !.victim = None] \in OpRecord /\ [b EXCEPT !.victim = None].s = s
      /\ ss[s].task # None => [b EXCEPT !.pc = "flush"] \in CallerRecord
  BY BegunType
<1>1. Taken(ss, s) \in [Sessions -> SessionRecord]
  BY SetTask DEF Taken
<1>. HIDE DEF b
<1>2. CASE Resume(ss, c, b, s)
  BY <1>0, <1>2, ResumeType
<1>3. CASE sess' = ss /\ Return(c, b) /\ UNCHANGED <<feed, told>>
  BY <1>0, <1>3, ReturnType DEF OpTyped, TypeOK, TypeInv
<1>4. CASE /\ ToHalt(ss[s].task) /\ sess' = Taken(ss, s)
           /\ op' = [op EXCEPT ![c] = [b EXCEPT !.pc = "flush"]] /\ UNCHANGED <<feed, told>>
  BY <1>0, <1>1, <1>4, SetOp DEF ToHalt, OpTyped, TypeOK, TypeInv
<1>5. CASE AfterHalt(Taken(ss, s), c, [b EXCEPT !.victim = None], s)
  BY <1>0, <1>1, <1>5, AfterHaltType
<1>. QED  BY <1>2, <1>3, <1>4, <1>5, PerformCases DEF b

\* A cancelled feed has only its finally block to go through, if it ran at all.
LEMMA CancelType ==
  ASSUME TypeInv, NEW ss \in [Sessions -> SessionRecord], NEW t \in Feeds, Cancel(ss, t)
  PROVE  sess' \in [Sessions -> SessionRecord] /\ feed' \in [Feeds -> TaskRecord]
<1>1. CASE feed' = [feed EXCEPT ![t] = NoFeed] /\ sess' = ss
  BY <1>1, NewTypes DEF TypeInv
<1>2. CASE /\ feed[t].pc # "free"
           /\ feed' = [feed EXCEPT ![t].pc = IF feed[t].eos THEN "exit" ELSE "eos"]
           /\ \E p \in BOOLEAN : sess' = [ss EXCEPT ![feed[t].s].pos = p]
  <2>1. feed[t].s \in Sessions
    BY <1>2 DEF TypeInv, TaskRecord
  <2>2. \A pc \in {"exit", "eos"} : [feed[t] EXCEPT !.pc = pc] \in TaskRecord
    BY <2>1 DEF TypeInv, TaskRecord, FeedRecord
  <2>3. feed' = [feed EXCEPT ![t] = [feed[t] EXCEPT !.pc = IF feed[t].eos THEN "exit" ELSE "eos"]]
    BY <1>2
  <2>4. feed' \in [Feeds -> TaskRecord]
    BY <2>2, <2>3 DEF TypeInv
  <2>5. PICK p \in BOOLEAN : sess' = [ss EXCEPT ![feed[t].s].pos = p]
    BY <1>2
  <2>6. sess' \in [Sessions -> SessionRecord]
    BY <2>1, <2>5, SetFlags
  <2>. QED  BY <2>4, <2>6
<1>3. CASE sess' = ss /\ UNCHANGED feed
  BY <1>3 DEF TypeInv
<1>. QED  BY <1>1, <1>2, <1>3 DEF Cancel

LEMMA SettleType ==
  ASSUME TypeInv, NEW ss \in [Sessions -> SessionRecord], NEW o \in Callers, NEW b \in OpRecord,
         b.s \in Sessions, NEW s \in Sessions, NEW d \in BOOLEAN, Settle(ss, o, b, s, d),
         cur' \in Sessions \cup {None}
  PROVE  OpTyped
<1>1. CASE Resume(ss, o, b, s)
  BY <1>1, ResumeType
<1>2. CASE sess' = ss /\ Return(o, b) /\ UNCHANGED <<feed, told>>
  BY <1>2, ReturnType DEF OpTyped, TypeOK, TypeInv
<1>3. CASE b.deferred # None /\ Perform(ss, o, b, s, b.deferred.kind, b.deferred.url)
  <2>1. b.deferred.kind \in Kinds /\ b.deferred.url \in Urls \cup {None}
    BY <1>3 DEF OpRecord, Command
  <2>. QED  BY <1>3, <2>1, PerformType
<1>. QED  BY <1>1, <1>2, <1>3 DEF Settle

\* The session of the device is one of Sessions, and a new one is fresh.
LEMMA SessionIs ==
  ASSUME NEW s \in Sessions, Session(s)
  PROVE  s = cur \/ (cur = None /\ Fresh(s))
  BY DEF Session

LEMMA TypeCommand ==
  ASSUME TypeInv, NEW c \in Cmds, NEW k \in Kinds, NEW u \in Urls \cup {None}, MediaCommand(c, k, u)
  PROVE  TypeInv'
<1>1. PICK s \in Sessions :
        /\ Session(s) /\ cur' = s
        /\ \/ Defers(sess[s]) /\ Defer(c, s, k, u)
           \/ ~Defers(sess[s]) /\ raced' = Races(c) /\ Perform(sess, c, NoOp, s, k, u)
  BY DEF MediaCommand
<1>2. Recorded(k, u) \in Command
  BY DEF Recorded, Command
<1>3. OpTyped /\ raced' \in BOOLEAN
  <2>1. CASE Defer(c, s, k, u)
    <3>1. sess' \in [Sessions -> SessionRecord]
      BY <1>2, <2>1, SetPending DEF Defer, TypeOK, TypeInv
    <3>2. told' \in States
      BY <2>1 DEF Defer, Kinds, States
    <3>. QED  BY <2>1, <3>1, <3>2 DEF Defer, OpTyped, TypeOK, TypeInv
  <2>2. CASE raced' = Races(c) /\ Perform(sess, c, NoOp, s, k, u)
    <3>1. c \in Callers /\ sess \in [Sessions -> SessionRecord] /\ cur' \in Sessions \cup {None}
      BY <1>1 DEF TypeOK, TypeInv, Callers
    <3>2. OpTyped
      BY <2>2, <3>1, PerformType, NewTypes
    <3>3. raced' \in BOOLEAN
      BY <2>2 DEF Races, TypeOK, TypeInv
    <3>. QED  BY <3>2, <3>3
  <2>. QED  BY <1>1, <2>1, <2>2
<1>4. left' \in [cmds : 0..MaxCmds, turns : 0..MaxTurns, gone : 0..MaxGone]
  BY BoundsAssumption DEF MediaCommand, TypeOK, TypeInv
<1>. QED  BY <1>1, <1>2, <1>3, <1>4, Subtypes DEF MediaCommand, TypeOK, TypeInv, OpTyped, Recorded

LEMMA TypeInterrupt == ASSUME TypeInv, NEW o \in Owners, Interrupt(o) PROVE TypeInv'
<1>1. PICK s \in Sessions :
        /\ Session(s) /\ cur' = s
        /\ LET taken == [sess EXCEPT ![s].owned = TRUE, ![s].pending = None]
           IN \/ /\ device.mixes
                 /\ sess' = [taken EXCEPT ![s].ducked = TRUE]
                 /\ op' = [op EXCEPT ![o] = Holding("duck", s)]
                 /\ UNCHANGED <<feed, told>>
              \/ /\ ~device.mixes /\ sess[s].state = "playing"
                 /\ Perform([taken EXCEPT ![s].resumeAfter = TRUE], o, NoOp, s, "pause", None)
              \/ /\ ~device.mixes /\ sess[s].state # "playing"
                 /\ sess' = taken
                 /\ op' = [op EXCEPT ![o] = Holding("hold", s)]
                 /\ UNCHANGED <<feed, told>>
  BY DEF Interrupt
<1>. DEFINE taken == [sess EXCEPT ![s].owned = TRUE, ![s].pending = None]
<1>2. taken \in [Sessions -> SessionRecord]
  <2>1. [sess EXCEPT ![s].owned = TRUE] \in [Sessions -> SessionRecord]
    BY SetFlags DEF TypeOK, TypeInv
  <2>. QED  BY <2>1, SetPending
<1>. HIDE DEF taken
<1>3. /\ [taken EXCEPT ![s].ducked = TRUE] \in [Sessions -> SessionRecord]
      /\ [taken EXCEPT ![s].resumeAfter = TRUE] \in [Sessions -> SessionRecord]
  BY <1>2, SetFlags
<1>4. /\ [op EXCEPT ![o] = Holding("duck", s)] \in [Callers -> CallerRecord]
      /\ [op EXCEPT ![o] = Holding("hold", s)] \in [Callers -> CallerRecord]
  BY HoldingType, SetOp DEF Callers
<1>5. OpTyped
  <2>1. CASE /\ sess' = [taken EXCEPT ![s].ducked = TRUE]
             /\ op' = [op EXCEPT ![o] = Holding("duck", s)]
             /\ UNCHANGED <<feed, told>>
    BY <1>3, <1>4, <2>1 DEF OpTyped, TypeOK, TypeInv
  <2>2. CASE Perform([taken EXCEPT ![s].resumeAfter = TRUE], o, NoOp, s, "pause", None)
    BY <1>1, <1>3, <2>2, PerformType, NewTypes DEF Callers, Kinds
  <2>3. CASE /\ sess' = taken
             /\ op' = [op EXCEPT ![o] = Holding("hold", s)]
             /\ UNCHANGED <<feed, told>>
    BY <1>2, <1>4, <2>3 DEF OpTyped, TypeOK, TypeInv
  <2>. QED  BY <1>1, <2>1, <2>2, <2>3 DEF taken
<1>6. raced' \in BOOLEAN
  BY DEF Interrupt, Races, TypeOK, TypeInv
<1>7. left' \in [cmds : 0..MaxCmds, turns : 0..MaxTurns, gone : 0..MaxGone]
  BY BoundsAssumption DEF Interrupt, TypeOK, TypeInv
<1>. QED  BY <1>1, <1>5, <1>6, <1>7, Subtypes DEF Interrupt, TypeOK, TypeInv, OpTyped

\* The session and the record with which the end of speech goes on.
Freed(ss, s) == [ss EXCEPT ![s] =
    [ss[s] EXCEPT !.owned = FALSE, !.pending = None, !.resumeAfter = FALSE, !.ducked = FALSE]]
Ending(s) == [NoOp EXCEPT !.s = s, !.release = TRUE,
                          !.deferred = sess[s].pending, !.was = sess[s].resumeAfter]

LEMMA ReleaseCases ==
  ASSUME NEW o, Release(o)
  PROVE  \/ /\ cur = None /\ op' = [op EXCEPT ![o] = NoOp]
            /\ UNCHANGED <<sess, feed, told>>
         \/ /\ cur # None
            /\ \/ /\ sess[cur].ducked /\ device.up
                  /\ sess' = Freed(sess, cur)
                  /\ op' = [op EXCEPT ![o] = [Ending(cur) EXCEPT !.pc = "unduck"]]
                  /\ UNCHANGED <<feed, told>>
               \/ /\ ~(sess[cur].ducked /\ device.up)
                  /\ Settle(Freed(sess, cur), o, Ending(cur), cur, sess[cur].ducked)
  BY DEF Release, Freed, Ending

LEMMA FreedType ==
  ASSUME TypeInv, NEW s \in Sessions
  PROVE  /\ Freed(sess, s) \in [Sessions -> SessionRecord]
         /\ Ending(s) \in OpRecord /\ Ending(s).s = s
         /\ [Ending(s) EXCEPT !.pc = "unduck"] \in CallerRecord
<1>1. sess[s].pending \in Command \cup {None} /\ sess[s].resumeAfter \in BOOLEAN
  BY DEF TypeOK, TypeInv, SessionRecord
<1>2. Ending(s) \in OpRecord /\ Ending(s).s = s
  BY <1>1 DEF Ending, OpRecord, NoOp
<1>3. [sess[s] EXCEPT !.owned = FALSE, !.pending = None, !.resumeAfter = FALSE, !.ducked = FALSE]
        \in SessionRecord
  <2>1. \A r \in SessionRecord : [r EXCEPT !.owned = FALSE] \in SessionRecord
    BY DEF SessionRecord
  <2>2. \A r \in SessionRecord : [r EXCEPT !.pending = None] \in SessionRecord
    BY DEF SessionRecord
  <2>3. \A r \in SessionRecord : [r EXCEPT !.resumeAfter = FALSE, !.ducked = FALSE] \in SessionRecord
    BY DEF SessionRecord
  <2>. QED  BY <2>1, <2>2, <2>3 DEF TypeOK, TypeInv
<1>4. Freed(sess, s) \in [Sessions -> SessionRecord]
  BY <1>3 DEF Freed, TypeOK, TypeInv
<1>5. [Ending(s) EXCEPT !.pc = "unduck"] \in CallerRecord
  BY <1>2 DEF CallerRecord, OpRecord
<1>. QED  BY <1>2, <1>4, <1>5

LEMMA TypeOwner ==
  ASSUME TypeInv, NEW o \in Owners, Release(o) \/ OwnerStep(o)
  PROVE  TypeInv'
<1>0. o \in Callers /\ op[o] \in OpRecord /\ (op[o].pc = "idle" \/ op[o].s \in Sessions)
  BY DEF Callers, TypeOK, TypeInv, CallerRecord
<1>1. CASE Release(o)
  <2>1. raced' \in BOOLEAN
    BY <1>1 DEF Release, Races, TypeOK, TypeInv
  <2>2. OpTyped
    <3>1. CASE cur = None /\ op' = [op EXCEPT ![o] = NoOp] /\ UNCHANGED <<sess, feed, told>>
      BY <1>0, <3>1, NewTypes, SetOp DEF OpTyped, TypeOK, TypeInv
    <3>2. CASE /\ cur # None
               /\ sess' = Freed(sess, cur)
               /\ op' = [op EXCEPT ![o] = [Ending(cur) EXCEPT !.pc = "unduck"]]
               /\ UNCHANGED <<feed, told>>
      <4>1. cur \in Sessions
        BY <3>2 DEF TypeOK, TypeInv
      <4>. QED  BY <1>0, <3>2, <4>1, FreedType, SetOp DEF OpTyped, TypeOK, TypeInv
    <3>3. CASE cur # None /\ Settle(Freed(sess, cur), o, Ending(cur), cur, sess[cur].ducked)
      <4>1. cur \in Sessions /\ sess[cur].ducked \in BOOLEAN /\ cur' \in Sessions \cup {None}
        BY <1>1, <3>3 DEF TypeOK, TypeInv, SessionRecord, Release
      <4>. QED  BY ZenonT(60), <1>0, <3>3, <4>1, FreedType, SettleType
    <3>. QED  BY <1>1, <3>1, <3>2, <3>3, ReleaseCases
  <2>. QED  BY <1>1, <2>1, <2>2, Subtypes DEF Release, TypeOK, TypeInv, OpTyped
<1>2. CASE DuckSent(o)
  <2>1. op' \in [Callers -> CallerRecord]
    BY <1>0, <1>2, ReturnType DEF DuckSent
  <2>. QED  BY <1>2, <2>1, Subtypes DEF DuckSent, TypeOK, TypeInv
<1>3. CASE UnduckSent(o)
  <2>1. raced' \in BOOLEAN
    BY <1>3 DEF UnduckSent, Races, TypeOK, TypeInv
  <2>2. OpTyped
    BY <1>0, <1>3, SettleType DEF UnduckSent, TypeOK, TypeInv
  <2>. QED  BY <1>3, <2>1, <2>2, Subtypes DEF UnduckSent, TypeOK, TypeInv, OpTyped
<1>. QED  BY <1>1, <1>2, <1>3 DEF OwnerStep

LEMMA TypeOp ==
  ASSUME TypeInv, NEW c \in Callers, OpStep(c)
  PROVE  TypeInv'
<1>0. op[c] \in OpRecord /\ (op[c].pc = "idle" \/ op[c].s \in Sessions)
  BY DEF TypeOK, TypeInv, CallerRecord
<1>1. CASE FlushSent(c)
  <2>0. op[c].victim \in Feeds
    BY <1>1 DEF FlushSent, TypeInv, CallerRecord
  <2>1. sess' \in [Sessions -> SessionRecord] /\ feed' \in [Feeds -> TaskRecord]
    BY <1>1, <2>0, CancelType DEF FlushSent, TypeOK, TypeInv
  <2>2. [op[c] EXCEPT !.pc = "join"] \in CallerRecord
    BY <1>0, <1>1, <2>0 DEF FlushSent, CallerRecord, OpRecord
  <2>3. op' \in [Callers -> CallerRecord]
    BY <1>1, <2>2, SetOp DEF FlushSent
  <2>. QED  BY <1>1, <2>1, <2>3, Subtypes DEF FlushSent, TypeOK, TypeInv
<1>2. CASE Joined(c)
  <2>1. [op[c] EXCEPT !.victim = None] \in OpRecord /\ [op[c] EXCEPT !.victim = None].s = op[c].s
    BY <1>0 DEF OpRecord
  <2>2. OpTyped
    BY <1>0, <1>2, <2>1, AfterHaltType DEF Joined, TypeOK, TypeInv
  <2>. QED  BY <1>2, <2>2, Subtypes DEF Joined, TypeOK, TypeInv, OpTyped
<1>3. CASE Pushed(c)
  <2>1. OpTyped
    <3>1. CASE PlayUrl(sess, c, op[c], op[c].s)
      BY <1>0, <1>3, <3>1, PlayUrlType DEF Pushed, TypeOK, TypeInv
    <3>2. CASE Return(c, op[c]) /\ UNCHANGED <<sess, feed, told>>
      BY <1>0, <1>3, <3>2, ReturnType DEF Pushed, TypeOK, TypeInv, OpTyped
    <3>. QED  BY <1>3, <3>1, <3>2 DEF Pushed
  <2>. QED  BY <1>3, <2>1, Subtypes DEF Pushed, TypeOK, TypeInv, OpTyped
<1>. QED  BY <1>1, <1>2, <1>3 DEF OpStep

\* A feed that moves on stays where it plays.
LEMMA FeedMoves ==
  ASSUME TypeInv, NEW t \in Feeds, feed[t].pc # "free",
         NEW p \in {"free", "new", "spawn", "seek", "start", "stream", "drain", "eos", "exit"}
  PROVE  /\ [feed EXCEPT ![t].pc = p] \in [Feeds -> TaskRecord]
         /\ [feed EXCEPT ![t].pc = p, ![t].eos = TRUE] \in [Feeds -> TaskRecord]
         /\ feed[t].s \in Sessions
<1>1. feed[t] \in FeedRecord /\ feed[t].s \in Sessions
  BY DEF TypeInv, TaskRecord
<1>2. [feed[t] EXCEPT !.pc = p] \in TaskRecord /\ [feed[t] EXCEPT !.pc = p, !.eos = TRUE] \in TaskRecord
  BY <1>1 DEF FeedRecord, TaskRecord
<1>3. [feed EXCEPT ![t].pc = p] = [feed EXCEPT ![t] = [feed[t] EXCEPT !.pc = p]]
  OBVIOUS
<1>4. [feed EXCEPT ![t].pc = p, ![t].eos = TRUE]
        = [feed EXCEPT ![t] = [feed[t] EXCEPT !.pc = p, !.eos = TRUE]]
  BY DEF TypeInv
<1>. QED  BY <1>1, <1>2, <1>3, <1>4 DEF TypeInv

\* A session that its feed ends is told.
LEMMA FinishType ==
  ASSUME TypeInv, NEW t \in Feeds, feed[t].s \in Sessions, NEW r \in SessionRecord, Finish(t, r),
         cur' = cur
  PROVE  sess' \in [Sessions -> SessionRecord] /\ told' \in States
<1>1. [sess EXCEPT ![feed[t].s] = r] \in [Sessions -> SessionRecord]
  BY DEF TypeOK, TypeInv
<1>2. sess' = [sess EXCEPT ![feed[t].s] = r] /\ PushState(sess', cur)
  BY DEF Finish, PushState
<1>. QED  BY <1>1, <1>2, PushStateType DEF TypeOK, TypeInv

LEMMA TypeFeed ==
  ASSUME TypeInv, NEW t \in Feeds, FeedStep(t)
  PROVE  TypeInv'
<1>0. sess \in [Sessions -> SessionRecord] /\ told \in States /\ cur \in Sessions \cup {None} /\ cur' = cur
  BY DEF FeedStep, TypeOK, TypeInv
<1>1. \A s \in Sessions : 
        /\ [sess[s] EXCEPT !.state = "idle"] \in SessionRecord
        /\ [sess[s] EXCEPT !.state = "idle", !.url = None, !.pos = FALSE] \in SessionRecord
  BY <1>0 DEF SessionRecord, States
<1>2. sess' \in [Sessions -> SessionRecord] /\ feed' \in [Feeds -> TaskRecord] /\ told' \in States
  <2>1. CASE FeedBegins(t)
    <3>1. feed[t].pc = "new" /\ feed[t].s \in Sessions
      BY <2>1, FeedMoves DEF FeedBegins
    <3>2. CASE Finish(t, [sess[feed[t].s] EXCEPT !.state = "idle"]) /\ Goes(t, "exit")
      BY <1>0, <1>1, <3>1, <3>2, FinishType, FeedMoves DEF Goes
    <3>3. CASE /\ sess' = [sess EXCEPT ![feed[t].s].pos = @ /\ sess[feed[t].s].seekable]
               /\ Goes(t, "spawn") /\ UNCHANGED told
      <4>1. (sess[feed[t].s].pos /\ sess[feed[t].s].seekable) \in BOOLEAN
        BY <1>0, <3>1 DEF SessionRecord
      <4>2. sess' = [sess EXCEPT ![feed[t].s].pos = sess[feed[t].s].pos /\ sess[feed[t].s].seekable]
        BY <1>0, <3>1, <3>3
      <4>3. sess' \in [Sessions -> SessionRecord]
        BY <1>0, <3>1, <4>1, <4>2, SetFlags
      <4>. QED  BY <1>0, <3>1, <3>3, <4>3, FeedMoves DEF Goes
    <3>. QED  BY <2>1, <3>2, <3>3 DEF FeedBegins
  <2>2. CASE DecoderSpawned(t) \/ SeekGivesAudio(t) \/ FirstFrame(t)
    <3>1. UNCHANGED told \/ PushState(sess, cur)
      BY <2>2 DEF DecoderSpawned, SeekGivesAudio, FirstFrame
    <3>2. told' \in States
      BY <1>0, <3>1, PushStateType
    <3>3. feed[t].pc # "free" /\ (Goes(t, "seek") \/ Goes(t, "start") \/ Goes(t, "stream"))
      BY <2>2 DEF DecoderSpawned, SeekGivesAudio, FirstFrame
    <3>4. feed' \in [Feeds -> TaskRecord]
      <4>1. CASE Goes(t, "seek")  BY <3>3, <4>1, FeedMoves DEF Goes
      <4>2. CASE Goes(t, "start")  BY <3>3, <4>2, FeedMoves DEF Goes
      <4>3. CASE Goes(t, "stream")  BY <3>3, <4>3, FeedMoves DEF Goes
      <4>. QED  BY <3>3, <4>1, <4>2, <4>3
    <3>. QED  BY <1>0, <2>2, <3>2, <3>4 DEF DecoderSpawned, SeekGivesAudio, FirstFrame
  <2>3. CASE SeekStalls(t)
    <3>1. feed[t].pc # "free" /\ feed[t].s \in Sessions
      BY <2>3, FeedMoves DEF SeekStalls
    <3>2. [sess EXCEPT ![feed[t].s].pos = FALSE] \in [Sessions -> SessionRecord]
      BY <1>0, <3>1, SetFlags
    <3>3. sess' \in [Sessions -> SessionRecord]
      BY <2>3, <3>1, <3>2, SetFlags DEF SeekStalls
    <3>. QED  BY <1>0, <2>3, <3>1, <3>3, FeedMoves DEF SeekStalls, Goes
  <2>4. CASE SourceEnds(t) \/ EosSent(t)
    <3>1. CASE SourceEnds(t)  BY <1>0, <3>1, FeedMoves DEF SourceEnds
    <3>2. CASE EosSent(t)  BY <1>0, <3>2, FeedMoves DEF EosSent
    <3>. QED  BY <2>4, <3>1, <3>2
  <2>5. CASE Drained(t)
    <3>1. feed[t].pc # "free" /\ feed[t].s \in Sessions
      BY <2>5, FeedMoves DEF Drained
    <3>. QED  BY <1>0, <1>1, <2>5, <3>1, FinishType, FeedMoves DEF Drained, Goes
  <2>6. CASE FeedFails(t)
    <3>1. feed[t].pc # "free" /\ feed[t].s \in Sessions
      BY <2>6, FeedMoves DEF FeedFails
    <3>. QED  BY <1>0, <1>1, <2>6, <3>1, FinishType, FeedMoves DEF FeedFails, Goes
  <2>7. CASE FeedReturns(t)
    BY <1>0, <2>7, NewTypes DEF FeedReturns, TypeInv
  <2>. QED  BY <2>1, <2>2, <2>3, <2>4, <2>5, <2>6, <2>7 DEF FeedStep
<1>. QED  BY <1>2, Subtypes DEF FeedStep, TypeOK, TypeInv

LEMMA TypeGone == TypeInv /\ DeviceGone => TypeInv'
<1>. SUFFICES ASSUME TypeInv, DeviceGone PROVE TypeInv'
  OBVIOUS
<1>1. left' \in [cmds : 0..MaxCmds, turns : 0..MaxTurns, gone : 0..MaxGone]
  BY BoundsAssumption DEF DeviceGone, TypeOK, TypeInv
<1>2. device' \in [up : BOOLEAN, mixes : BOOLEAN] /\ raced' \in BOOLEAN /\ told' \in States
  BY DEF DeviceGone, TypeOK, TypeInv, States
<1>3. sess' \in [Sessions -> SessionRecord] /\ feed' \in [Feeds -> TaskRecord]
  <2>1. CASE cur = None
    BY <2>1 DEF DeviceGone, TypeOK, TypeInv
  <2>2. CASE cur # None
    <3>. DEFINE ss == [sess EXCEPT ![cur].state = "idle", ![cur].task = None]
    <3>1. cur \in Sessions /\ sess[cur].task \in Feeds \cup {None}
      BY <2>2 DEF TypeOK, TypeInv, SessionRecord
    <3>2. ss \in [Sessions -> SessionRecord]
      BY <3>1, SetState, SetTask DEF TypeOK, TypeInv, States
    <3>3. \/ sess' = ss /\ UNCHANGED feed
          \/ sess[cur].task \in Feeds /\ Cancel(ss, sess[cur].task)
      BY <2>2, <3>1 DEF DeviceGone
    <3>. QED  BY <3>2, <3>3, CancelType DEF TypeInv
  <2>. QED  BY <2>1, <2>2
<1>. QED  BY <1>1, <1>2, <1>3, Subtypes DEF DeviceGone, TypeOK, TypeInv

LEMMA TypeStep == TypeInv /\ [Next]_vars => TypeInv'
<1>. SUFFICES ASSUME TypeInv, [Next]_vars PROVE TypeInv'
  OBVIOUS
<1>1. CASE \E c \in Cmds, k \in Kinds, u \in Urls \cup {None} : MediaCommand(c, k, u)
  BY <1>1, TypeCommand
<1>2. CASE \E o \in Owners : Interrupt(o) \/ Release(o) \/ OwnerStep(o)
  BY <1>2, TypeInterrupt, TypeOwner
<1>3. CASE \E c \in Callers : OpStep(c)
  BY <1>3, TypeOp
<1>4. CASE \E t \in Feeds : FeedStep(t)
  BY <1>4, TypeFeed
<1>5. CASE DeviceGone
  BY <1>5, TypeGone
<1>6. CASE Reconnect
  BY <1>6 DEF Reconnect, TypeOK, TypeInv
<1>7. CASE UNCHANGED vars
  BY <1>7 DEF vars, TypeOK, TypeInv
<1>. QED  BY <1>1, <1>2, <1>3, <1>4, <1>5, <1>6, <1>7 DEF Next

\* Sessions, feeds and operations keep their types through every overlap of
\* commands, turns and disconnections.
THEOREM PlayerTypes == Spec => []TypeOK
<1>1. TypeInv => TypeOK
  BY DEF TypeInv
<1>. QED  BY <1>1, TypeInit, TypeStep, PTL DEF Spec

-----------------------------------------------------------------------------
(* What an operation does to its caller, to the feeds and to its session: the  *)
(* facts that the proofs below use of a step.                                   *)

\* The caller is done with the session s: a command is over, an owner holds the
\* speaker until its speech ends.
Returns(c, s, release) ==
    /\ \A d \in Callers \ {c} : op'[d] = op[d]
    /\ op'[c].release = FALSE
    /\ op'[c].pc = IF c \in Owners /\ ~release THEN "hold" ELSE "idle"
    /\ op'[c].pc = "hold" => op'[c].s = s

\* The caller waits at p, in the operation k.
Waits(c, s, p, k, u, release) ==
    /\ \A d \in Callers \ {c} : op'[d] = op[d]
    /\ op'[c].pc = p /\ op'[c].s = s
    /\ op'[c].kind = k /\ op'[c].url = u /\ op'[c].release = release

\* A new feed of the session s.
Starts(s) ==
    /\ sess'[s].state = "playing"
    /\ \E t \in Feeds : /\ ~Alive(t)
                        /\ feed'[t].pc = "new" /\ feed'[t].s = s
                        /\ \A x \in Feeds \ {t} : feed'[x] = feed[x]
                        /\ sess'[s].task = t

\* The session is still in the same hands.
KeepsHands(r, s) ==
    sess'[s].owned = r.owned /\ sess'[s].ducked = r.ducked /\ sess'[s].pending = r.pending

\* The session is stopped.
Stops(s) == sess'[s].state = "idle" /\ sess'[s].url = None /\ ~sess'[s].resumeAfter

LEMMA ReturnEffect ==
  ASSUME TypeInv, NEW c \in Callers, NEW b, Return(c, b)
  PROVE  Returns(c, b.s, b.release)
<1>1. op' = [op EXCEPT ![c] = IF c \in Owners /\ ~b.release THEN Holding("hold", b.s) ELSE NoOp]
  BY DEF Return
<1>2. \A d \in Callers \ {c} : op'[d] = op[d]
  BY <1>1 DEF TypeInv
<1>3. op'[c] = IF c \in Owners /\ ~b.release THEN Holding("hold", b.s) ELSE NoOp
  BY <1>1 DEF TypeInv
<1>4. NoOp.release = FALSE /\ NoOp.pc = "idle"
  BY DEF NoOp
<1>5. /\ Holding("hold", b.s).release = FALSE
      /\ Holding("hold", b.s).pc = "hold" /\ Holding("hold", b.s).s = b.s
  BY DEF Holding, NoOp
<1>. QED  BY <1>2, <1>3, <1>4, <1>5 DEF Returns

LEMMA StartEffect ==
  ASSUME TypeInv, NEW ss \in [Sessions -> SessionRecord], NEW s \in Sessions, StartFeed(ss, s)
  PROVE  /\ Starts(s)
         /\ KeepsHands(ss[s], s)
         /\ sess'[s].url = ss[s].url
         /\ sess'[s].resumeAfter = ss[s].resumeAfter
<1>. DEFINE t == CHOOSE x \in Unused : TRUE
            f == [pc |-> "new", s |-> s, eos |-> FALSE]
<1>1. t \in Feeds /\ ~Alive(t)
  BY DEF StartFeed, Unused
<1>2. sess' = [ss EXCEPT ![s].state = "playing", ![s].task = t] /\ feed' = [feed EXCEPT ![t] = f]
  BY DEF StartFeed
<1>3. f.pc = "new" /\ f.s = s
  OBVIOUS
<1>. HIDE DEF t, f
<1>4. feed'[t].pc = "new" /\ feed'[t].s = s /\ \A x \in Feeds \ {t} : feed'[x] = feed[x]
  BY <1>1, <1>2, <1>3 DEF TypeInv
<1>5. sess'[s] = [ss[s] EXCEPT !.state = "playing", !.task = t]
  BY <1>2
<1>6. /\ sess'[s].state = "playing" /\ sess'[s].task = t /\ sess'[s].url = ss[s].url
      /\ sess'[s].resumeAfter = ss[s].resumeAfter /\ KeepsHands(ss[s], s)
  BY <1>5 DEF SessionRecord, KeepsHands
<1>. QED  BY <1>1, <1>4, <1>6 DEF Starts

\* A resume starts a feed, or finds nothing to resume.
LEMMA ResumeEffect ==
  ASSUME TypeInv, NEW ss \in [Sessions -> SessionRecord], NEW s \in Sessions, NEW c \in Callers,
         NEW b, Resume(ss, c, b, s)
  PROVE  /\ Returns(c, b.s, b.release)
         /\ KeepsHands(ss[s], s)
         /\ sess'[s].url = ss[s].url /\ sess'[s].resumeAfter = ss[s].resumeAfter
         /\ \/ ss[s].state = "paused" /\ ss[s].url # None /\ Starts(s)
            \/ UNCHANGED feed /\ sess'[s].state = ss[s].state /\ sess'[s].task = ss[s].task
<1>1. CASE ss[s].state = "paused" /\ ss[s].url # None
  BY <1>1, StartEffect, ReturnEffect DEF Resume
<1>2. CASE ~(ss[s].state = "paused" /\ ss[s].url # None)
  BY <1>2, ReturnEffect DEF Resume, KeepsHands
<1>. QED  BY <1>1, <1>2

LEMMA PlayUrlEffect ==
  ASSUME TypeInv, NEW ss \in [Sessions -> SessionRecord], NEW s \in Sessions, NEW c \in Callers,
         NEW b \in OpRecord, PlayUrl(ss, c, b, s)
  PROVE  /\ Returns(c, b.s, b.release)
         /\ Starts(s) /\ KeepsHands(ss[s], s)
         /\ sess'[s].url = b.url /\ sess'[s].resumeAfter = ss[s].resumeAfter
<1>. DEFINE tt == [ss EXCEPT ![s].url = b.url, ![s].pos = FALSE, ![s].seekable = TRUE]
<1>1. tt \in [Sessions -> SessionRecord]
  BY SetUrl, SetFlags DEF OpRecord
<1>2. StartFeed(tt, s) /\ Return(c, b)
  BY DEF PlayUrl
<1>3. tt[s] = [ss[s] EXCEPT !.url = b.url, !.pos = FALSE, !.seekable = TRUE]
  OBVIOUS
<1>4. /\ tt[s].url = b.url /\ tt[s].resumeAfter = ss[s].resumeAfter /\ tt[s].owned = ss[s].owned
      /\ tt[s].ducked = ss[s].ducked /\ tt[s].pending = ss[s].pending
  BY <1>3 DEF SessionRecord
<1>. HIDE DEF tt
<1>. QED  BY <1>1, <1>2, <1>4, StartEffect, ReturnEffect DEF KeepsHands

LEMMA HaltedFields ==
  ASSUME NEW ss \in [Sessions -> SessionRecord], NEW s \in Sessions
  PROVE  /\ Paused(ss, s)[s].state = "paused" /\ Paused(ss, s)[s].url = ss[s].url
         /\ Paused(ss, s)[s].resumeAfter = ss[s].resumeAfter
         /\ Stopped(ss, s)[s].state = "idle" /\ Stopped(ss, s)[s].url = None
         /\ Stopped(ss, s)[s].resumeAfter = FALSE
         /\ \A r \in {Paused(ss, s)[s], Stopped(ss, s)[s]} :
              /\ r.task = ss[s].task /\ r.owned = ss[s].owned
              /\ r.ducked = ss[s].ducked /\ r.pending = ss[s].pending
<1>1. Paused(ss, s)[s] = [ss[s] EXCEPT !.state = "paused"]
  BY DEF Paused
<1>2. Stopped(ss, s)[s] = [ss[s] EXCEPT !.state = "idle", !.url = None, !.pos = FALSE, !.resumeAfter = FALSE]
  BY DEF Stopped
<1>. QED  BY <1>1, <1>2 DEF SessionRecord

\* Once the old feed is gone: the session is paused or stopped and Home
\* Assistant is told, or nothing was to be stopped, or the new URL starts.
LEMMA AfterHaltEffect ==
  ASSUME TypeInv, NEW ss \in [Sessions -> SessionRecord], NEW s \in Sessions, NEW c \in Callers,
         NEW b \in OpRecord, b.s = s, AfterHalt(ss, c, b, s)
  PROVE  /\ KeepsHands(ss[s], s)
         /\ \/ /\ Waits(c, s, "push", b.kind, b.url, b.release)
               /\ sess'[s].task = ss[s].task /\ UNCHANGED feed
               /\ \/ /\ b.kind = "pause" /\ sess'[s].state = "paused"
                     /\ sess'[s].url = ss[s].url /\ sess'[s].resumeAfter = ss[s].resumeAfter
                  \/ b.kind # "pause" /\ Stops(s)
            \/ /\ b.kind = "stop" /\ Returns(c, s, b.release) /\ Stops(s)
               /\ sess'[s].task = ss[s].task /\ UNCHANGED feed
            \/ /\ b.kind = "play" /\ Returns(c, s, b.release) /\ Starts(s)
               /\ sess'[s].url = b.url /\ ~sess'[s].resumeAfter
<1>1. CASE /\ sess' = IF b.kind = "pause" THEN Paused(ss, s) ELSE Stopped(ss, s)
           /\ op' = [op EXCEPT ![c] = [b EXCEPT !.pc = "push"]]
           /\ UNCHANGED feed
  <2>1. Waits(c, s, "push", b.kind, b.url, b.release)
    <3>1. op'[c] = [b EXCEPT !.pc = "push"] /\ \A d \in Callers \ {c} : op'[d] = op[d]
      BY <1>1 DEF TypeInv
    <3>. QED  BY <3>1 DEF Waits, OpRecord
  <2>. QED  BY ZenonT(60), <1>1, <2>1, HaltedFields DEF KeepsHands, Stops
<1>2. CASE b.kind = "stop" /\ sess' = Stopped(ss, s) /\ Return(c, b) /\ UNCHANGED <<feed, told>>
  BY <1>2, HaltedFields, ReturnEffect DEF KeepsHands, Stops
<1>3. CASE b.kind = "play" /\ PlayUrl(Stopped(ss, s), c, b, s)
  <2>. DEFINE st == Stopped(ss, s)
  <2>1. st \in [Sessions -> SessionRecord] /\ PlayUrl(st, c, b, s)
    BY <1>3, HaltedTypes
  <2>2. /\ st[s].resumeAfter = FALSE /\ st[s].owned = ss[s].owned
        /\ st[s].ducked = ss[s].ducked /\ st[s].pending = ss[s].pending
    BY HaltedFields
  <2>. HIDE DEF st
  <2>3. /\ Returns(c, s, b.release) /\ Starts(s) /\ KeepsHands(st[s], s)
        /\ sess'[s].url = b.url /\ sess'[s].resumeAfter = st[s].resumeAfter
    BY <2>1, PlayUrlEffect
  <2>. QED  BY <1>3, <2>2, <2>3 DEF KeepsHands
<1>. QED  BY <1>1, <1>2, <1>3, AfterHaltCases

\* What an operation k of the caller c does to the session s, whose record is r.
Effect(c, s, r, k, u, release) ==
    /\ KeepsHands(r, s)
    /\ \/ /\ Returns(c, s, release) /\ UNCHANGED feed
          /\ k = "resume" \/ (k = "pause" /\ r.state # "playing")
          /\ sess'[s].state = r.state /\ sess'[s].task = r.task
          /\ sess'[s].url = r.url /\ sess'[s].resumeAfter = r.resumeAfter
       \/ /\ Returns(c, s, release) /\ Starts(s)
          /\ k = "resume" /\ r.state = "paused" /\ r.url # None
          /\ sess'[s].url = r.url /\ sess'[s].resumeAfter = r.resumeAfter
       \/ /\ Waits(c, s, "flush", k, u, release) /\ UNCHANGED feed
          /\ k # "resume" /\ ToHalt(r.task) /\ op'[c].victim = r.task
          /\ sess'[s].task = None /\ sess'[s].state = r.state
          /\ sess'[s].url = r.url /\ sess'[s].resumeAfter = r.resumeAfter
       \/ /\ Waits(c, s, "push", k, u, release) /\ UNCHANGED feed
          /\ k # "resume" /\ ~ToHalt(r.task) /\ sess'[s].task = None
          /\ \/ /\ k = "pause" /\ sess'[s].state = "paused"
                /\ sess'[s].url = r.url /\ sess'[s].resumeAfter = r.resumeAfter
             \/ k # "pause" /\ Stops(s)
       \/ /\ k = "stop" /\ Returns(c, s, release) /\ Stops(s)
          /\ ~ToHalt(r.task) /\ sess'[s].task = None /\ UNCHANGED feed
       \/ /\ k = "play" /\ Returns(c, s, release) /\ Starts(s)
          /\ ~ToHalt(r.task) /\ sess'[s].url = u /\ ~sess'[s].resumeAfter

LEMMA PerformEffect ==
  ASSUME TypeInv, NEW ss \in [Sessions -> SessionRecord], NEW c \in Callers, NEW base \in OpRecord,
         NEW s \in Sessions, NEW k \in Kinds, NEW u \in Urls \cup {None},
         Perform(ss, c, base, s, k, u)
  PROVE  Effect(c, s, ss[s], k, u, base.release)
<1>. DEFINE b == Begun(ss, base, s, k, u)
            n == [b EXCEPT !.victim = None]
            fl == [b EXCEPT !.pc = "flush"]
<1>0. b \in OpRecord /\ b.s = s /\ n \in OpRecord
  <2>1. Begun(ss, base, s, k, u) \in OpRecord
    BY BegunType
  <2>2. b \in OpRecord /\ b.s = s
    BY <2>1 DEF Begun, OpRecord
  <2>. HIDE DEF b
  <2>. QED  BY <2>2 DEF OpRecord
<1>1. b.release = base.release /\ b.kind = k /\ b.url = u /\ b.victim = ss[s].task
  BY DEF Begun, OpRecord
<1>2. n.release = base.release /\ n.kind = k /\ n.url = u /\ n.s = s
  BY <1>0, <1>1 DEF OpRecord
<1>3. /\ fl.release = base.release /\ fl.kind = k /\ fl.url = u /\ fl.victim = ss[s].task
      /\ fl.s = s /\ fl.pc = "flush"
  BY <1>0, <1>1 DEF OpRecord
<1>4. /\ Taken(ss, s) \in [Sessions -> SessionRecord]
      /\ Taken(ss, s)[s] = [ss[s] EXCEPT !.task = None]
  BY SetTask DEF Taken
<1>5. /\ Taken(ss, s)[s].task = None /\ Taken(ss, s)[s].state = ss[s].state
      /\ Taken(ss, s)[s].url = ss[s].url /\ Taken(ss, s)[s].resumeAfter = ss[s].resumeAfter
      /\ Taken(ss, s)[s].owned = ss[s].owned /\ Taken(ss, s)[s].ducked = ss[s].ducked
      /\ Taken(ss, s)[s].pending = ss[s].pending
  BY <1>4 DEF SessionRecord
<1>. HIDE DEF b, n, fl
<1>6. CASE k = "resume" /\ Resume(ss, c, b, s)
  BY <1>0, <1>1, <1>6, ResumeEffect DEF Effect
<1>7. CASE k = "pause" /\ ss[s].state # "playing" /\ sess' = ss /\ Return(c, b) /\ UNCHANGED <<feed, told>>
  BY <1>0, <1>1, <1>7, ReturnEffect DEF KeepsHands, Effect
<1>8. CASE /\ k # "resume" /\ ToHalt(ss[s].task) /\ sess' = Taken(ss, s)
           /\ op' = [op EXCEPT ![c] = fl] /\ UNCHANGED <<feed, told>>
  <2>1. op'[c] = fl /\ \A d \in Callers \ {c} : op'[d] = op[d]
    BY <1>8 DEF TypeInv
  <2>. QED  BY <1>3, <1>5, <1>8, <2>1 DEF Waits, KeepsHands, Effect
<1>9. CASE k # "resume" /\ ~ToHalt(ss[s].task) /\ AfterHalt(Taken(ss, s), c, n, s)
  <2>. DEFINE tk == Taken(ss, s)
  <2>1. tk \in [Sessions -> SessionRecord] /\ AfterHalt(tk, c, n, s)
    BY <1>4, <1>9
  <2>. HIDE DEF tk
  <2>2. /\ KeepsHands(tk[s], s)
        /\ \/ /\ Waits(c, s, "push", k, u, base.release)
              /\ sess'[s].task = tk[s].task /\ UNCHANGED feed
              /\ \/ /\ k = "pause" /\ sess'[s].state = "paused"
                    /\ sess'[s].url = tk[s].url /\ sess'[s].resumeAfter = tk[s].resumeAfter
                 \/ k # "pause" /\ Stops(s)
           \/ /\ k = "stop" /\ Returns(c, s, base.release) /\ Stops(s)
              /\ sess'[s].task = tk[s].task /\ UNCHANGED feed
           \/ /\ k = "play" /\ Returns(c, s, base.release) /\ Starts(s)
              /\ sess'[s].url = u /\ ~sess'[s].resumeAfter
    BY <1>0, <1>2, <2>1, AfterHaltEffect
  <2>. QED  BY <1>5, <1>9, <2>2 DEF tk, KeepsHands, Effect
<1>. QED  BY <1>6, <1>7, <1>8, <1>9, PerformCases DEF b, n, fl

\* The inductive invariant behind LastCommandWins, OneFeed and SpeechIsAlone.
PlayInv == TypeInv /\ (~raced => SerialInv)

-----------------------------------------------------------------------------
(* One feed at a time, and its caller.                                        *)

\* Two feeds that put music on the wire are one, while nothing overlapped.
LEMMA OneAudible ==
  ASSUME TypeInv, CallersInv, FeedInv, NEW t \in Feeds, NEW x \in Feeds, Audible(t), Audible(x)
  PROVE  t = x
<1>1. CASE sess[cur].task = t /\ sess[cur].task = x
  BY <1>1
<1>2. CASE \E c \in Callers : op[c].pc = "flush" /\ op[c].victim \in {t, x}
  <2>1. PICK c \in Callers : op[c].pc = "flush" /\ op[c].victim \in {t, x}
    BY <1>2
  <2>2. Busy(c) /\ sess[cur].task = None
    BY <2>1 DEF Busy, FeedInv, Halting
  <2>3. None \notin Feeds
    BY NoneAssumption
  <2>4. \A d \in Callers : op[d].pc = "flush" => d = c
    BY <2>2 DEF CallersInv, Busy
  <2>. QED  BY <2>1, <2>2, <2>3, <2>4 DEF FeedInv
<1>. QED  BY <1>1, <1>2 DEF FeedInv

\* c operates on the session s of the device, whose record is r, and nobody
\* else does; the music there is, is that of r.
Calm(c, r, s) ==
    /\ cur' = s /\ device' = device /\ device.up
    /\ \A d \in Callers \ {c} : ~Busy(d)
    /\ \A t \in Feeds : Audible(t) => feed[t].s = s /\ r.task = t /\ r.state = "playing"
    /\ r.state = "playing" => r.url # None

\* Who may: a command, or the one owner that does anything, at the end of its
\* speech or to pause.
May(c, k, release) ==
    \/ c \in Cmds /\ ~release
    \/ /\ c \in Owners /\ (release \/ k = "pause")
       /\ \A o \in Owners \ {c} : op[o].pc = "idle"

LEMMA EffectCallers ==
  ASSUME TypeInv, CallersInv, NEW c \in Callers, NEW s \in Sessions, NEW r \in SessionRecord,
         NEW k \in Kinds, NEW u \in Urls \cup {None}, NEW release \in BOOLEAN,
         Effect(c, s, r, k, u, release), Calm(c, r, s), May(c, k, release)
  PROVE  CallersInv'
<1>0. s # None /\ cur' = s /\ \A d \in Callers \ {c} : ~Busy(d)
  BY NoneAssumption DEF Calm
<1>1. \A d \in Callers \ {c} : op'[d] = op[d]
  BY DEF Effect, Returns, Waits
<1>2. \/ op'[c].pc \in {"idle", "hold"} /\ op'[c].release = FALSE /\ (c \in Cmds => op'[c].pc = "idle")
      \/ /\ op'[c].pc \in {"flush", "push"} /\ op'[c].s = s /\ op'[c].kind = k
         /\ op'[c].release = release /\ k \in {"play", "pause", "stop"}
         /\ op'[c].pc = "flush" => op'[c].victim \in Feeds
  <2>1. CASE Returns(c, s, release)
    BY <2>1, CallersAssumption DEF Returns
  <2>2. CASE Waits(c, s, "flush", k, u, release) /\ k # "resume" /\ ToHalt(r.task) /\ op'[c].victim = r.task
    BY <2>2 DEF Waits, ToHalt, SessionRecord, Kinds
  <2>3. CASE Waits(c, s, "push", k, u, release) /\ k # "resume"
    BY <2>3 DEF Waits, Kinds
  <2>. QED  BY <2>1, <2>2, <2>3 DEF Effect
<1>3. \A d \in Callers \ {c} : ~Busy(d)'
  BY <1>0, <1>1 DEF Busy
<1>4. \A d, e \in Callers : Busy(d)' /\ Busy(e)' => d = e
  BY <1>3
<1>5. \A o, p \in Owners : op'[o].pc # "idle" /\ op'[p].pc # "idle" => o = p
  <2>1. CASE c \in Cmds
    BY <1>1, <2>1, CallersAssumption DEF CallersInv, Callers
  <2>2. CASE \A o \in Owners \ {c} : op[o].pc = "idle"
    BY <1>1, <2>2 DEF Callers
  <2>. QED  BY <2>1, <2>2 DEF May
<1>6. \A d \in Cmds : (op'[d].pc = "idle" \/ Halting(d)') /\ ~op'[d].release
  BY <1>1, <1>2, CallersAssumption DEF CallersInv, Halting, Callers, May
<1>7. ASSUME NEW d \in Callers
      PROVE  /\ op'[d].release => op'[d].pc = "unduck" \/ Halting(d)'
             /\ op'[d].pc = "unduck" => op'[d].release /\ ~op'[d].was
             /\ Busy(d)' => op'[d].s = cur' /\ cur' # None
             /\ Halting(d)' => /\ op'[d].kind \in {"play", "pause", "stop"}
                               /\ ~Carries(d)' => op'[d].kind = "pause"
             /\ op'[d].pc \in {"flush", "join"} => op'[d].victim \in Feeds
  <2>1. CASE d # c
    BY <1>1, <1>3, <2>1 DEF CallersInv, Busy, Halting
  <2>2. CASE d = c
    BY <1>0, <1>2, <2>2 DEF Busy, Halting, Carries, May
  <2>. QED  BY <2>1, <2>2
<1>. QED  BY <1>4, <1>5, <1>6, <1>7 DEF CallersInv

LEMMA EffectFeeds ==
  ASSUME TypeInv, NEW c \in Callers, NEW s \in Sessions, NEW r \in SessionRecord,
         NEW k \in Kinds, NEW u \in Urls \cup {None}, NEW release \in BOOLEAN,
         Effect(c, s, r, k, u, release), Calm(c, r, s), k = "play" => u # None
  PROVE  FeedInv'
<1>0. s # None /\ cur' = s /\ device'.up /\ None \notin Feeds
  BY NoneAssumption DEF Calm
<1>1. \A d \in Callers \ {c} : ~Busy(d)'
  BY DEF Effect, Returns, Waits, Calm, Busy
<1>2. \A d \in Callers : Halting(d)' => d = c
  BY <1>1 DEF Halting, Busy
<1>3. CASE Starts(s) /\ Returns(c, s, release) /\ (\A t \in Feeds : ~Audible(t)) /\ sess'[s].url # None
  <2>1. PICK t \in Feeds : /\ feed'[t].pc = "new" /\ feed'[t].s = s /\ sess'[s].task = t
                           /\ \A x \in Feeds \ {t} : feed'[x] = feed[x]
    BY <1>3 DEF Starts
  <2>2. \A x \in Feeds : Audible(x)' => x = t
    BY <1>3, <2>1 DEF Audible
  <2>3. sess'[s].state = "playing"
    BY <1>3 DEF Starts
  <2>4. \A d \in Callers : ~Halting(d)'
    BY <1>2, <1>3 DEF Returns, Halting
  <2>. QED  BY <1>0, <1>3, <2>1, <2>2, <2>3, <2>4 DEF FeedInv, Halting
<1>4. CASE /\ Returns(c, s, release) /\ UNCHANGED feed
           /\ sess'[s].state = r.state /\ sess'[s].task = r.task /\ sess'[s].url = r.url
  <2>1. \A d \in Callers : ~Halting(d)'
    BY <1>2, <1>4 DEF Returns, Halting
  <2>2. \A t \in Feeds : Audible(t)' => feed'[t].s = s /\ sess'[s].task = t /\ sess'[s].state = "playing"
    BY <1>4 DEF Audible, Calm
  <2>. QED  BY <1>0, <1>4, <2>1, <2>2 DEF FeedInv, Halting, Calm
<1>5. CASE /\ Waits(c, s, "flush", k, u, release) /\ UNCHANGED feed /\ op'[c].victim = r.task
           /\ sess'[s].task = None /\ sess'[s].state = r.state /\ sess'[s].url = r.url
  <2>1. op'[c].pc = "flush"
    BY <1>5 DEF Waits
  <2>2. \A t \in Feeds : Audible(t)' => feed'[t].s = s /\ op'[c].victim = t
    BY <1>5 DEF Audible, Calm
  <2>. QED  BY <1>0, <1>2, <1>5, <2>1, <2>2 DEF FeedInv, Halting, Calm
<1>6. CASE /\ \A t \in Feeds : ~Audible(t)
           /\ UNCHANGED feed /\ sess'[s].task = None /\ sess'[s].state # "playing"
  <2>1. \A t \in Feeds : ~Audible(t)'
    BY <1>6 DEF Audible
  <2>. QED  BY <1>0, <1>2, <1>6, <2>1 DEF FeedInv, Halting
<1>7. ~ToHalt(r.task) => \A t \in Feeds : ~Audible(t)
  BY NoneAssumption DEF Calm, ToHalt, Audible
<1>8. r.state = "paused" => \A t \in Feeds : ~Audible(t)
  BY DEF Calm
<1>. QED  BY <1>3, <1>4, <1>5, <1>6, <1>7, <1>8 DEF Effect, Stops

\* Nobody owns the session, in whose record nothing is left of a turn.
Ownerless(c, r, s) ==
    /\ ~r.owned /\ ~r.ducked /\ ~r.resumeAfter /\ r.pending = None
    /\ \A o \in Owners \ {c} : ~Owning(o, s)

LEMMA CarriedOwn ==
  ASSUME TypeInv, NEW c \in Callers, NEW s \in Sessions, NEW r \in SessionRecord,
         NEW k \in Kinds, NEW u \in Urls \cup {None}, NEW release \in BOOLEAN,
         Effect(c, s, r, k, u, release), Calm(c, r, s), Ownerless(c, r, s),
         (c \in Cmds /\ ~release) \/ (c \in Owners /\ release)
  PROVE  OwnInv'
<1>1. cur' = s /\ \A d \in Callers \ {c} : op'[d] = op[d]
  BY DEF Effect, Returns, Waits, Calm
<1>2. /\ ~sess'[s].owned /\ ~sess'[s].ducked /\ sess'[s].pending = None /\ ~sess'[s].resumeAfter
  BY DEF Effect, KeepsHands, Ownerless, Stops
<1>3. \A o \in Owners : ~Owning(o, s)'
  <2>1. \A o \in Owners \ {c} : ~Owning(o, s)'
    BY <1>1 DEF Ownerless, Owning, Callers
  <2>2. c \in Owners => ~Owning(c, s)'
    <3>1. ASSUME c \in Owners PROVE release
      BY <3>1, CallersAssumption
    <3>. QED  BY <3>1 DEF Effect, Returns, Waits, Owning
  <2>. QED  BY <2>1, <2>2
<1>. QED  BY <1>1, <1>2, <1>3 DEF OwnInv, Owning

\* An owner that pauses the music owns the session.
LEMMA PausedOwn ==
  ASSUME TypeInv, NEW c \in Owners, NEW s \in Sessions, NEW r \in SessionRecord,
         NEW u, Effect(c, s, r, "pause", u, FALSE), Calm(c, r, s), r.owned, ~r.ducked,
         \A o \in Owners \ {c} : op[o].pc = "idle"
  PROVE  OwnInv'
<1>0. c \in Callers /\ c \notin Cmds
  BY CallersAssumption DEF Callers
<1>1. cur' = s /\ s # None /\ \A d \in Callers \ {c} : op'[d] = op[d] /\ ~Busy(d)'
  BY NoneAssumption DEF Effect, Returns, Waits, Calm, Busy
<1>2. sess'[s].owned /\ ~sess'[s].ducked
  BY DEF Effect, KeepsHands
<1>3. op'[c].s = s /\ op'[c].release = FALSE /\ op'[c].pc \in {"hold", "flush", "push"}
  BY DEF Effect, Returns, Waits
<1>4. \A o \in Owners \ {c} : op'[o].pc = "idle"
  BY <1>1 DEF Callers
<1>5. op'[c].pc = "hold" => (\A t \in Feeds : ~Audible(t)') /\ sess'[s].state # "playing"
  BY DEF Effect, Returns, Waits, Calm, Audible
<1>6. ASSUME NEW d \in Callers, Carries(d)' PROVE FALSE
  BY <1>0, <1>1, <1>3, <1>6 DEF Carries
<1>. QED  BY <1>0, <1>1, <1>2, <1>3, <1>4, <1>5, <1>6 DEF OwnInv, Owning, Silent, Halting

\* An operation that the user asked for, or the resume at the end of speech.
LEMMA CarriedWant ==
  ASSUME TypeInv, NEW c \in Callers, NEW s \in Sessions, NEW r \in SessionRecord,
         NEW k \in Kinds, NEW u \in Urls \cup {None}, NEW release \in BOOLEAN,
         Effect(c, s, r, k, u, release), Calm(c, r, s), Ownerless(c, r, s),
         (c \in Cmds /\ ~release) \/ (c \in Owners /\ release),
         k = "play" => u # None,
         \/ want' = Recorded(k, u)
         \/ k = "resume" /\ want' = None
         \/ /\ k = "resume" /\ Shows(want', r)
            /\ want'.kind \in {"pause", "stop"} => sess'[s].state = r.state
            /\ want'.kind = "play" => want'.url # None
  PROVE  WantInv'
<1>0. cur' = s /\ s # None /\ None \notin Kinds
  BY NoneAssumption DEF Calm
<1>1. \A d \in Callers : Busy(d)' => d = c
  BY DEF Effect, Returns, Waits, Calm, Busy
<1>2. sess'[s].pending = None
  BY DEF Effect, KeepsHands, Ownerless
<1>3. /\ op'[c].pc # "unduck"
      /\ Halting(c)' => /\ k # "resume" /\ op'[c].kind = k /\ op'[c].url = u
                        /\ op'[c].release = release
  BY DEF Effect, Returns, Waits, Halting
<1>4. \A d \in Callers : op'[d].pc # "unduck" /\ (Halting(d)' => d = c)
  BY <1>1, <1>3 DEF Busy, Halting
<1>5. Recorded(k, u).kind = k /\ Recorded(k, u).url = u
  BY DEF Recorded
<1>6. Halting(c)' => want' = Recorded(k, u) /\ Carries(c)'
  BY <1>3 DEF Carries, Busy, Halting
<1>7. ~Halting(c)' => want' = None \/ Shows(want', sess'[s])
  BY <1>5 DEF Effect, Waits, Halting, Ownerless, Shows, Stops
<1>. QED  BY <1>0, <1>2, <1>3, <1>4, <1>5, <1>6, <1>7 DEF WantInv, Shows

\* The pause of an owner takes nothing from the last command.
LEMMA PausedWant ==
  ASSUME TypeInv, NEW c \in Owners, NEW s \in Sessions, NEW r \in SessionRecord,
         NEW u, Effect(c, s, r, "pause", u, FALSE), Calm(c, r, s), want' = want,
         want # None => (want.kind = "play" => want.url # None),
         r.pending \in {None, want}, want = None \/ r.pending # None \/ Shows(want, r)
  PROVE  WantInv'
<1>0. cur' = s /\ s # None /\ c \notin Cmds
  BY NoneAssumption, CallersAssumption DEF Calm
<1>1. \A d \in Callers : Busy(d)' => d = c
  BY DEF Effect, Returns, Waits, Calm, Busy
<1>2. sess'[s].pending = r.pending
  BY DEF Effect, KeepsHands
<1>3. op'[c].pc # "unduck" /\ op'[c].release = FALSE
  BY DEF Effect, Returns, Waits
<1>4. \A d \in Callers : op'[d].pc # "unduck" /\ ~Carries(d)'
  BY <1>0, <1>1, <1>3 DEF Busy, Carries
<1>5. want = None \/ r.pending # None \/ Shows(want, sess'[s])
  BY DEF Effect, Shows
<1>. QED  BY <1>0, <1>2, <1>4, <1>5 DEF WantInv, Shows

-----------------------------------------------------------------------------
(* Commands, turns and their ends.                                            *)

\* The session of the device, whether it was there or is new.
LEMMA SessionFacts ==
  ASSUME TypeInv, SerialInv, NEW s \in Sessions, Session(s)
  PROVE  /\ sess[s] \in SessionRecord
         /\ sess[s].owned <=> \E o \in Owners : Owning(o, s)
         /\ sess[s].owned \/ sess[s].ducked \/ sess[s].resumeAfter \/ sess[s].pending # None => s = cur
         /\ sess[s].ducked => device.mixes /\ sess[s].owned
         /\ sess[s].resumeAfter => sess[s].owned
         /\ sess[s].pending # None => sess[s].owned /\ sess[s].pending = want
         /\ sess[s].state = "playing" => sess[s].url # None
         /\ \A t \in Feeds : Audible(t) => s = cur
         /\ want # None => s = cur
<1>1. CASE s = cur
  <2>1. cur # None
    BY <1>1, NoneAssumption
  <2>. QED  BY <1>1, <2>1 DEF TypeInv, TypeOK, SerialInv, OwnInv, FeedInv, WantInv
<1>2. CASE cur = None /\ Fresh(s)
  <2>1. sess[s] = NewSession /\ \A c \in Callers : op[c].s # s
    BY <1>2 DEF Fresh
  <2>2. /\ ~NewSession.owned /\ ~NewSession.ducked /\ ~NewSession.resumeAfter
        /\ NewSession.pending = None /\ NewSession.state = "idle"
    BY DEF NewSession
  <2>. QED  BY <1>2, <2>1, <2>2 DEF TypeInv, TypeOK, SerialInv, FeedInv, WantInv, Owning, Callers
<1>. QED  BY <1>1, <1>2, SessionIs

\* With nobody else at it, the session is calm.
LEMMA CalmBefore ==
  ASSUME TypeInv, SerialInv, NEW s \in Sessions, Session(s), NEW c \in Callers, op[c].pc = "idle",
         \A d \in Callers \ {c} : ~Busy(d)
  PROVE  \A t \in Feeds : Audible(t) => /\ feed[t].s = s /\ sess[s].task = t
                                        /\ sess[s].state = "playing"
<1>1. \A d \in Callers : op[d].pc # "flush"
  BY DEF Busy
<1>. QED  BY <1>1, SessionFacts DEF SerialInv, FeedInv

LEMMA CommandStep ==
  ASSUME TypeInv, SerialInv, NEW c \in Cmds, NEW k \in Kinds, NEW u \in Urls \cup {None},
         MediaCommand(c, k, u), ~raced'
  PROVE  SerialInv'
<1>0. c \in Callers /\ c \notin Owners /\ op[c].pc = "idle" /\ device.up /\ device' = device
  BY CallersAssumption DEF MediaCommand, Callers
<1>1. PICK s \in Sessions :
        /\ Session(s) /\ cur' = s
        /\ \/ Defers(sess[s]) /\ Defer(c, s, k, u)
           \/ ~Defers(sess[s]) /\ raced' = Races(c) /\ Perform(sess, c, NoOp, s, k, u)
  BY DEF MediaCommand
<1>2. want' = Recorded(k, u) /\ (k = "play" => u # None)
  BY DEF MediaCommand, Recorded
<1>3. CASE Defers(sess[s]) /\ Defer(c, s, k, u)
  <2>1. s = cur /\ cur # None
    BY <1>1, <1>3, SessionFacts, NoneAssumption DEF Defers
  <2>2. UNCHANGED <<cur, device, op, feed>> /\ sess' = [sess EXCEPT ![cur].pending = want']
    BY <1>0, <1>1, <1>2, <1>3, <2>1 DEF Defer
  <2>3. sess'[cur] = [sess[cur] EXCEPT !.pending = want']
    BY <2>1, <2>2 DEF TypeInv, TypeOK
  <2>4. /\ sess'[cur].pending = want' /\ sess'[cur].owned = sess[cur].owned
        /\ sess'[cur].ducked = sess[cur].ducked /\ sess'[cur].resumeAfter = sess[cur].resumeAfter
        /\ sess'[cur].state = sess[cur].state /\ sess'[cur].url = sess[cur].url
        /\ sess'[cur].task = sess[cur].task
    BY <2>1, <2>3 DEF TypeInv, TypeOK, SessionRecord
  <2>5. want' # None
    BY <1>2, NoneAssumption DEF Recorded, Command
  <2>6. sess[cur].owned /\ \A d \in Callers : ~Carries(d)
    BY <1>3, <2>1 DEF Defers, SerialInv, OwnInv
  <2>7. \A d \in Callers : op[d].pc # "unduck"
    BY <2>6 DEF SerialInv, CallersInv, Carries, Busy
  <2>8. want'.kind = k /\ want'.url = u
    BY <1>2 DEF Recorded
  <2>9. CallersInv'
    BY <2>2 DEF SerialInv, CallersInv, Busy, Halting, Carries
  <2>10. FeedInv'
    BY <2>2, <2>4 DEF SerialInv, FeedInv, Audible, Halting
  <2>11. OwnInv'
    BY <2>2, <2>4, <2>6 DEF SerialInv, OwnInv, Audible, Halting, Silent, Owning, Carries, Busy
  <2>12. WantInv'
    BY <1>2, <2>1, <2>2, <2>4, <2>5, <2>6, <2>7, <2>8 DEF WantInv, Carries, Busy, Halting
  <2>. QED  BY <2>9, <2>10, <2>11, <2>12 DEF SerialInv
<1>4. CASE ~Defers(sess[s]) /\ raced' = Races(c) /\ Perform(sess, c, NoOp, s, k, u)
  <2>1. \A d \in Callers \ {c} : ~Busy(d)
    BY <1>4 DEF Races
  <2>2. Calm(c, sess[s], s)
    BY <1>0, <1>1, <2>1, CalmBefore, SessionFacts DEF Calm
  <2>3. Ownerless(c, sess[s], s)
    BY <1>1, <1>4, SessionFacts DEF Ownerless, Defers
  <2>4. NoOp.release = FALSE
    BY DEF NoOp
  <2>5. Effect(c, s, sess[s], k, u, FALSE) /\ sess[s] \in SessionRecord
    <3>1. sess \in [Sessions -> SessionRecord] /\ NoOp \in OpRecord
      BY NewTypes DEF TypeInv, TypeOK
    <3>2. Effect(c, s, sess[s], k, u, NoOp.release)
      BY <1>0, <1>4, <3>1, PerformEffect
    <3>. QED  BY <2>4, <3>1, <3>2
  <2>6. CallersInv'
    BY <1>0, <2>2, <2>5, EffectCallers DEF May, SerialInv
  <2>7. FeedInv'
    BY <1>0, <1>2, <2>2, <2>5, EffectFeeds
  <2>8. OwnInv'
    BY <1>0, <2>2, <2>3, <2>5, CarriedOwn
  <2>9. WantInv'
    BY <1>0, <1>2, <2>2, <2>3, <2>5, CarriedWant
  <2>. QED  BY <2>6, <2>7, <2>8, <2>9 DEF SerialInv
<1>. QED  BY <1>1, <1>3, <1>4

LEMMA InterruptStep ==
  ASSUME TypeInv, SerialInv, NEW o \in Owners, Interrupt(o), ~raced'
  PROVE  SerialInv'
<1>0. /\ o \in Callers /\ o \notin Cmds /\ op[o].pc = "idle" /\ device.up
      /\ UNCHANGED <<device, want>>
  BY CallersAssumption DEF Interrupt, Callers
<1>1. /\ \A d \in Callers \ {o} : ~Busy(d)
      /\ \A p \in Owners \ {o} : op[p].pc = "idle"
  BY DEF Interrupt, Races
<1>2. PICK s \in Sessions :
        /\ Session(s) /\ cur' = s
        /\ LET taken == [sess EXCEPT ![s].owned = TRUE, ![s].pending = None]
           IN \/ /\ device.mixes
                 /\ sess' = [taken EXCEPT ![s].ducked = TRUE]
                 /\ op' = [op EXCEPT ![o] = Holding("duck", s)]
                 /\ UNCHANGED <<feed, told>>
              \/ /\ ~device.mixes /\ sess[s].state = "playing"
                 /\ Perform([taken EXCEPT ![s].resumeAfter = TRUE], o, NoOp, s, "pause", None)
              \/ /\ ~device.mixes /\ sess[s].state # "playing"
                 /\ sess' = taken
                 /\ op' = [op EXCEPT ![o] = Holding("hold", s)]
                 /\ UNCHANGED <<feed, told>>
  BY DEF Interrupt
<1>. DEFINE taken == [sess EXCEPT ![s].owned = TRUE, ![s].pending = None]
\* Nobody owns the session, so that nothing of a turn is left in it.
<1>3. ~sess[s].owned /\ ~sess[s].ducked /\ ~sess[s].resumeAfter /\ sess[s].pending = None
  <2>1. \A p \in Owners : ~Owning(p, s)
    BY <1>0, <1>1 DEF Owning
  <2>. QED  BY <1>2, <2>1, SessionFacts
<1>4. \A d \in Callers : ~Busy(d)
  BY <1>0, <1>1 DEF Busy
<1>5. want = None \/ (s = cur /\ Shows(want, sess[s]))
  BY <1>2, <1>3, <1>4, SessionFacts DEF SerialInv, WantInv, Carries, Busy
<1>6. want # None => (want.kind = "play" => want.url # None)
  BY DEF SerialInv, WantInv
<1>7. /\ \A t \in Feeds : Audible(t) => feed[t].s = s /\ sess[s].task = t /\ sess[s].state = "playing"
      /\ sess[s].state = "playing" => sess[s].url # None
  BY <1>0, <1>1, <1>2, CalmBefore, SessionFacts
<1>8. taken \in [Sessions -> SessionRecord] /\ s # None
  <2>1. [sess EXCEPT ![s].owned = TRUE] \in [Sessions -> SessionRecord]
    BY SetFlags DEF TypeInv, TypeOK
  <2>. QED  BY <2>1, SetPending, NoneAssumption
<1>9. /\ taken[s].owned /\ taken[s].pending = None /\ taken[s].ducked = sess[s].ducked
      /\ taken[s].resumeAfter = sess[s].resumeAfter /\ taken[s].state = sess[s].state
      /\ taken[s].url = sess[s].url /\ taken[s].task = sess[s].task
  <2>1. taken[s] = [sess[s] EXCEPT !.owned = TRUE, !.pending = None]
    BY DEF TypeInv, TypeOK
  <2>. QED  BY <2>1 DEF TypeInv, TypeOK, SessionRecord
<1>10. ASSUME NEW p \in {"duck", "hold"}, op' = [op EXCEPT ![o] = Holding(p, s)], UNCHANGED feed,
              sess'[s].owned, sess'[s].pending = None, ~sess'[s].resumeAfter,
              sess'[s].state = sess[s].state, sess'[s].url = sess[s].url,
              sess'[s].task = sess[s].task,
              p = "duck" => sess'[s].ducked /\ device.mixes,
              p = "hold" => ~sess'[s].ducked /\ sess[s].state # "playing"
       PROVE  SerialInv'
  <2>1. /\ op'[o].pc = p /\ op'[o].s = s /\ op'[o].release = FALSE
        /\ \A d \in Callers \ {o} : op'[d] = op[d]
    <3>1. op'[o] = Holding(p, s) /\ \A d \in Callers \ {o} : op'[d] = op[d]
      BY <1>0, <1>10 DEF TypeInv
    <3>. QED  BY <3>1 DEF Holding, NoOp
  <2>2. \A d \in Callers : ~Busy(d)' /\ ~Halting(d)' /\ ~Carries(d)'
    BY <1>4, <2>1 DEF Busy, Halting, Carries
  <2>3. CallersInv'
    <3>1. \A q \in Owners \ {o} : op'[q].pc = "idle"
      BY <1>1, <2>1 DEF Callers
    <3>2. \A c \in Cmds : op'[c].pc = "idle"
      BY <1>0, <1>4, <2>1 DEF SerialInv, CallersInv, Halting, Busy, Callers
    <3>3. \A c \in Callers : ~op'[c].release
      BY <1>4, <2>1 DEF SerialInv, CallersInv, Halting, Busy
    <3>4. \A c \in Cmds : c \in Callers
      BY DEF Callers
    <3>. QED  BY <2>2, <3>1, <3>2, <3>3, <3>4 DEF CallersInv, Busy
  <2>4. FeedInv'
    <3>1. \A t \in Feeds : Audible(t)' => Audible(t)
      BY <1>10 DEF Audible
    <3>2. \A t \in Feeds : Audible(t)' => /\ feed'[t].s = s /\ sess'[s].task = t
                                         /\ sess'[s].state = "playing"
      BY <1>7, <1>10, <3>1
    <3>3. cur' = s /\ s # None /\ device'.up /\ (sess'[s].state = "playing" => sess'[s].url # None)
      BY <1>0, <1>2, <1>7, <1>8, <1>10
    <3>. QED  BY <2>2, <3>2, <3>3 DEF FeedInv, Busy
  <2>5. OwnInv'
    <3>1. \A q \in Owners \ {o} : ~Owning(q, s)'
      BY <1>1, <2>1 DEF Owning, Callers
    <3>2. Owning(o, s)'
      BY <2>1 DEF Owning
    <3>3. p = "hold" => Silent'
      BY <1>7, <1>10 DEF Silent, Audible
    <3>. QED  BY <1>0, <1>2, <1>10, <2>1, <2>2, <3>1, <3>2, <3>3 DEF OwnInv
  <2>6. WantInv'
    <3>1. want = None \/ Shows(want, sess'[s])
      BY <1>3, <1>5, <1>10 DEF Shows
    <3>. QED  BY <1>0, <1>2, <1>6, <1>8, <1>10, <2>2, <3>1 DEF WantInv, Busy
  <2>. QED  BY <2>3, <2>4, <2>5, <2>6 DEF SerialInv
<1>. HIDE DEF taken
<1>11. CASE /\ device.mixes
            /\ sess' = [taken EXCEPT ![s].ducked = TRUE]
            /\ op' = [op EXCEPT ![o] = Holding("duck", s)]
            /\ UNCHANGED <<feed, told>>
  <2>1. sess'[s] = [taken[s] EXCEPT !.ducked = TRUE]
    BY <1>8, <1>11
  <2>2. /\ sess'[s].ducked /\ sess'[s].owned /\ sess'[s].pending = None /\ ~sess'[s].resumeAfter
        /\ sess'[s].state = sess[s].state /\ sess'[s].url = sess[s].url
        /\ sess'[s].task = sess[s].task
    BY <1>3, <1>8, <1>9, <2>1 DEF SessionRecord
  <2>3. op' = [op EXCEPT ![o] = Holding("duck", s)] /\ UNCHANGED feed /\ device.mixes
    BY <1>11
  <2>. QED  BY <1>10, <2>2, <2>3
<1>12. CASE /\ sess[s].state # "playing" /\ sess' = taken
            /\ op' = [op EXCEPT ![o] = Holding("hold", s)] /\ UNCHANGED <<feed, told>>
  BY <1>3, <1>9, <1>10, <1>12
<1>13. CASE /\ sess[s].state = "playing"
            /\ Perform([taken EXCEPT ![s].resumeAfter = TRUE], o, NoOp, s, "pause", None)
  <2>. DEFINE rr == [taken EXCEPT ![s].resumeAfter = TRUE]
  <2>1. rr \in [Sessions -> SessionRecord] /\ rr[s] = [taken[s] EXCEPT !.resumeAfter = TRUE]
    BY <1>8, SetFlags
  <2>2. /\ rr[s].owned /\ rr[s].pending = None /\ ~rr[s].ducked /\ rr[s].state = "playing"
        /\ rr[s].url = sess[s].url /\ rr[s].task = sess[s].task
    BY <1>3, <1>8, <1>9, <1>13, <2>1 DEF SessionRecord
  <2>3. Perform(rr, o, NoOp, s, "pause", None)
    BY <1>13
  <2>. HIDE DEF rr
  <2>4. Effect(o, s, rr[s], "pause", None, FALSE) /\ rr[s] \in SessionRecord
    <3>1. NoOp.release = FALSE /\ "pause" \in Kinds /\ NoOp \in OpRecord
      BY NewTypes DEF NoOp, Kinds
    <3>2. Effect(o, s, rr[s], "pause", None, NoOp.release)
      BY <1>0, <2>1, <2>3, <3>1, PerformEffect
    <3>. QED  BY <2>1, <3>1, <3>2
  <2>5. Calm(o, rr[s], s)
    BY <1>0, <1>1, <1>2, <1>7, <1>13, <2>2 DEF Calm
  <2>6. CallersInv'
    BY <1>0, <1>1, <2>4, <2>5, EffectCallers DEF May, Kinds, SerialInv
  <2>7. FeedInv'
    BY <1>0, <2>4, <2>5, EffectFeeds DEF Kinds
  <2>8. OwnInv'
    BY <1>1, <2>2, <2>4, <2>5, PausedOwn
  <2>9. want = None \/ Shows(want, rr[s])
    BY <1>5, <1>13, <2>2 DEF Shows
  <2>10. WantInv'
    BY <1>0, <1>6, <2>2, <2>4, <2>5, <2>9, PausedWant
  <2>. QED  BY <2>6, <2>7, <2>8, <2>10 DEF SerialInv
<1>. QED  BY <1>2, <1>11, <1>12, <1>13 DEF taken

-----------------------------------------------------------------------------
(* The end of speech.                                                         *)

\* The owner o gives the speaker back: b says what it has to make up for, and
\* nobody owns the session s any more.
LEMMA SettleSerial ==
  ASSUME TypeInv, SerialInv, NEW o \in Owners, NEW ss \in [Sessions -> SessionRecord],
         NEW b \in OpRecord, NEW s \in Sessions, NEW d \in BOOLEAN,
         Settle(ss, o, b, s, d), b.release = TRUE, b.s = s,
         Calm(o, ss[s], s), Ownerless(o, ss[s], s), want' = want,
         \A p \in Owners \ {o} : op[p].pc = "idle",
         b.deferred \in {None, want},
         b.deferred = None => want = None \/ Shows(want, ss[s]),
         b.deferred = None /\ b.was => want = None \/ want.kind \notin {"pause", "stop"},
         ~d => ss[s].state # "playing"
  PROVE  SerialInv'
<1>0. o \in Callers /\ ss[s] \in SessionRecord
  BY DEF Callers
<1>1. want # None => (want.kind = "play" => want.url # None)
  BY DEF SerialInv, WantInv
<1>2. ASSUME NEW k \in Kinds, NEW u \in Urls \cup {None}, Effect(o, s, ss[s], k, u, TRUE),
             k = "play" => u # None,
             \/ want = Recorded(k, u)
             \/ k = "resume" /\ want = None
             \/ /\ k = "resume" /\ Shows(want, ss[s])
                /\ want.kind \in {"pause", "stop"} => sess'[s].state = ss[s].state
                /\ want.kind = "play" => want.url # None
      PROVE  SerialInv'
  <2>1. CallersInv'
    BY <1>0, <1>2, EffectCallers DEF May, SerialInv
  <2>2. FeedInv'
    BY <1>0, <1>2, EffectFeeds
  <2>3. OwnInv'
    BY <1>0, <1>2, CarriedOwn
  <2>4. WantInv'
    BY <1>0, <1>2, CarriedWant
  <2>. QED  BY <2>1, <2>2, <2>3, <2>4 DEF SerialInv
<1>3. CASE sess' = ss /\ Return(o, b) /\ UNCHANGED <<feed, told>> /\ (want = None \/ Shows(want, ss[s]))
  <2>1. Effect(o, s, ss[s], "resume", None, TRUE)
    BY <1>0, <1>3, ReturnEffect DEF Effect, KeepsHands
  <2>2. "resume" \in Kinds /\ sess'[s].state = ss[s].state
    BY <1>3 DEF Kinds
  <2>. QED  BY <1>1, <1>2, <1>3, <2>1, <2>2
<1>4. CASE Resume(ss, o, b, s) /\ b.deferred = None /\ b.was
  <2>1. Effect(o, s, ss[s], "resume", None, TRUE)
    BY <1>0, <1>4, ResumeEffect DEF Effect
  <2>2. "resume" \in Kinds
    BY DEF Kinds
  <2>3. want = None \/ (Shows(want, ss[s]) /\ want.kind \notin {"pause", "stop"})
    BY <1>4
  <2>. QED  BY <1>1, <1>2, <2>1, <2>2, <2>3
<1>5. CASE b.deferred # None /\ Perform(ss, o, b, s, b.deferred.kind, b.deferred.url)
  <2>1. b.deferred = want /\ want \in Command
    BY <1>5 DEF TypeInv, TypeOK
  <2>2. want.kind \in Kinds /\ want.url \in Urls \cup {None} /\ want = Recorded(want.kind, want.url)
    BY <2>1 DEF Command, Recorded
  <2>3. Perform(ss, o, b, s, want.kind, want.url)
    BY <1>5, <2>1
  <2>4. Effect(o, s, ss[s], want.kind, want.url, b.release)
    BY <1>0, <2>2, <2>3, PerformEffect
  <2>. QED  BY <1>1, <1>2, <1>5, <2>1, <2>2, <2>4
<1>6. CASE b.deferred # None /\ ~StillToDo(b.deferred, d)
  <2>1. sess' = ss /\ Return(o, b) /\ UNCHANGED <<feed, told>>
    BY <1>6 DEF Settle
  <2>2. b.deferred = want /\ want.kind = "pause" /\ ss[s].state # "playing"
    BY <1>6 DEF StillToDo
  <2>3. Shows(want, ss[s])
    BY <2>2 DEF Shows, Ownerless
  <2>. QED  BY <1>3, <2>1, <2>3
<1>. QED  BY <1>3, <1>4, <1>5, <1>6 DEF Settle

LEMMA ReleaseStep ==
  ASSUME TypeInv, SerialInv, NEW o \in Owners, Release(o), ~raced'
  PROVE  SerialInv'
<1>0. /\ o \in Callers /\ o \notin Cmds /\ op[o].pc = "hold" /\ UNCHANGED <<cur, device, want>>
      /\ op[o].s \in Sessions /\ op[o].s # None
  BY CallersAssumption, NoneAssumption DEF Release, Callers, TypeInv, CallerRecord
<1>1. (\A d \in Callers \ {o} : ~Busy(d)) /\ cur \in {op[o].s, None}
  BY DEF Release, Races
<1>2. (\A d \in Callers : ~Busy(d)) /\ \A p \in Owners \ {o} : op[p].pc = "idle"
  BY <1>0, <1>1 DEF Busy, SerialInv, CallersInv
<1>3. CASE cur = None /\ op' = [op EXCEPT ![o] = NoOp] /\ UNCHANGED <<sess, feed, told>>
  <2>1. op'[o].pc = "idle" /\ op'[o].release = FALSE /\ \A d \in Callers \ {o} : op'[d] = op[d]
    BY <1>0, <1>3 DEF NoOp, TypeInv
  <2>2. \A d \in Callers : ~Busy(d)' /\ ~Halting(d)'
    BY <1>2, <2>1 DEF Busy, Halting
  <2>3. \A d \in Callers : ~op'[d].release
    BY <1>2, <2>1 DEF SerialInv, CallersInv, Busy, Halting
  <2>4. CallersInv'
    BY <1>0, <1>2, <2>1, <2>2, <2>3 DEF SerialInv, CallersInv, Busy, Halting, Callers
  <2>5. FeedInv'
    BY <1>0, <1>3, <2>2 DEF SerialInv, FeedInv, Audible, Halting
  <2>6. OwnInv'
    BY <1>0, <1>3 DEF OwnInv
  <2>7. WantInv'
    BY <1>0, <1>3, <2>2 DEF SerialInv, WantInv, Busy, Halting
  <2>. QED  BY <2>4, <2>5, <2>6, <2>7 DEF SerialInv
<1>4. CASE cur # None
  <2>. DEFINE f == Freed(sess, cur)
  <2>1. cur \in Sessions /\ cur = op[o].s /\ sess[cur] \in SessionRecord
    BY <1>0, <1>1, <1>4 DEF TypeInv, TypeOK
  <2>2. f \in [Sessions -> SessionRecord] /\ Ending(cur) \in OpRecord
    BY <2>1, FreedType
  <2>3. /\ ~f[cur].owned /\ ~f[cur].ducked /\ ~f[cur].resumeAfter /\ f[cur].pending = None
        /\ f[cur].state = sess[cur].state /\ f[cur].url = sess[cur].url
        /\ f[cur].task = sess[cur].task
    <3>1. f[cur] = [sess[cur] EXCEPT !.owned = FALSE, !.pending = None,
                                     !.resumeAfter = FALSE, !.ducked = FALSE]
      BY <2>1 DEF Freed, TypeInv, TypeOK
    <3>. QED  BY <2>1, <3>1 DEF SessionRecord
  <2>4. /\ Ending(cur).release = TRUE /\ Ending(cur).s = cur
        /\ Ending(cur).deferred = sess[cur].pending /\ Ending(cur).was = sess[cur].resumeAfter
    BY DEF Ending, NoOp
  <2>5. \A t \in Feeds : Audible(t) => /\ feed[t].s = cur /\ sess[cur].task = t
                                        /\ sess[cur].state = "playing"
    BY <1>2 DEF SerialInv, FeedInv, Busy
  <2>6. device.up /\ (sess[cur].state = "playing" => sess[cur].url # None)
    BY <1>4 DEF SerialInv, FeedInv
  <2>7. Calm(o, f[cur], cur)
    BY <1>0, <1>1, <2>3, <2>5, <2>6 DEF Calm
  <2>8. Ownerless(o, f[cur], cur)
    BY <1>2, <2>3 DEF Ownerless, Owning
  <2>9. sess[cur].pending \in {None, want}
    BY <1>4 DEF SerialInv, WantInv
  <2>10. sess[cur].pending = None => want = None \/ Shows(want, sess[cur])
    BY <1>2 DEF SerialInv, WantInv, Carries, Busy
  <2>11. Owning(o, cur)
    BY <1>0, <2>1 DEF Owning, SerialInv, CallersInv, Halting
  <2>12. ~sess[cur].ducked => sess[cur].state # "playing"
    BY <1>0, <1>4, <2>11 DEF SerialInv, OwnInv
  <2>13. CASE /\ sess[cur].ducked /\ sess' = f
              /\ op' = [op EXCEPT ![o] = [Ending(cur) EXCEPT !.pc = "unduck"]]
              /\ UNCHANGED <<feed, told>>
    <3>1. ~sess[cur].resumeAfter
      BY <1>4, <2>13 DEF SerialInv, OwnInv
    <3>2. /\ op'[o].pc = "unduck" /\ op'[o].release = TRUE /\ op'[o].s = cur
          /\ op'[o].was = FALSE /\ op'[o].deferred = sess[cur].pending
          /\ \A d \in Callers \ {o} : op'[d] = op[d]
      <4>1. op'[o] = [Ending(cur) EXCEPT !.pc = "unduck"] /\ \A d \in Callers \ {o} : op'[d] = op[d]
        BY <1>0, <2>13 DEF TypeInv
      <4>2. sess[cur].resumeAfter = FALSE
        BY <2>1, <3>1 DEF SessionRecord
      <4>. QED  BY <2>2, <2>4, <4>1, <4>2 DEF OpRecord
    <3>3. \A d \in Callers : ~Halting(d)' /\ (Busy(d)' => d = o)
      BY <1>2, <3>2 DEF Busy, Halting
    <3>4. CallersInv'
      <4>1. \A d \in Callers \ {o} : ~op'[d].release /\ op'[d].pc \notin {"unduck", "flush", "join"}
        BY <1>2, <3>2 DEF SerialInv, CallersInv, Busy, Halting
      <4>2. \A c \in Cmds : op'[c].pc = "idle" /\ ~op'[c].release
        BY <1>0, <1>2, <3>2 DEF SerialInv, CallersInv, Busy, Halting, Callers
      <4>3. \A p \in Owners \ {o} : op'[p].pc = "idle"
        BY <1>2, <3>2 DEF Callers
      <4>. QED  BY <1>0, <1>4, <3>2, <3>3, <4>1, <4>2, <4>3 DEF CallersInv
    <3>5. FeedInv'
      <4>1. \A t \in Feeds : Audible(t)' => /\ feed'[t].s = cur /\ sess'[cur].task = t
                                           /\ sess'[cur].state = "playing"
        BY <2>3, <2>5, <2>13 DEF Audible
      <4>2. device'.up /\ (sess'[cur].state = "playing" => sess'[cur].url # None)
        BY <1>0, <2>3, <2>6, <2>13
      <4>. QED  BY <1>0, <1>4, <3>2, <3>3, <4>1, <4>2 DEF FeedInv, Halting
    <3>6. OwnInv'
      <4>1. \A p \in Owners : ~Owning(p, cur)'
        BY <1>0, <1>2, <3>2 DEF Owning, Callers
      <4>. QED  BY <1>0, <2>3, <2>13, <4>1 DEF OwnInv, Owning
    <3>7. WantInv'
      <4>1. sess[cur].pending # None \/ want = None \/ Shows(want, sess'[cur])
        BY <2>3, <2>10, <2>13 DEF Shows
      <4>2. want # None => cur # None /\ (want.kind = "play" => want.url # None)
        BY DEF SerialInv, WantInv
      <4>. QED  BY <1>0, <2>3, <2>9, <2>13, <3>2, <3>3, <4>1, <4>2 DEF WantInv, Busy
    <3>. QED  BY <3>4, <3>5, <3>6, <3>7 DEF SerialInv
  <2>14. CASE Settle(f, o, Ending(cur), cur, sess[cur].ducked)
    <3>1. sess[cur].ducked \in BOOLEAN
      BY <2>1 DEF SessionRecord
    <3>2. Ending(cur).deferred = None => want = None \/ Shows(want, f[cur])
      BY <2>3, <2>4, <2>10 DEF Shows
    <3>3. Ending(cur).deferred = None /\ Ending(cur).was
            => want = None \/ want.kind \notin {"pause", "stop"}
      BY <2>4, <2>10 DEF Shows
    <3>4. Ending(cur).deferred \in {None, want} /\ (~sess[cur].ducked => f[cur].state # "playing")
      BY <2>3, <2>4, <2>9, <2>12
    <3>. HIDE DEF f
    <3>. QED  BY <1>0, <1>2, <2>1, <2>2, <2>4, <2>7, <2>8, <2>14, <3>1, <3>2, <3>3, <3>4, SettleSerial
  <2>. QED  BY <1>4, <2>13, <2>14, ReleaseCases
<1>. QED  BY <1>3, <1>4, ReleaseCases

LEMMA UnduckStep ==
  ASSUME TypeInv, SerialInv, NEW o \in Owners, UnduckSent(o), ~raced'
  PROVE  SerialInv'
<1>1. /\ o \in Callers /\ op[o].pc = "unduck" /\ UNCHANGED <<cur, device, want>>
      /\ Settle(sess, o, op[o], op[o].s, TRUE)
  BY DEF UnduckSent, Callers
<1>2. Busy(o) /\ \A d \in Callers \ {o} : ~Busy(d)
  BY <1>1 DEF UnduckSent, Races, Busy
<1>3. /\ cur # None /\ op[o].s = cur /\ cur \in Sessions /\ op[o].release = TRUE /\ ~op[o].was
      /\ op[o] \in OpRecord
  <2>1. op[o] \in OpRecord /\ cur \in Sessions \cup {None}
    BY <1>1 DEF TypeInv, TypeOK
  <2>2. op[o].release \in BOOLEAN
    BY <2>1 DEF OpRecord
  <2>. QED  BY <1>1, <1>2, <2>1, <2>2 DEF SerialInv, CallersInv
<1>4. Carries(o) /\ \A p \in Owners \ {o} : op[p].pc = "idle"
  BY <1>1, <1>2, <1>3 DEF Carries, SerialInv, CallersInv
<1>5. ~sess[cur].owned /\ ~sess[cur].ducked /\ ~sess[cur].resumeAfter /\ sess[cur].pending = None
  BY <1>1, <1>3, <1>4 DEF SerialInv, OwnInv
<1>6. Ownerless(o, sess[cur], cur)
  BY <1>4, <1>5 DEF Ownerless, Owning
<1>7. \A d \in Callers : ~Halting(d)
  BY <1>1, <1>2 DEF Halting, Busy
<1>8. Calm(o, sess[cur], cur)
  BY <1>1, <1>2, <1>3, <1>7 DEF SerialInv, FeedInv, Calm, Halting
<1>9. op[o].deferred \in {None, want} /\ (op[o].deferred = None => want = None \/ Shows(want, sess[cur]))
  <2>1. \A d \in Callers : op[d].pc = "unduck" => d = o
    BY <1>2 DEF Busy
  <2>. QED  BY <1>1, <1>5, <1>7, <2>1 DEF SerialInv, WantInv
<1>10. sess \in [Sessions -> SessionRecord] /\ Settle(sess, o, op[o], cur, TRUE)
  BY <1>1, <1>3 DEF TypeInv, TypeOK
<1>. QED  BY <1>1, <1>3, <1>4, <1>6, <1>8, <1>9, <1>10, SettleSerial

LEMMA DuckStep ==
  ASSUME TypeInv, SerialInv, NEW o \in Owners, DuckSent(o)
  PROVE  SerialInv'
<1>0. /\ o \in Callers /\ o \notin Cmds /\ op[o].pc = "duck" /\ Return(o, op[o])
      /\ UNCHANGED <<sess, cur, device, feed, want>>
  BY CallersAssumption DEF DuckSent, Callers
<1>1. op[o].release = FALSE
  <2>1. op[o].release \in BOOLEAN
    BY <1>0 DEF TypeInv, TypeOK, OpRecord
  <2>. QED  BY <1>0, <2>1 DEF SerialInv, CallersInv, Halting
<1>2. /\ op'[o].pc = "hold" /\ op'[o].s = op[o].s /\ op'[o].release = FALSE
      /\ \A d \in Callers \ {o} : op'[d] = op[d]
  BY <1>0, <1>1, ReturnEffect DEF Returns
<1>3. \A d \in Callers : /\ (Busy(d)' <=> Busy(d)) /\ (Halting(d)' <=> Halting(d))
                         /\ (Carries(d)' <=> Carries(d))
  <2>1. ~Busy(o)' /\ ~Busy(o) /\ ~Halting(o)' /\ ~Halting(o)
    BY <1>0, <1>2 DEF Busy, Halting
  <2>2. \A d \in Callers \ {o} : (Busy(d)' <=> Busy(d)) /\ (Halting(d)' <=> Halting(d))
    BY <1>2 DEF Busy, Halting
  <2>3. \A d \in Callers \ {o} : Carries(d)' <=> Carries(d)
    BY <1>2, <2>2 DEF Carries
  <2>. QED  BY <2>1, <2>2, <2>3 DEF Carries
<1>4. \A p \in Owners : Owning(p, cur)' <=> Owning(p, cur)
  BY <1>0, <1>1, <1>2 DEF Owning, Callers
<1>5. ~Busy(o)
  BY <1>0 DEF Busy
<1>6. CallersInv'
  <2>1. \A p, q \in Owners : op'[p].pc # "idle" /\ op'[q].pc # "idle" => p = q
    BY <1>0, <1>2 DEF SerialInv, CallersInv, Callers
  <2>2. \A c \in Cmds : (op'[c].pc = "idle" \/ Halting(c)') /\ ~op'[c].release
    BY <1>0, <1>2, <1>3 DEF SerialInv, CallersInv, Callers
  <2>3. ASSUME NEW c \in Callers
        PROVE  /\ op'[c].release => op'[c].pc = "unduck" \/ Halting(c)'
               /\ op'[c].pc = "unduck" => op'[c].release /\ ~op'[c].was
               /\ Busy(c)' => op'[c].s = cur' /\ cur' # None
               /\ Halting(c)' => /\ op'[c].kind \in {"play", "pause", "stop"}
                                 /\ ~Carries(c)' => op'[c].kind = "pause"
               /\ op'[c].pc \in {"flush", "join"} => op'[c].victim \in Feeds
    <3>1. CASE c = o
      BY <1>2, <1>3, <1>5, <3>1 DEF Halting, Busy
    <3>2. CASE c # o
      BY <1>0, <1>2, <1>3, <3>2 DEF SerialInv, CallersInv
    <3>. QED  BY <3>1, <3>2
  <2>4. \A c, d \in Callers : Busy(c)' /\ Busy(d)' => c = d
    BY <1>3 DEF SerialInv, CallersInv
  <2>. QED  BY <2>1, <2>2, <2>3, <2>4 DEF CallersInv
<1>7. FeedInv'
  <2>1. \A c \in Callers : op'[c].pc \in {"flush", "push"} \/ op[c].pc \in {"flush", "push"} => op'[c] = op[c]
    BY <1>0, <1>2
  <2>. QED  BY <1>0, <1>3, <2>1 DEF SerialInv, FeedInv, Audible
<1>8. OwnInv'
  <2>1. \A p \in Owners \ {o} : op'[p] = op[p]
    BY <1>2 DEF Callers
  <2>2. op'[o].pc = "hold" /\ (Owning(o, cur) /\ cur # None => sess[cur].ducked)
    BY <1>0, <1>2 DEF SerialInv, OwnInv
  <2>3. Silent' <=> Silent
    BY <1>0 DEF Silent, Audible
  <2>4. \A c \in Callers : Carries(c)' /\ cur # None => ~sess[cur].owned
    BY <1>3 DEF SerialInv, OwnInv
  <2>5. cur # None /\ sess[cur].owned => \E p \in Owners : Owning(p, cur)'
    BY <1>4 DEF SerialInv, OwnInv
  <2>6. ASSUME NEW p \in Owners, Owning(p, cur)', cur # None
        PROVE  /\ sess[cur].owned
               /\ \A c \in Callers : Busy(c)' => c = p
               /\ op'[p].pc = "duck" => sess[cur].ducked
               /\ op'[p].pc = "hold" /\ ~sess[cur].ducked => Silent' /\ sess[cur].state # "playing"
               /\ Halting(p)' => ~sess[cur].ducked
    <3>1. Owning(p, cur)
      BY <1>4, <2>6
    <3>2. p = o \/ op'[p] = op[p]
      BY <2>1
    <3>3. p \in Callers
      BY DEF Callers
    <3>. QED  BY <1>3, <2>2, <2>3, <2>6, <3>1, <3>2, <3>3 DEF SerialInv, OwnInv
  <2>7. UNCHANGED <<sess, cur, device>>
    BY <1>0
  <2>8. cur # None =>
          /\ sess[cur].ducked => device.mixes /\ sess[cur].owned
          /\ sess[cur].resumeAfter => sess[cur].owned /\ ~sess[cur].ducked
          /\ sess[cur].pending # None => sess[cur].owned
    BY DEF SerialInv, OwnInv
  <2>. QED  BY <2>4, <2>5, <2>6, <2>7, <2>8 DEF OwnInv
<1>9. WantInv'
  <2>1. \A c \in Callers : op'[c].pc = "unduck" \/ op[c].pc = "unduck" \/ Halting(c) => op'[c] = op[c]
    BY <1>0, <1>2 DEF Halting
  <2>. QED  BY <1>0, <1>3, <2>1 DEF SerialInv, WantInv
<1>. QED  BY <1>6, <1>7, <1>8, <1>9 DEF SerialInv

-----------------------------------------------------------------------------
(* A feed is cancelled, and what follows.                                     *)

\* But for the bookmark, a session is what it was.
SamePlay(r, q) ==
    /\ r.state = q.state /\ r.url = q.url /\ r.owned = q.owned /\ r.pending = q.pending
    /\ r.resumeAfter = q.resumeAfter /\ r.ducked = q.ducked /\ r.task = q.task

\* A cancelled feed puts nothing on the wire any more.
LEMMA CancelEffect ==
  ASSUME TypeInv, NEW ss \in [Sessions -> SessionRecord], NEW t \in Feeds, Cancel(ss, t)
  PROVE  /\ ~Audible(t)'
         /\ \A x \in Feeds \ {t} : feed'[x] = feed[x]
         /\ \A s \in Sessions : SamePlay(sess'[s], ss[s])
<1>1. CASE feed' = [feed EXCEPT ![t] = NoFeed] /\ sess' = ss
  <2>1. feed'[t].pc = "free" /\ \A x \in Feeds \ {t} : feed'[x] = feed[x]
    BY <1>1 DEF TypeInv, NoFeed
  <2>. QED  BY <1>1, <2>1 DEF Audible, SamePlay
<1>2. CASE /\ feed[t].pc # "free"
           /\ feed' = [feed EXCEPT ![t].pc = IF feed[t].eos THEN "exit" ELSE "eos"]
           /\ \E p \in BOOLEAN : sess' = [ss EXCEPT ![feed[t].s].pos = p]
  <2>1. PICK p \in BOOLEAN : sess' = [ss EXCEPT ![feed[t].s].pos = p]
    BY <1>2
  <2>2. feed'[t].pc \in {"exit", "eos"} /\ \A x \in Feeds \ {t} : feed'[x] = feed[x]
    BY <1>2 DEF TypeInv, TaskRecord, FeedRecord
  <2>3. \A s \in Sessions : sess'[s] = ss[s] \/ sess'[s] = [ss[s] EXCEPT !.pos = p]
    BY <2>1
  <2>4. \A s \in Sessions : SamePlay(sess'[s], ss[s])
    <3>. TAKE s \in Sessions
    <3>1. CASE sess'[s] = [ss[s] EXCEPT !.pos = p]
      BY <3>1 DEF SamePlay, SessionRecord
    <3>. QED  BY <2>3, <3>1 DEF SamePlay
  <2>. QED  BY <2>2, <2>4 DEF Audible
<1>3. CASE feed[t].pc \in {"eos", "exit", "free"} /\ sess' = ss /\ UNCHANGED feed
  BY <1>3 DEF Audible, SamePlay
<1>. QED  BY <1>1, <1>2, <1>3 DEF Cancel

LEMMA FlushStep ==
  ASSUME TypeInv, SerialInv, NEW c \in Callers, FlushSent(c)
  PROVE  SerialInv'
<1>0. op[c].pc = "flush" /\ Cancel(sess, op[c].victim) /\ UNCHANGED <<cur, device, want>>
  BY DEF FlushSent
<1>1. /\ Busy(c) /\ Halting(c) /\ op[c].victim \in Feeds /\ cur \in Sessions /\ cur # None /\ op[c].s = cur
      /\ sess[cur].task = None
  BY <1>0 DEF SerialInv, CallersInv, FeedInv, Busy, Halting, TypeInv, TypeOK
<1>2. \A d \in Callers : Busy(d) => d = c
  BY <1>1 DEF SerialInv, CallersInv
<1>12. PICK v \in Feeds : v = op[c].victim
  BY <1>1
<1>3. \A t \in Feeds : Audible(t) => t = v
  BY <1>1, <1>2, <1>12, NoneAssumption DEF SerialInv, FeedInv, Busy
<1>4. Silent' /\ SamePlay(sess'[cur], sess[cur])
  <2>1. /\ ~Audible(v)' /\ \A x \in Feeds \ {v} : feed'[x] = feed[x]
        /\ \A s \in Sessions : SamePlay(sess'[s], sess[s])
    BY <1>0, <1>1, <1>12, CancelEffect DEF TypeInv, TypeOK
  <2>2. \A x \in Feeds \ {v} : ~Audible(x)'
    BY <1>3, <2>1 DEF Audible
  <2>. QED  BY <1>1, <2>1, <2>2 DEF Silent
<1>5. /\ op'[c].pc = "join" /\ op'[c].s = op[c].s /\ op'[c].kind = op[c].kind
      /\ op'[c].url = op[c].url /\ op'[c].release = op[c].release /\ op'[c].victim = op[c].victim
      /\ \A d \in Callers \ {c} : op'[d] = op[d]
  <2>1. op'[c] = [op[c] EXCEPT !.pc = "join"] /\ \A d \in Callers \ {c} : op'[d] = op[d]
    BY DEF FlushSent, TypeInv
  <2>2. op[c] \in OpRecord
    BY DEF TypeInv, TypeOK
  <2>. QED  BY <2>1, <2>2 DEF OpRecord
<1>6. \A d \in Callers : /\ (Busy(d)' <=> Busy(d)) /\ (Halting(d)' <=> Halting(d))
                         /\ (Carries(d)' <=> Carries(d))
  <2>1. Busy(c)' /\ Halting(c)' /\ (Carries(c)' <=> Carries(c))
    BY <1>1, <1>5 DEF Busy, Halting, Carries
  <2>2. \A d \in Callers \ {c} : (Busy(d)' <=> Busy(d)) /\ (Halting(d)' <=> Halting(d))
    BY <1>5 DEF Busy, Halting
  <2>3. \A d \in Callers \ {c} : Carries(d)' <=> Carries(d)
    BY <1>5, <2>2 DEF Carries
  <2>. QED  BY <1>1, <2>1, <2>2, <2>3
<1>7. \A p \in Owners : /\ Owning(p, cur)' <=> Owning(p, cur)
                        /\ op'[p].pc \in {"idle", "duck", "hold"} \/ op[p].pc \in {"idle", "duck", "hold"}
                             => op'[p] = op[p]
  BY <1>0, <1>5 DEF Owning, Callers
<1>8. CallersInv'
  <2>1. \A p, q \in Owners : op'[p].pc # "idle" /\ op'[q].pc # "idle" => p = q
    BY <1>0, <1>5 DEF SerialInv, CallersInv, Callers
  <2>2. \A d \in Cmds : (op'[d].pc = "idle" \/ Halting(d)') /\ ~op'[d].release
    BY <1>0, <1>5, <1>6 DEF SerialInv, CallersInv, Callers
  <2>3. ASSUME NEW d \in Callers
        PROVE  /\ op'[d].release => op'[d].pc = "unduck" \/ Halting(d)'
               /\ op'[d].pc = "unduck" => op'[d].release /\ ~op'[d].was
               /\ Busy(d)' => op'[d].s = cur' /\ cur' # None
               /\ Halting(d)' => /\ op'[d].kind \in {"play", "pause", "stop"}
                                 /\ ~Carries(d)' => op'[d].kind = "pause"
               /\ op'[d].pc \in {"flush", "join"} => op'[d].victim \in Feeds
    <3>1. CASE d = c
      BY <1>0, <1>1, <1>5, <1>6, <3>1 DEF SerialInv, CallersInv
    <3>2. CASE d # c
      BY <1>0, <1>5, <1>6, <3>2 DEF SerialInv, CallersInv
    <3>. QED  BY <3>1, <3>2
  <2>4. \A d, e \in Callers : Busy(d)' /\ Busy(e)' => d = e
    BY <1>6 DEF SerialInv, CallersInv
  <2>. QED  BY <2>1, <2>2, <2>3, <2>4 DEF CallersInv
<1>9. FeedInv'
  <2>1. \A d \in Callers : op'[d].pc # "push"
    BY <1>2, <1>5, <1>6 DEF Busy
  <2>2. device.up /\ (sess'[cur].state = "playing" => sess'[cur].url # None)
    BY <1>1, <1>4 DEF SerialInv, FeedInv, SamePlay
  <2>3. \A d \in Callers : Halting(d)' => sess'[cur].task = None
    BY <1>1, <1>4 DEF SamePlay
  <2>. QED  BY <1>0, <1>4, <2>1, <2>2, <2>3 DEF FeedInv, Silent
<1>10. OwnInv'
  <2>1. /\ sess[cur].owned => \E o \in Owners : Owning(o, cur)
        /\ sess[cur].ducked => device.mixes /\ sess[cur].owned
        /\ sess[cur].resumeAfter => sess[cur].owned /\ ~sess[cur].ducked
        /\ sess[cur].pending # None => sess[cur].owned
        /\ \A d \in Callers : Carries(d) => ~sess[cur].owned
    BY <1>1 DEF SerialInv, OwnInv
  <2>2. ASSUME NEW p \in Owners, Owning(p, cur)'
        PROVE  /\ sess[cur].owned
               /\ \A d \in Callers : Busy(d)' => d = p
               /\ op'[p].pc = "duck" => sess[cur].ducked
               /\ op'[p].pc = "hold" => op[p].pc = "hold"
               /\ op[p].pc = "hold" /\ ~sess[cur].ducked => sess[cur].state # "playing"
               /\ Halting(p)' => ~sess[cur].ducked
    <3>1. Owning(p, cur) /\ p \in Callers
      BY <1>7, <2>2 DEF Callers
    <3>2. op'[p].pc \in {"duck", "hold"} => op'[p] = op[p]
      BY <1>7
    <3>. QED  BY <1>1, <1>6, <3>1, <3>2 DEF SerialInv, OwnInv
  <2>. QED  BY <1>0, <1>4, <1>6, <1>7, <2>1, <2>2 DEF OwnInv, SamePlay
<1>11. WantInv'
  <2>1. \A d \in Callers : op[d].pc # "unduck" /\ op'[d].pc # "unduck"
    BY <1>0, <1>2, <1>5, <1>6 DEF Busy
  <2>2. \A d \in Callers : op'[d].kind = op[d].kind /\ op'[d].url = op[d].url
    BY <1>5
  <2>3. Shows(want, sess[cur]) => Shows(want, sess'[cur])
    BY <1>4 DEF Shows, SamePlay
  <2>. QED  BY <1>0, <1>4, <1>6, <2>1, <2>2, <2>3 DEF SerialInv, WantInv, SamePlay
<1>. QED  BY <1>8, <1>9, <1>10, <1>11 DEF SerialInv

\* Past the flush, what a caller does is an Effect on the session of the device.
LEMMA HaltedSerial ==
  ASSUME TypeInv, SerialInv, NEW c \in Callers, op[c].pc \in {"join", "push"},
         UNCHANGED <<cur, device, want>>, NEW k \in Kinds,
         Effect(c, cur, sess[cur], k, op[c].url, op[c].release),
         \/ k = op[c].kind
         \/ /\ k = "resume" /\ Carries(c) /\ sess'[cur].state = sess[cur].state
            /\ Shows(want, sess[cur])
  PROVE  SerialInv'
<1>1. /\ Busy(c) /\ Halting(c) /\ cur \in Sessions /\ cur # None /\ op[c].s = cur
      /\ sess[cur].task = None /\ sess[cur] \in SessionRecord
      /\ op[c].url \in Urls \cup {None} /\ op[c].release \in BOOLEAN
  <2>1. Busy(c) /\ Halting(c) /\ op[c] \in OpRecord
    BY DEF Busy, Halting, TypeInv, TypeOK
  <2>2. cur # None /\ op[c].s = cur /\ sess[cur].task = None
    BY <2>1 DEF SerialInv, CallersInv, FeedInv
  <2>3. cur \in Sessions /\ sess[cur] \in SessionRecord
    BY <2>2 DEF TypeInv, TypeOK
  <2>. QED  BY <2>1, <2>2, <2>3 DEF OpRecord
<1>2. \A d \in Callers \ {c} : ~Busy(d)
  BY <1>1 DEF SerialInv, CallersInv
<1>3. Calm(c, sess[cur], cur)
  <2>1. \A d \in Callers : op[d].pc # "flush"
    BY <1>2 DEF Busy
  <2>. QED  BY <1>1, <1>2, <2>1 DEF SerialInv, FeedInv, Calm
<1>4. c \in Owners => \A o \in Owners \ {c} : op[o].pc = "idle"
  BY <1>1 DEF SerialInv, CallersInv, Halting
<1>5. CASE Carries(c)
  <2>1. /\ ~sess[cur].owned /\ ~sess[cur].ducked /\ ~sess[cur].resumeAfter /\ sess[cur].pending = None
    BY <1>1, <1>5 DEF SerialInv, OwnInv
  <2>2. Ownerless(c, sess[cur], cur)
    BY <1>1, <2>1 DEF Ownerless, SerialInv, OwnInv
  <2>3. (c \in Cmds /\ ~op[c].release) \/ (c \in Owners /\ op[c].release)
    BY <1>5 DEF Carries, SerialInv, CallersInv, Callers
  <2>4. want = Recorded(op[c].kind, op[c].url) /\ want # None
    <3>1. want = Recorded(op[c].kind, op[c].url)
      BY <1>1, <1>5 DEF SerialInv, WantInv
    <3>2. op[c].kind \in Kinds
      BY <1>1 DEF SerialInv, CallersInv, Kinds
    <3>. QED  BY <1>1, <3>1, <3>2, NoneAssumption DEF Recorded, Command
  <2>5. want # None => (want.kind = "play" => want.url # None)
    BY DEF SerialInv, WantInv
  <2>6. k = "play" => op[c].url # None
    <3>1. k = "play" => want.kind = "play" /\ want.url = op[c].url
      BY <2>4 DEF Recorded
    <3>. QED  BY <2>4, <2>5, <3>1
  <2>7. May(c, k, op[c].release)
    BY <1>4, <2>3 DEF May
  <2>8. CallersInv'
    BY <1>1, <1>3, <2>7, EffectCallers DEF SerialInv
  <2>9. FeedInv'
    BY <1>1, <1>3, <2>6, EffectFeeds
  <2>10. OwnInv'
    BY <1>1, <1>3, <2>2, <2>3, CarriedOwn
  <2>11. WantInv'
    BY <1>1, <1>3, <2>2, <2>3, <2>4, <2>5, <2>6, CarriedWant
  <2>. QED  BY <2>8, <2>9, <2>10, <2>11 DEF SerialInv
<1>6. CASE ~Carries(c)
  <2>1. c \in Owners /\ op[c].release = FALSE /\ k = "pause"
    BY <1>1, <1>6 DEF Carries, SerialInv, CallersInv, Callers
  <2>2. Owning(c, cur)
    BY <1>1, <2>1 DEF Owning, Halting
  <2>3. sess[cur].owned /\ ~sess[cur].ducked
    BY <1>1, <2>1, <2>2 DEF SerialInv, OwnInv
  <2>4. sess[cur].pending \in {None, want}
    BY <1>1 DEF SerialInv, WantInv
  <2>5. want = None \/ sess[cur].pending # None \/ Shows(want, sess[cur])
    <3>1. \A d \in Callers : op[d].pc # "unduck" /\ ~Carries(d)
      BY <1>2, <1>6 DEF Busy, Carries
    <3>. QED  BY <3>1 DEF SerialInv, WantInv
  <2>6. want # None => (want.kind = "play" => want.url # None)
    BY DEF SerialInv, WantInv
  <2>7. Effect(c, cur, sess[cur], "pause", op[c].url, FALSE)
    BY <2>1
  <2>8. CallersInv'
    BY <1>1, <1>3, <1>4, <2>1, <2>7, EffectCallers DEF May, SerialInv
  <2>9. FeedInv'
    BY <1>1, <1>3, <2>1, <2>7, EffectFeeds
  <2>10. OwnInv'
    BY <1>1, <1>3, <1>4, <2>1, <2>3, <2>7, PausedOwn
  <2>11. WantInv'
    BY <1>1, <1>3, <2>1, <2>4, <2>5, <2>6, <2>7, PausedWant
  <2>. QED  BY <2>8, <2>9, <2>10, <2>11 DEF SerialInv
<1>. QED  BY <1>5, <1>6

LEMMA JoinStep ==
  ASSUME TypeInv, SerialInv, NEW c \in Callers, Joined(c)
  PROVE  SerialInv'
<1>. DEFINE b == [op[c] EXCEPT !.victim = None]
<1>0. op[c].pc = "join" /\ UNCHANGED <<cur, device, want>> /\ AfterHalt(sess, c, b, op[c].s)
  BY DEF Joined
<1>1. /\ cur \in Sessions /\ op[c].s = cur /\ sess[cur].task = None /\ op[c] \in OpRecord
      /\ op[c].kind \in {"play", "pause", "stop"} /\ sess \in [Sessions -> SessionRecord]
  <2>1. Busy(c) /\ Halting(c)
    BY <1>0 DEF Busy, Halting
  <2>. QED  BY <2>1 DEF SerialInv, CallersInv, FeedInv, TypeInv, TypeOK
<1>2. b \in OpRecord /\ b.s = cur /\ b.kind = op[c].kind /\ b.url = op[c].url /\ b.release = op[c].release
  BY <1>1 DEF OpRecord
<1>. HIDE DEF b
<1>3. ~ToHalt(sess[cur].task)
  BY <1>1 DEF ToHalt
<1>4. AfterHalt(sess, c, b, cur)
  BY <1>0, <1>1
<1>5. /\ KeepsHands(sess[cur], cur)
      /\ \/ /\ Waits(c, cur, "push", b.kind, b.url, b.release)
            /\ sess'[cur].task = sess[cur].task /\ UNCHANGED feed
            /\ \/ /\ b.kind = "pause" /\ sess'[cur].state = "paused"
                  /\ sess'[cur].url = sess[cur].url /\ sess'[cur].resumeAfter = sess[cur].resumeAfter
               \/ b.kind # "pause" /\ Stops(cur)
         \/ /\ b.kind = "stop" /\ Returns(c, cur, b.release) /\ Stops(cur)
            /\ sess'[cur].task = sess[cur].task /\ UNCHANGED feed
         \/ /\ b.kind = "play" /\ Returns(c, cur, b.release) /\ Starts(cur)
            /\ sess'[cur].url = b.url /\ ~sess'[cur].resumeAfter
  BY <1>1, <1>2, <1>4, AfterHaltEffect
<1>6. Effect(c, cur, sess[cur], op[c].kind, op[c].url, op[c].release)
  BY <1>1, <1>2, <1>3, <1>5 DEF Effect
<1>7. op[c].kind \in Kinds
  BY <1>1 DEF Kinds
<1>. QED  BY <1>0, <1>6, <1>7, HaltedSerial

LEMMA PushStep ==
  ASSUME TypeInv, SerialInv, NEW c \in Callers, Pushed(c)
  PROVE  SerialInv'
<1>0. op[c].pc = "push" /\ UNCHANGED <<cur, device, want>>
  BY DEF Pushed
<1>1. /\ cur \in Sessions /\ cur # None /\ op[c].s = cur /\ sess[cur].task = None
      /\ op[c] \in OpRecord /\ Halting(c) /\ Busy(c)
      /\ op[c].kind \in {"play", "pause", "stop"} /\ sess \in [Sessions -> SessionRecord]
  <2>1. Busy(c) /\ Halting(c)
    BY <1>0 DEF Busy, Halting
  <2>. QED  BY <2>1 DEF SerialInv, CallersInv, FeedInv, TypeInv, TypeOK
<1>2. op[c].kind \in {"play", "stop"} => Carries(c) /\ ~sess[cur].resumeAfter
  <2>1. op[c].kind \in {"play", "stop"} => Carries(c)
    BY <1>1 DEF SerialInv, CallersInv
  <2>. QED  BY <1>1, <2>1 DEF SerialInv, OwnInv
<1>3. CASE op[c].kind = "play" /\ PlayUrl(sess, c, op[c], op[c].s)
  <2>1. /\ Returns(c, cur, op[c].release) /\ Starts(cur) /\ KeepsHands(sess[cur], cur)
        /\ sess'[cur].url = op[c].url /\ sess'[cur].resumeAfter = sess[cur].resumeAfter
    BY <1>1, <1>3, PlayUrlEffect
  <2>2. ~ToHalt(sess[cur].task)
    BY <1>1 DEF ToHalt
  <2>3. Effect(c, cur, sess[cur], op[c].kind, op[c].url, op[c].release)
    BY <1>2, <1>3, <2>1, <2>2 DEF Effect
  <2>4. op[c].kind \in Kinds
    BY <1>1 DEF Kinds
  <2>. QED  BY <1>0, <2>3, <2>4, HaltedSerial
<1>4. CASE op[c].kind # "play" /\ Return(c, op[c]) /\ UNCHANGED <<sess, feed, told>>
  <2>1. sess[cur].state # "playing" /\ Returns(c, cur, op[c].release)
    BY <1>0, <1>1, <1>4, ReturnEffect DEF SerialInv, FeedInv
  <2>2. KeepsHands(sess[cur], cur)
    BY <1>4 DEF KeepsHands
  <2>3. Effect(c, cur, sess[cur], "pause", op[c].url, op[c].release)
    BY <1>4, <2>1, <2>2 DEF Effect
  <2>4. Effect(c, cur, sess[cur], "resume", op[c].url, op[c].release)
    BY <1>4, <2>1, <2>2 DEF Effect
  <2>5. "pause" \in Kinds /\ "resume" \in Kinds
    BY DEF Kinds
  <2>6. CASE op[c].kind = "pause"
    BY <1>0, <2>3, <2>5, <2>6, HaltedSerial
  <2>7. CASE op[c].kind = "stop"
    <3>1. Carries(c) /\ ~sess[cur].resumeAfter
      BY <1>2, <2>7
    <3>2. want.kind = "stop"
      BY <1>1, <2>7, <3>1 DEF SerialInv, WantInv, Recorded
    <3>3. Shows(want, sess[cur])
      BY <2>1, <3>1, <3>2 DEF Shows
    <3>4. sess'[cur].state = sess[cur].state
      BY <1>4
    <3>. QED  BY <1>0, <2>4, <2>5, <3>1, <3>3, <3>4, HaltedSerial
  <2>. QED  BY <1>1, <1>4, <2>6, <2>7
<1>. QED  BY <1>3, <1>4 DEF Pushed

-----------------------------------------------------------------------------
(* The feeds, and the device.                                                 *)

\* A step of a feed leaves the hands of its session alone; it stops the session
\* only when it stops putting music on the wire itself.
LEMMA FeedEffect ==
  ASSUME TypeInv, NEW t \in Feeds, FeedStep(t)
  PROVE  /\ \A x \in Feeds \ {t} : feed'[x] = feed[x]
         /\ Audible(t)' => Audible(t) /\ feed'[t].s = feed[t].s
         /\ \A s \in Sessions :
              /\ KeepsHands(sess[s], s) /\ sess'[s].resumeAfter = sess[s].resumeAfter
              /\ sess'[s].task = sess[s].task
              /\ \/ sess'[s].state = sess[s].state /\ sess'[s].url = sess[s].url
                 \/ /\ Audible(t) /\ ~Audible(t)' /\ feed[t].s = s
                    /\ sess'[s].state = "idle" /\ sess'[s].url \in {sess[s].url, None}
<1>0. feed[t].pc # "free" => feed[t].s \in Sessions
  BY DEF TypeInv, TaskRecord
<1>1. ASSUME NEW p \in {"spawn", "seek", "start", "stream", "exit", "eos"}, Goes(t, p)
      PROVE  feed'[t].pc = p /\ feed'[t].s = feed[t].s /\ \A x \in Feeds \ {t} : feed'[x] = feed[x]
  <2>1. feed'[t] = [feed[t] EXCEPT !.pc = p] /\ \A x \in Feeds \ {t} : feed'[x] = feed[x]
    BY <1>1 DEF Goes, TypeInv
  <2>. QED  BY <2>1 DEF TypeInv, TaskRecord, FeedRecord
<1>2. ASSUME NEW p \in {"drain", "exit"}, feed' = [feed EXCEPT ![t].pc = p, ![t].eos = TRUE]
      PROVE  feed'[t].pc = p /\ feed'[t].s = feed[t].s /\ \A x \in Feeds \ {t} : feed'[x] = feed[x]
  <2>1. feed'[t] = [feed[t] EXCEPT !.pc = p, !.eos = TRUE] /\ \A x \in Feeds \ {t} : feed'[x] = feed[x]
    BY <1>2 DEF TypeInv
  <2>. QED  BY <2>1 DEF TypeInv, TaskRecord, FeedRecord
<1>3. ASSUME sess' = sess, NEW s \in Sessions
      PROVE  /\ KeepsHands(sess[s], s) /\ sess'[s].resumeAfter = sess[s].resumeAfter
             /\ sess'[s].task = sess[s].task /\ sess'[s].state = sess[s].state /\ sess'[s].url = sess[s].url
  BY <1>3 DEF KeepsHands
<1>4. ASSUME feed[t].pc # "free", NEW p, NEW q,
             sess' = [sess EXCEPT ![feed[t].s].pos = p]
               \/ sess' = [sess EXCEPT ![feed[t].s].pos = p, ![feed[t].s].seekable = q],
             NEW s \in Sessions
      PROVE  /\ KeepsHands(sess[s], s) /\ sess'[s].resumeAfter = sess[s].resumeAfter
             /\ sess'[s].task = sess[s].task /\ sess'[s].state = sess[s].state /\ sess'[s].url = sess[s].url
  <2>1. \/ sess'[s] = sess[s] \/ sess'[s] = [sess[s] EXCEPT !.pos = p]
        \/ sess'[s] = [sess[s] EXCEPT !.pos = p, !.seekable = q]
    BY <1>0, <1>4 DEF TypeInv, TypeOK
  <2>2. sess[s] \in SessionRecord
    BY DEF TypeInv, TypeOK
  <2>3. CASE sess'[s] = sess[s]
    BY <2>3 DEF KeepsHands
  <2>4. CASE sess'[s] = [sess[s] EXCEPT !.pos = p]
    BY <2>2, <2>4 DEF KeepsHands, SessionRecord
  <2>5. CASE sess'[s] = [sess[s] EXCEPT !.pos = p, !.seekable = q]
    BY <2>2, <2>5 DEF KeepsHands, SessionRecord
  <2>. QED  BY <2>1, <2>3, <2>4, <2>5
<1>5. ASSUME feed[t].pc # "free", NEW r,
             r = [sess[feed[t].s] EXCEPT !.state = "idle"]
               \/ r = [sess[feed[t].s] EXCEPT !.state = "idle", !.url = None, !.pos = FALSE],
             Finish(t, r), NEW s \in Sessions
      PROVE  /\ KeepsHands(sess[s], s) /\ sess'[s].resumeAfter = sess[s].resumeAfter
             /\ sess'[s].task = sess[s].task
             /\ s # feed[t].s => sess'[s].state = sess[s].state /\ sess'[s].url = sess[s].url
             /\ s = feed[t].s => sess'[s].state = "idle" /\ sess'[s].url \in {sess[s].url, None}
  <2>1. sess' = [sess EXCEPT ![feed[t].s] = r]
    BY <1>5 DEF Finish
  <2>2. CASE s # feed[t].s
    BY <2>1, <2>2 DEF KeepsHands, TypeInv, TypeOK
  <2>3. CASE s = feed[t].s
    <3>1. sess'[s] = r /\ sess[s] \in SessionRecord
      BY <2>1, <2>3 DEF TypeInv, TypeOK
    <3>. QED  BY <1>5, <2>3, <3>1 DEF KeepsHands, SessionRecord
  <2>. QED  BY <2>2, <2>3
<1>6. CASE FeedBegins(t)
  <2>1. CASE Finish(t, [sess[feed[t].s] EXCEPT !.state = "idle"]) /\ Goes(t, "exit")
    BY <1>1, <1>5, <1>6, <2>1 DEF FeedBegins, Audible
  <2>2. CASE sess' = [sess EXCEPT ![feed[t].s].pos = @ /\ sess[feed[t].s].seekable] /\ Goes(t, "spawn")
    <3>1. PICK p : sess' = [sess EXCEPT ![feed[t].s].pos = p]
      BY <2>2
    <3>. QED  BY <1>1, <1>4, <1>6, <2>2, <3>1 DEF FeedBegins, Audible
  <2>. QED  BY <1>6, <2>1, <2>2 DEF FeedBegins
<1>7. CASE DecoderSpawned(t)
  BY <1>1, <1>3, <1>7 DEF DecoderSpawned, Audible
<1>8. CASE SeekGivesAudio(t)
  BY <1>1, <1>3, <1>8 DEF SeekGivesAudio, Audible
<1>9. CASE SeekStalls(t)
  <2>1. sess' = [sess EXCEPT ![feed[t].s].pos = FALSE, ![feed[t].s].seekable = FALSE]
    BY <1>9 DEF SeekStalls
  <2>. QED  BY <1>1, <1>4, <1>9, <2>1 DEF SeekStalls, Audible
<1>10. CASE FirstFrame(t)
  BY <1>1, <1>3, <1>10 DEF FirstFrame, Audible
<1>11. CASE SourceEnds(t)
  BY <1>2, <1>3, <1>11 DEF SourceEnds, Audible
<1>12. CASE Drained(t)
  BY <1>1, <1>5, <1>12 DEF Drained, Audible
<1>13. CASE FeedFails(t)
  BY <1>1, <1>5, <1>13 DEF FeedFails, Audible
<1>14. CASE EosSent(t)
  BY <1>2, <1>3, <1>14 DEF EosSent, Audible
<1>15. CASE FeedReturns(t)
  <2>1. feed'[t].pc = "free" /\ \A x \in Feeds \ {t} : feed'[x] = feed[x]
    BY <1>15 DEF FeedReturns, TypeInv, NoFeed
  <2>. QED  BY <1>3, <1>15, <2>1 DEF FeedReturns, Audible
<1>. QED  BY <1>6, <1>7, <1>8, <1>9, <1>10, <1>11, <1>12, <1>13, <1>14, <1>15 DEF FeedStep

LEMMA FeedSerial ==
  ASSUME TypeInv, SerialInv, NEW t \in Feeds, FeedStep(t)
  PROVE  SerialInv'
<1>1. UNCHANGED <<cur, device, op, want>>
  BY DEF FeedStep
<1>2. /\ \A x \in Feeds \ {t} : feed'[x] = feed[x]
      /\ Audible(t)' => Audible(t) /\ feed'[t].s = feed[t].s
  BY FeedEffect
<1>3. \A x \in Feeds : Audible(x)' => Audible(x) /\ feed'[x].s = feed[x].s
  <2>1. \A x \in Feeds \ {t} : Audible(x)' => Audible(x) /\ feed'[x].s = feed[x].s
    BY <1>2 DEF Audible
  <2>. QED  BY <1>2, <2>1
<1>4. cur # None =>
        /\ KeepsHands(sess[cur], cur) /\ sess'[cur].resumeAfter = sess[cur].resumeAfter
        /\ sess'[cur].task = sess[cur].task
        /\ \/ sess'[cur].state = sess[cur].state /\ sess'[cur].url = sess[cur].url
           \/ Silent' /\ sess'[cur].state = "idle" /\ sess'[cur].url \in {sess[cur].url, None}
  <2>1. SUFFICES ASSUME cur # None
                 PROVE  /\ KeepsHands(sess[cur], cur) /\ sess'[cur].resumeAfter = sess[cur].resumeAfter
                        /\ sess'[cur].task = sess[cur].task
                        /\ \/ sess'[cur].state = sess[cur].state /\ sess'[cur].url = sess[cur].url
                           \/ /\ Silent' /\ sess'[cur].state = "idle"
                              /\ sess'[cur].url \in {sess[cur].url, None}
    OBVIOUS
  <2>2. cur \in Sessions
    BY <2>1 DEF TypeInv, TypeOK
  <2>3. Audible(t) /\ ~Audible(t)' => Silent'
    <3>1. Audible(t) => \A x \in Feeds : Audible(x) => x = t
      BY OneAudible DEF SerialInv
    <3>. QED  BY <1>3, <3>1 DEF Silent
  <2>. QED  BY <2>2, <2>3, FeedEffect
<1>5. \A c \in Callers : /\ (Busy(c)' <=> Busy(c)) /\ (Halting(c)' <=> Halting(c))
                         /\ (Carries(c)' <=> Carries(c))
  BY <1>1 DEF Busy, Halting, Carries
<1>6. CallersInv'
  BY <1>1 DEF SerialInv, CallersInv, Busy, Halting, Carries
<1>7. FeedInv'
  <2>1. \A x \in Feeds : Audible(x)' =>
          /\ cur # None
          /\ feed'[x].s = cur
          /\ \/ sess'[cur].task = x /\ sess'[cur].state = "playing"
             \/ \E c \in Callers : op[c].pc = "flush" /\ op[c].victim = x
    BY <1>3, <1>4 DEF SerialInv, FeedInv, Silent
  <2>2. \A c \in Callers : /\ Halting(c) => sess'[cur].task = None
                           /\ op[c].pc = "push" /\ op[c].kind # "play" => sess'[cur].state # "playing"
    <3>1. \A c \in Callers : Halting(c) \/ op[c].pc = "push" => cur # None
      BY DEF SerialInv, CallersInv, Busy, Halting
    <3>. QED  BY <1>4, <3>1 DEF SerialInv, FeedInv
  <2>3. cur # None => device.up /\ (sess'[cur].state = "playing" => sess'[cur].url # None)
    BY <1>4 DEF SerialInv, FeedInv
  <2>. QED  BY <1>1, <1>5, <2>1, <2>2, <2>3 DEF FeedInv
<1>8. OwnInv'
  <2>1. \A o \in Owners : Owning(o, cur)' <=> Owning(o, cur)
    BY <1>1 DEF Owning
  <2>2. Silent => Silent'
    BY <1>3 DEF Silent
  <2>3. cur # None => /\ sess'[cur].owned = sess[cur].owned /\ sess'[cur].ducked = sess[cur].ducked
                      /\ sess'[cur].pending = sess[cur].pending
                      /\ sess'[cur].resumeAfter = sess[cur].resumeAfter
                      /\ sess[cur].state # "playing" => sess'[cur].state # "playing"
    BY <1>4 DEF KeepsHands
  <2>4. ASSUME cur # None
        PROVE  /\ sess[cur].owned => \E o \in Owners : Owning(o, cur)'
               /\ \A c \in Callers : Carries(c)' => ~sess[cur].owned
               /\ sess[cur].ducked => device.mixes /\ sess[cur].owned
               /\ sess[cur].resumeAfter => sess[cur].owned /\ ~sess[cur].ducked
               /\ sess[cur].pending # None => sess[cur].owned
    BY <1>5, <2>1, <2>4 DEF SerialInv, OwnInv
  <2>5. ASSUME NEW o \in Owners, Owning(o, cur)', cur # None
        PROVE  /\ sess[cur].owned
               /\ \A c \in Callers : Busy(c)' => c = o
               /\ op[o].pc = "duck" => sess[cur].ducked
               /\ op[o].pc = "hold" /\ ~sess[cur].ducked => Silent' /\ sess'[cur].state # "playing"
               /\ Halting(o)' => ~sess[cur].ducked
    <3>1. Owning(o, cur) /\ o \in Callers
      BY <2>1, <2>5 DEF Callers
    <3>. QED  BY <1>5, <2>2, <2>3, <2>5, <3>1 DEF SerialInv, OwnInv
  <2>. QED  BY <1>1, <2>3, <2>4, <2>5 DEF OwnInv
<1>9. WantInv'
  <2>1. cur # None => sess'[cur].pending = sess[cur].pending
    BY <1>4 DEF KeepsHands
  <2>2. cur # None /\ Shows(want, sess[cur]) => Shows(want, sess'[cur])
    BY <1>4 DEF Shows
  <2>. QED  BY <1>1, <1>5, <2>1, <2>2 DEF SerialInv, WantInv
<1>. QED  BY <1>6, <1>7, <1>8, <1>9 DEF SerialInv

LEMMA GoneStep ==
  ASSUME TypeInv, SerialInv, DeviceGone, ~raced'
  PROVE  SerialInv'
<1>1. /\ cur' = None /\ want' = None /\ UNCHANGED op
      /\ \A c \in Callers : ~Busy(c)
  BY DEF DeviceGone
<1>2. Silent'
  <2>1. CASE cur = None
    BY <2>1 DEF SerialInv, FeedInv, DeviceGone, Silent, Audible
  <2>2. CASE cur # None
    <3>. DEFINE ss == [sess EXCEPT ![cur].state = "idle", ![cur].task = None]
    <3>1. cur \in Sessions /\ sess[cur].task \in Feeds \cup {None}
      BY <2>2 DEF TypeOK, TypeInv, SessionRecord
    <3>2. ss \in [Sessions -> SessionRecord]
      BY <3>1, SetState, SetTask DEF TypeOK, TypeInv, States
    <3>3. \A x \in Feeds : Audible(x) => sess[cur].task = x
      BY <1>1 DEF SerialInv, FeedInv, Busy
    <3>4. \/ sess[cur].task = None /\ UNCHANGED feed
          \/ sess[cur].task \in Feeds /\ Cancel(ss, sess[cur].task)
      BY <2>2, <3>1 DEF DeviceGone
    <3>. HIDE DEF ss
    <3>5. CASE sess[cur].task = None /\ UNCHANGED feed
      BY <3>3, <3>5, NoneAssumption DEF Silent, Audible
    <3>6. CASE sess[cur].task \in Feeds /\ Cancel(ss, sess[cur].task)
      <4>1. PICK v \in Feeds : v = sess[cur].task
        BY <3>6
      <4>2. ~Audible(v)' /\ \A x \in Feeds \ {v} : feed'[x] = feed[x]
        BY <3>2, <3>6, <4>1, CancelEffect
      <4>3. \A x \in Feeds \ {v} : ~Audible(x)'
        BY <3>3, <4>1, <4>2 DEF Audible
      <4>. QED  BY <4>2, <4>3 DEF Silent
    <3>. QED  BY <3>4, <3>5, <3>6
  <2>. QED  BY <2>1, <2>2
<1>3. \A c \in Callers : ~Busy(c)' /\ ~Halting(c)' /\ ~Halting(c)
  BY <1>1 DEF Busy, Halting
<1>4. CallersInv'
  <2>1. \A c \in Callers : op[c].pc \notin {"flush", "join", "unduck"}
    BY <1>1 DEF Busy
  <2>2. \A c \in Callers : ~op[c].release
    BY <1>3, <2>1 DEF SerialInv, CallersInv
  <2>3. \A c \in Cmds : op[c].pc = "idle" /\ ~op[c].release
    BY <1>3, <2>2 DEF SerialInv, CallersInv, Callers
  <2>4. \A o, p \in Owners : op[o].pc # "idle" /\ op[p].pc # "idle" => o = p
    BY DEF SerialInv, CallersInv
  <2>. QED  BY <1>1, <1>3, <2>1, <2>2, <2>3, <2>4 DEF CallersInv
<1>5. FeedInv'
  BY <1>1, <1>2, <1>3 DEF FeedInv, Silent, Halting
<1>6. OwnInv'
  BY <1>1 DEF OwnInv
<1>7. WantInv'
  BY <1>1, <1>3 DEF WantInv, Busy
<1>. QED  BY <1>4, <1>5, <1>6, <1>7 DEF SerialInv

\* Nothing else changes anything the invariant speaks of.
LEMMA OtherStep ==
  ASSUME TypeInv, SerialInv, Reconnect \/ UNCHANGED vars
  PROVE  SerialInv'
<1>1. UNCHANGED <<sess, cur, feed, op, want>> /\ (UNCHANGED device \/ cur = None)
  BY DEF Reconnect, vars, SerialInv, FeedInv
<1>2. CallersInv'
  BY <1>1 DEF SerialInv, CallersInv, Busy, Halting, Carries
<1>3. FeedInv'
  BY <1>1 DEF SerialInv, FeedInv, Audible, Halting
<1>4. OwnInv'
  BY <1>1 DEF SerialInv, OwnInv, Owning, Silent, Audible, Carries, Busy, Halting
<1>5. WantInv'
  BY <1>1 DEF SerialInv, WantInv, Carries, Busy, Halting
<1>. QED  BY <1>2, <1>3, <1>4, <1>5 DEF SerialInv

LEMMA PlayStep == PlayInv /\ [Next]_vars => PlayInv'
<1>. SUFFICES ASSUME PlayInv, [Next]_vars PROVE PlayInv'
  OBVIOUS
<1>1. TypeInv /\ TypeInv'
  BY TypeStep DEF PlayInv
<1>2. ~raced' => ~raced
  BY DEF Next, vars, MediaCommand, Defer, Interrupt, Release, OwnerStep, DuckSent, UnduckSent, OpStep,
         FlushSent, Joined, Pushed, FeedStep, DeviceGone, Reconnect, Races
<1>. SUFFICES ASSUME ~raced' PROVE SerialInv'
  BY <1>1 DEF PlayInv
<1>3. SerialInv
  BY <1>2 DEF PlayInv
<1>4. CASE \E c \in Cmds, k \in Kinds, u \in Urls \cup {None} : MediaCommand(c, k, u)
  BY <1>1, <1>3, <1>4, CommandStep
<1>5. CASE \E o \in Owners : Interrupt(o) \/ Release(o) \/ OwnerStep(o)
  BY <1>1, <1>3, <1>5, InterruptStep, ReleaseStep, DuckStep, UnduckStep DEF OwnerStep
<1>6. CASE \E c \in Callers : OpStep(c)
  BY <1>1, <1>3, <1>6, FlushStep, JoinStep, PushStep DEF OpStep
<1>7. CASE \E t \in Feeds : FeedStep(t)
  BY <1>1, <1>3, <1>7, FeedSerial
<1>8. CASE DeviceGone
  BY <1>1, <1>3, <1>8, GoneStep
<1>9. CASE Reconnect \/ UNCHANGED vars
  BY <1>1, <1>3, <1>9, OtherStep
<1>. QED  BY <1>4, <1>5, <1>6, <1>7, <1>8, <1>9 DEF Next

LEMMA PlayInit == Init => PlayInv
<1>. SUFFICES ASSUME Init PROVE PlayInv
  OBVIOUS
<1>1. TypeInv
  BY TypeInit
<1>2. /\ cur = None /\ want = None
      /\ \A c \in Callers : op[c].pc = "idle" /\ op[c].release = FALSE
      /\ \A t \in Feeds : ~Audible(t)
  BY DEF Init, NoOp, NoFeed, Audible
<1>3. \A c \in Callers : ~Busy(c) /\ ~Halting(c)
  BY <1>2 DEF Busy, Halting
<1>4. CallersInv
  BY <1>2, <1>3 DEF CallersInv, Callers
<1>5. FeedInv
  BY <1>2, <1>3 DEF FeedInv
<1>6. OwnInv /\ WantInv
  BY <1>2, <1>3 DEF OwnInv, WantInv
<1>. QED  BY <1>1, <1>4, <1>5, <1>6 DEF PlayInv, SerialInv

-----------------------------------------------------------------------------
(* The theorems.                                                              *)

\* At most one feed at a time puts music on the wire: _halt has gone through the
\* old one before play(), resume() or a turn's end starts the next, whatever the
\* order of commands, turns and disconnections that do not overlap.
THEOREM OneFeedAtATime == Spec => []OneFeed
<1>1. PlayInv => OneFeed
  <2>. SUFFICES ASSUME PlayInv, ~raced PROVE Cardinality({t \in Feeds : Audible(t)}) <= 1
    BY DEF OneFeed
  <2>. DEFINE A == {t \in Feeds : Audible(t)}
  <2>1. \A t, x \in A : t = x
    BY OneAudible DEF PlayInv, SerialInv
  <2>2. CASE A = {}
    BY <2>2, FS_EmptySet
  <2>3. CASE A # {}
    <3>1. PICK t \in A : TRUE
      BY <2>3
    <3>2. A = {t}
      BY <2>1, <3>1
    <3>. QED  BY <3>2, FS_Singleton
  <2>. QED  BY <2>2, <2>3
<1>. QED  BY <1>1, PlayInit, PlayStep, PTL DEF Spec

\* While an owner speaks on a device that cannot mix, no music is sent: the feed
\* that was under way is gone, and a command that comes meanwhile is deferred.
THEOREM SpeechHasTheSpeaker == Spec => []SpeechIsAlone
<1>1. PlayInv => SpeechIsAlone
  <2>. SUFFICES ASSUME PlayInv, ~raced, ~device.mixes,
                       NEW o \in Owners, op[o].pc = "hold", op[o].s = cur
                PROVE  Silent
    BY DEF SpeechIsAlone, Silent
  <2>1. TypeInv /\ SerialInv /\ o \in Callers
    BY DEF PlayInv, Callers
  <2>2. cur # None
    BY <2>1, NoneAssumption DEF TypeInv, CallerRecord
  <2>3. ~op[o].release
    BY <2>1 DEF SerialInv, CallersInv, Halting
  <2>4. Owning(o, cur)
    BY <2>3 DEF Owning
  <2>5. ~sess[cur].ducked
    BY <2>1, <2>2 DEF SerialInv, OwnInv
  <2>. QED  BY <2>1, <2>2, <2>4, <2>5 DEF SerialInv, OwnInv
<1>. QED  BY <1>1, PlayInit, PlayStep, PTL DEF Spec

\* The user's last command decides what plays once speech is over, whether it
\* came before, during or after a turn: deferred while an owner speaks, carried
\* out at its end, and neither undone by the turn's own resume.
THEOREM LastCommandDecides == Spec => []LastCommandWins
<1>1. PlayInv => LastCommandWins
  <2>. SUFFICES ASSUME PlayInv, Quiet, ~raced, want # None
                PROVE  /\ want.kind \in {"pause", "stop"} =>
                            sess[cur].state # "playing" /\ \A t \in Feeds : ~Audible(t)
                       /\ want.kind = "play" /\ sess[cur].state = "playing" => sess[cur].url = want.url
    BY DEF LastCommandWins
  <2>1. TypeInv /\ SerialInv
    BY DEF PlayInv
  <2>2. \A c \in Callers : op[c].pc = "idle" /\ ~Busy(c)
    BY DEF Quiet, Busy
  <2>3. cur # None
    BY <2>1 DEF SerialInv, WantInv
  <2>4. sess[cur].pending = None
    <3>1. \A o \in Owners : ~Owning(o, cur)
      BY <2>2 DEF Owning, Callers
    <3>. QED  BY <2>1, <2>3, <3>1 DEF SerialInv, OwnInv
  <2>5. Shows(want, sess[cur])
    BY <2>1, <2>2, <2>4 DEF SerialInv, WantInv, Carries
  <2>6. \A t \in Feeds : Audible(t) => sess[cur].state = "playing"
    BY <2>1, <2>2 DEF SerialInv, FeedInv
  <2>7. sess[cur].state = "playing" => sess[cur].url # None
    BY <2>1, <2>3 DEF SerialInv, FeedInv
  <2>. QED  BY <2>5, <2>6, <2>7 DEF Shows
<1>. QED  BY <1>1, PlayInit, PlayStep, PTL DEF Spec

(***************************************************************************)
(* The connection.                                                         *)
(***************************************************************************)
\* The registry holds one connection at most, and one that has been announced
\* and whose row was never deleted has a row.
OneEntry == \A c, d \in devices : c = d

RowKept == row = "none" => \A c \in devices \ cut : phase[c] \notin Announced

ShownInv == LinkTypeOK /\ OneEntry /\ RowKept /\ RegisteredIsShown

\* Until a deletion, or a mint over another, every copy of a token is the one on
\* record: the file, the one a dial carries and the ones being installed.
OneToken ==
  ~deleted /\ ~reminted =>
    /\ disk \in {0, token}
    /\ \A c \in Conns : phase[c] = "auth" => held[c] \in {0, token}
    /\ \A j \in Jobs : JobAt(j, "install") => job[j].token = token /\ token # 0

AdmittedInv == LinkTypeOK /\ OneToken /\ NeverDeletedIsAdmitted

\* The device has one open connection, which it has dialled.
OneLink == \A c, d \in link : c = d /\ phase[c] # "unused"

\* No version is ahead of the saved one.
Versions ==
  /\ runs <= stored
  /\ \A p \in Posts : post[p].version <= stored
  /\ \A c \in Conns : phase[c] = "push" => held[c] <= stored

\* A POST that will send the saved version over c.
Brings(p, c) ==
  \/ post[p].at = "saved"
  \/ post[p].at = "apply" /\ post[p].version = stored /\ c \in Target(p)

\* The device runs the saved version, or will be sent it, or was rolled back.
OnItsWay(c) == runs = stored \/ rolledBack \/ \E p \in Posts : Brings(p, c)

Reached ==
  \A c \in devices \cap link :
    /\ phase[c] = "serving" => OnItsWay(c)
    /\ phase[c] = "push" => held[c] = stored \/ OnItsWay(c)

ReachesInv == LinkTypeOK /\ OneLink /\ Versions /\ Reached

USE DEF database, deviceEnd, handlers, config, watcher

LEMMA LinkTypeInit == LinkInit => LinkTypeOK
<1> SUFFICES ASSUME LinkInit PROVE LinkTypeOK
  OBVIOUS
<1>1. /\ job \in [Jobs -> [at : {"idle", "mint", "install", "bounce"}, via : {"adb", "shell"},
                         token : Nat, live : SUBSET Conns]]
      /\ post \in [Posts -> [at : {"none", "saved", "apply", "done"}, kind : {"device", "fleet"},
                           version : Nat, live : SUBSET Conns]]
  BY DEF LinkInit, Idle, NoPost
<1>2. phase \in [Conns -> Running \cup {"unused", "closed", "dead"}]  BY DEF LinkInit
<1> QED  BY <1>1, <1>2 DEF LinkInit, LinkTypeOK

\* An event leaves the watcher's variables typed.
LEMMA TellType ==
  ASSUME LinkTypeOK, NEW b \in BOOLEAN, Tell(b)
  PROVE  said' \in BOOLEAN /\ view' \in {"absent", "gone", "shown"}
  BY DEF Tell, LinkTypeOK

\* So does a push the device's.
LEMMA SendType ==
  ASSUME LinkTypeOK, NEW v \in Nat, Send(v)
  PROVE  runs' \in Nat /\ rolledBack' \in BOOLEAN
  BY DEF Send, LinkTypeOK

\* Each step of a handler keeps the types.
LEMMA LinkTypeHandle == LinkTypeOK /\ (\E c \in Conns : Dial(c) \/ Handle(c)) => LinkTypeOK'
<1> SUFFICES ASSUME LinkTypeOK, NEW c \in Conns, Dial(c) \/ Handle(c) PROVE LinkTypeOK'
  OBVIOUS
<1> USE DEF LinkTypeOK, At, Holds, Running, Announced
<1>1. CASE Dial(c)  BY <1>1 DEF Dial
<1>2. CASE LinkAuth(c)  BY <1>2 DEF LinkAuth
<1>3. CASE Lookup(c)  BY <1>3 DEF Lookup
<1>4. CASE TurnAway(c)  BY <1>4 DEF TurnAway
<1>5. CASE Insert(c)  BY <1>5 DEF Insert
<1>6. CASE AutoApprove(c)  BY <1>6 DEF AutoApprove
<1>7. CASE Reread(c)  BY <1>7 DEF Reread
<1>8. CASE Register(c)  BY ZenonT(60), <1>8 DEF Register, Tell
<1>9. CASE RegisterDeleted(c)  BY <1>9 DEF RegisterDeleted
<1>10. CASE ReadConfig(c)  BY <1>10 DEF ReadConfig
<1>11. CASE PushConfig(c)
  <2>1. runs' \in Nat /\ rolledBack' \in BOOLEAN  BY <1>11, SendType DEF PushConfig
  <2>2. held' \in [Conns -> Nat] /\ phase' \in [Conns -> Running \cup {"unused", "closed", "dead"}]
    BY <1>11 DEF PushConfig
  <2> QED  BY <1>11, <2>1, <2>2 DEF PushConfig
<1>12. CASE CloseStale(c)  BY <1>12 DEF CloseStale
<1>13. CASE Leave(c)
  <2>1. CASE row = "none"  BY <1>13, <2>1 DEF Leave
  <2>2. CASE row # "none"
    <3>1. said' \in BOOLEAN /\ view' \in {"absent", "gone", "shown"}
      BY <1>13, <2>2, TellType DEF Leave
    <3>2. phase' \in [Conns -> Running \cup {"unused", "closed", "dead"}] /\ held' \in [Conns -> Nat]
      BY <1>13, <2>2 DEF Leave
    <3> QED  BY <1>13, <2>2, <3>1, <3>2 DEF Leave, Tell
  <2> QED  BY <2>1, <2>2
<1>14. CASE Pop(c)  BY <1>14 DEF Pop
<1> QED
  BY <1>1, <1>2, <1>3, <1>4, <1>5, <1>6, <1>7, <1>8, <1>9, <1>10, <1>11, <1>12, <1>13, <1>14
  DEF Handle

Job == [at : {"idle", "mint", "install", "bounce"}, via : {"adb", "shell"},
        token : Nat, live : SUBSET Conns]

LEMMA LinkTypeCredentials == LinkTypeOK /\ Credentials => LinkTypeOK'
<1> SUFFICES ASSUME LinkTypeOK, NEW j \in Jobs,
                    \/ Provision(j) \/ SecureLink(j) \/ MintToken(j)
                    \/ WizardInstalls(j) \/ Transfer(j) \/ InstallFails(j) \/ Bounce(j)
             PROVE  LinkTypeOK'
  BY DEF Credentials
<1>1. job \in [Jobs -> Job] /\ Idle \in Job  BY DEF LinkTypeOK, Job, Idle
<1>2. CASE Provision(j) \/ SecureLink(j)
  <2>1. job' \in [Jobs -> Job]  BY <1>1, <1>2 DEF Provision, SecureLink, EnsureToken, LinkTypeOK, Job
  <2> QED  BY <1>2, <2>1 DEF Provision, SecureLink, EnsureToken, LinkTypeOK, Job
<1>3. CASE MintToken(j)
  <2>1. token' \in Nat /\ minted' \in Nat  BY <1>3 DEF MintToken, LinkTypeOK
  <2>2. job' \in [Jobs -> Job]  BY <1>1, <1>3, <2>1 DEF MintToken, Job
  <2>3. reminted' \in BOOLEAN  BY <1>3 DEF MintToken, LinkTypeOK
  <2> QED  BY <1>3, <2>1, <2>2, <2>3 DEF MintToken, LinkTypeOK, Job
<1>4. CASE WizardInstalls(j) \/ InstallFails(j) \/ Bounce(j)
  <2>1. job' \in [Jobs -> Job]  BY <1>1, <1>4 DEF WizardInstalls, InstallFails, Bounce
  <2>2. disk' \in Nat /\ link' \in SUBSET Conns
    BY <1>4 DEF WizardInstalls, InstallFails, Bounce, LinkTypeOK
  <2> QED  BY <1>4, <2>1, <2>2 DEF WizardInstalls, InstallFails, Bounce, LinkTypeOK, Job
<1>5. CASE Transfer(j)
  <2>1. job' \in [Jobs -> Job]  BY <1>1, <1>5 DEF Transfer, Job
  <2>2. disk' \in Nat /\ refused' \in BOOLEAN  BY <1>5 DEF Transfer, LinkTypeOK
  <2> QED  BY <1>5, <2>1, <2>2 DEF Transfer, LinkTypeOK, Job
<1> QED  BY <1>2, <1>3, <1>4, <1>5

LEMMA LinkTypeConfigure == LinkTypeOK /\ Configure => LinkTypeOK'
<1> SUFFICES ASSUME LinkTypeOK, NEW p \in Posts, SaveConfig(p) \/ ReadSaved(p) \/ ApplyLiveConfig(p)
             PROVE  LinkTypeOK'
  BY DEF Configure
<1>1. CASE SaveConfig(p)
  <2>1. PICK kind \in {"device", "fleet"} : post' = [post EXCEPT ![p].at = "saved", ![p].kind = kind]
    BY <1>1 DEF SaveConfig
  <2> QED  BY <1>1, <2>1 DEF SaveConfig, LinkTypeOK
<1>2. CASE ReadSaved(p)
  <2>1. stored \in Nat /\ devices \in SUBSET Conns  BY DEF LinkTypeOK
  <2> DEFINE S == [at : {"none", "saved", "apply", "done"}, kind : {"device", "fleet"},
                   version : Nat, live : SUBSET Conns]
             new == [post[p] EXCEPT !.at = "apply", !.version = stored, !.live = devices]
  <2>3. post \in [Posts -> S]  BY DEF LinkTypeOK
  <2>4. new \in S  BY <2>1, <2>3
  <2>5. post' = [post EXCEPT ![p] = new]  BY <1>2, <2>3 DEF ReadSaved
  <2> HIDE DEF S, new
  <2>6. post' \in [Posts -> S]  BY <2>3, <2>4, <2>5
  <2>2. post' \in [Posts -> [at : {"none", "saved", "apply", "done"}, kind : {"device", "fleet"},
                            version : Nat, live : SUBSET Conns]]
    BY <2>6 DEF S
  <2> QED  BY <1>2, <2>2 DEF ReadSaved, LinkTypeOK
<1>3. CASE ApplyLiveConfig(p)
  <2>1. post[p].version \in Nat  BY DEF LinkTypeOK
  <2>2. runs' \in Nat /\ rolledBack' \in BOOLEAN
    BY <1>3, <2>1, SendType DEF ApplyLiveConfig, LinkTypeOK
  <2> QED  BY <1>3, <2>2 DEF ApplyLiveConfig, PostAt, LinkTypeOK
<1> QED  BY <1>1, <1>2, <1>3

LEMMA LinkTypeStep == LinkTypeOK /\ [LinkNext]_linkVars => LinkTypeOK'
<1> SUFFICES ASSUME LinkTypeOK, [LinkNext]_linkVars PROVE LinkTypeOK'
  OBVIOUS
<1>1. CASE \E c \in Conns : Dial(c) \/ Handle(c)  BY <1>1, LinkTypeHandle
<1>2. CASE Drop  BY <1>2 DEF Drop, LinkTypeOK
<1>3. CASE Admin
  <2>1. CASE PostApprove  BY <2>1 DEF PostApprove, LinkTypeOK
  <2>2. CASE DeleteDevice  BY <2>2 DEF DeleteDevice, LinkTypeOK
  <2> QED  BY <1>3, <2>1, <2>2 DEF Admin
<1>4. CASE Credentials  BY <1>4, LinkTypeCredentials
<1>5. CASE Ha
  <2>1. CASE HaConnect  BY <2>1 DEF HaConnect, Listed, LinkTypeOK
  <2>2. CASE HaDrop  BY <2>2 DEF HaDrop, LinkTypeOK
  <2>3. CASE PollAnswered  BY <2>3 DEF PollAnswered, Listed, LinkTypeOK
  <2>4. CASE MergePoll  BY <2>4 DEF MergePoll, LinkTypeOK
  <2> QED  BY <1>5, <2>1, <2>2, <2>3, <2>4 DEF Ha
<1>6. CASE UNCHANGED linkVars  BY <1>6 DEF linkVars, LinkTypeOK
<1>7. CASE Configure  BY <1>7, LinkTypeConfigure
<1> QED  BY <1>1, <1>2, <1>3, <1>4, <1>5, <1>6, <1>7 DEF LinkNext

\* The state keeps its types: _devices, the row, the tokens and every handler's
\* place in handle_control.
THEOREM DeviceLinkTypes == LinkSpec => []LinkTypeOK
  BY LinkTypeInit, LinkTypeStep, PTL DEF LinkSpec

---------------------------------------------------------------------------
LEMMA ShownInit == LinkInit => ShownInv
  BY LinkTypeInit DEF LinkInit, ShownInv, OneEntry, RowKept, RegisteredIsShown

LEMMA ShownHandle ==
  ASSUME ShownInv, LinkTypeOK', NEW c \in Conns, Dial(c) \/ Handle(c)
  PROVE  ShownInv'
<1> USE DEF ShownInv, LinkTypeOK, OneEntry, RowKept, RegisteredIsShown, At, Announced
<1>1. CASE Dial(c)  BY <1>1 DEF Dial
<1>2. CASE LinkAuth(c)  BY <1>2 DEF LinkAuth
<1>3. CASE Lookup(c)  BY <1>3 DEF Lookup
<1>4. CASE TurnAway(c)  BY <1>4 DEF TurnAway
<1>5. CASE Insert(c)  BY <1>5 DEF Insert
<1>6. CASE AutoApprove(c)  BY <1>6 DEF AutoApprove
<1>7. CASE Reread(c)  BY <1>7 DEF Reread
<1>8. CASE Register(c)  BY <1>8 DEF Register, Tell
<1>9. CASE RegisterDeleted(c)  BY <1>9 DEF RegisterDeleted
<1>10. CASE ReadConfig(c)  BY <1>10 DEF ReadConfig
<1>11. CASE PushConfig(c)  BY <1>11 DEF PushConfig
<1>12. CASE CloseStale(c)  BY <1>12 DEF CloseStale
\* Only the registered connection says "gone", and it is the only entry.
<1>13. CASE Leave(c)
  <2>1. OneEntry' /\ RowKept'
    <3>1. phase' \in {[phase EXCEPT ![c] = "dead"], [phase EXCEPT ![c] = "leaving"]}
      BY <1>13 DEF Leave
    <3>2. UNCHANGED <<devices, cut, row>>  BY <1>13 DEF Leave
    <3> QED  BY <3>1, <3>2
  <2>2. RegisteredIsShown'
    <3>1. CASE row = "none"  BY <1>13, <3>1 DEF Leave
    <3>2. CASE row # "none"
      <4>1. \A d \in devices' : d = c  BY <1>13 DEF Leave, Current
      <4>2. phase'[c] = "leaving"  BY <1>13, <3>2 DEF Leave
      <4> QED  BY <4>1, <4>2
    <3> QED  BY <3>1, <3>2
  <2> QED  BY <2>1, <2>2
<1>14. CASE Pop(c)  BY <1>14 DEF Pop
<1> QED
  BY <1>1, <1>2, <1>3, <1>4, <1>5, <1>6, <1>7, <1>8, <1>9, <1>10, <1>11, <1>12, <1>13, <1>14
  DEF Handle

LEMMA ShownStep == ShownInv /\ [LinkNext]_linkVars => ShownInv'
<1> SUFFICES ASSUME ShownInv, [LinkNext]_linkVars PROVE ShownInv'
  OBVIOUS
<1>0. LinkTypeOK'  BY LinkTypeStep DEF ShownInv
<1> USE DEF ShownInv, OneEntry, RowKept, RegisteredIsShown
<1>1. CASE \E c \in Conns : Dial(c) \/ Handle(c)  BY <1>0, <1>1, ShownHandle
<1>2. CASE Drop  BY <1>0, <1>2 DEF Drop
<1>3. CASE PostApprove  BY <1>0, <1>3 DEF PostApprove
\* A deletion puts every announced connection among those it cut.
<1>4. CASE DeleteDevice
  BY <1>0, <1>4 DEF DeleteDevice, Running, Announced, LinkTypeOK
<1>5. CASE Configure
  BY <1>0, <1>5 DEF Configure, SaveConfig, ReadSaved, ApplyLiveConfig
<1>6. CASE Credentials
  <2>1. row # "none" => row' # "none"
    BY <1>6 DEF Credentials, Provision, SecureLink, EnsureToken, MintToken, WizardInstalls, Transfer,
                InstallFails, Bounce
  <2>2. UNCHANGED <<devices, cut, phase, listening, said>>
    BY <1>6 DEF Credentials, Provision, SecureLink, EnsureToken, MintToken, WizardInstalls, Transfer,
                InstallFails, Bounce
  <2> QED  BY <1>0, <2>1, <2>2
\* A snapshot lists a device that has a row and an entry as connected.
<1>7. CASE HaConnect  BY <1>0, <1>7 DEF HaConnect, Listed
<1>8. CASE HaDrop \/ PollAnswered \/ MergePoll  BY <1>0, <1>8 DEF HaDrop, PollAnswered, MergePoll
<1>9. CASE UNCHANGED linkVars  BY <1>0, <1>9 DEF linkVars
<1> QED  BY <1>1, <1>2, <1>3, <1>4, <1>5, <1>6, <1>7, <1>8, <1>9 DEF LinkNext, Admin, Ha

\* Home Assistant is never left saying that a registered device is away: no late
\* teardown of an older connection reaches it after the newer one's announcement.
THEOREM RegisteredDevicesAreShown == LinkSpec => []RegisteredIsShown
<1>1. ShownInv => RegisteredIsShown  BY DEF ShownInv
<1> QED  BY <1>1, ShownInit, ShownStep, PTL DEF LinkSpec

---------------------------------------------------------------------------
LEMMA AdmittedInit == LinkInit => AdmittedInv
  BY LinkTypeInit DEF LinkInit, AdmittedInv, OneToken, NeverDeletedIsAdmitted, JobAt, Idle

LEMMA AdmittedHandle ==
  ASSUME AdmittedInv, LinkTypeOK', NEW c \in Conns, Dial(c) \/ Handle(c)
  PROVE  AdmittedInv'
<1> USE DEF AdmittedInv, LinkTypeOK, OneToken, NeverDeletedIsAdmitted, JobAt, At, Holds
<1>1. CASE Dial(c)  BY <1>1 DEF Dial
\* The token a dial carries is none or the one on record: both are let in.
<1>2. CASE LinkAuth(c)  BY <1>2 DEF LinkAuth, Decide
<1>3. CASE Lookup(c) \/ TurnAway(c) \/ Reread(c)  BY <1>3 DEF Lookup, TurnAway, Reread
<1>4. CASE Insert(c) \/ AutoApprove(c)  BY <1>4 DEF Insert, AutoApprove
<1>5. CASE RegisterDeleted(c)  BY <1>5 DEF RegisterDeleted
<1>6. CASE ReadConfig(c) \/ PushConfig(c)  BY <1>6 DEF ReadConfig, PushConfig
\* Later steps leave the dials and the tokens alone.
<1>7. ASSUME UNCHANGED <<database, disk, job, refused>>,
             \A d \in Conns : phase'[d] = "auth" => phase[d] = "auth" /\ held'[d] = held[d]
      PROVE  AdmittedInv'
  BY <1>7
<1>8. CASE Register(c)  BY <1>7, <1>8 DEF Register
<1>9. CASE CloseStale(c)  BY <1>7, <1>9 DEF CloseStale
<1>10. CASE Leave(c)
  <2>1. phase' \in {[phase EXCEPT ![c] = "dead"], [phase EXCEPT ![c] = "leaving"]} /\ held' = [held EXCEPT ![c] = 0]
    BY <1>10 DEF Leave
  <2> QED  BY <1>7, <1>10, <2>1 DEF Leave
<1>11. CASE Pop(c)  BY <1>7, <1>11 DEF Pop
<1> QED  BY <1>1, <1>2, <1>3, <1>4, <1>5, <1>6, <1>8, <1>9, <1>10, <1>11 DEF Handle

\* A mint that finds no token on record finds no copy of one anywhere either.
LEMMA AdmittedCredentials == AdmittedInv /\ LinkTypeOK' /\ Credentials => AdmittedInv'
<1> SUFFICES ASSUME AdmittedInv, LinkTypeOK', NEW j \in Jobs,
                    \/ Provision(j) \/ SecureLink(j) \/ MintToken(j)
                    \/ WizardInstalls(j) \/ Transfer(j) \/ InstallFails(j) \/ Bounce(j)
             PROVE  AdmittedInv'
  BY DEF Credentials
<1> USE DEF AdmittedInv, OneToken, NeverDeletedIsAdmitted, JobAt
<1>0. DOMAIN job = Jobs /\ \A k \in Jobs : DOMAIN job[k] = {"at", "via", "token", "live"}
  BY DEF LinkTypeOK
<1>1. CASE Provision(j) \/ SecureLink(j)
  BY <1>0, <1>1 DEF Provision, SecureLink, EnsureToken
<1>2. CASE MintToken(j)
  <2>1. token' = minted + 1 /\ minted \in Nat  BY <1>2 DEF MintToken, LinkTypeOK
  <2>2. token' # 0  BY <2>1
  <2>3. CASE ~deleted' /\ ~reminted'
    <3>1. token = 0 /\ ~deleted /\ ~reminted  BY <1>2, <2>3 DEF MintToken
    <3>2. \A k \in Jobs : job[k].at # "install"  BY <3>1
    <3>3. \A k \in Jobs \ {j} : job'[k] = job[k]  BY <1>0, <1>2 DEF MintToken
    <3>4. job'[j].token = token'  BY <1>0, <1>2 DEF MintToken
    <3>5. disk' = 0 /\ \A c \in Conns : phase'[c] = "auth" => held'[c] = 0
      BY <1>2, <3>1 DEF MintToken
    <3>6. ~RequireTls => ~refused'  BY <1>2, <3>1 DEF MintToken
    <3> QED  BY <2>2, <3>2, <3>3, <3>4, <3>5, <3>6
  <2> QED  BY <2>3
<1>3. CASE WizardInstalls(j)  BY <1>0, <1>3 DEF WizardInstalls, Idle
<1>4. CASE Transfer(j)
  <2>1. \A k \in Jobs : job'[k].at = "install" => job[k].at = "install" /\ job'[k] = job[k]
    BY <1>0, <1>4 DEF Transfer, Idle
  <2> QED  BY <1>4, <2>1 DEF Transfer, Decide, LinkTypeOK
<1>5. CASE InstallFails(j) \/ Bounce(j)  BY <1>0, <1>5 DEF InstallFails, Bounce, Idle
<1> QED  BY <1>1, <1>2, <1>3, <1>4, <1>5

LEMMA AdmittedStep == AdmittedInv /\ [LinkNext]_linkVars => AdmittedInv'
<1> SUFFICES ASSUME AdmittedInv, [LinkNext]_linkVars PROVE AdmittedInv'
  OBVIOUS
<1>0. LinkTypeOK'  BY LinkTypeStep DEF AdmittedInv
<1> USE DEF AdmittedInv, OneToken, NeverDeletedIsAdmitted, JobAt
<1>1. CASE \E c \in Conns : Dial(c) \/ Handle(c)  BY <1>0, <1>1, AdmittedHandle
<1>2. CASE Drop  BY <1>0, <1>2 DEF Drop
<1>3. CASE Admin  BY <1>0, <1>3 DEF Admin, PostApprove, DeleteDevice
<1>4. CASE Credentials  BY <1>0, <1>4, AdmittedCredentials
<1>5. CASE Ha  BY <1>0, <1>5 DEF Ha, HaConnect, HaDrop, PollAnswered, MergePoll
<1>6. CASE UNCHANGED linkVars  BY <1>0, <1>6 DEF linkVars
<1>7. CASE Configure  BY <1>0, <1>7 DEF Configure, SaveConfig, ReadSaved, ApplyLiveConfig
<1> QED  BY <1>1, <1>2, <1>3, <1>4, <1>5, <1>6, <1>7 DEF LinkNext

\* However many installs read, mint, transfer and bounce while the device redials, one
\* whose row was never deleted is never refused, unless a mint wrote over another
\* (ensure_device_token's read and write are two steps).
THEOREM NeverDeletedDevicesAreAdmitted == LinkSpec => []NeverDeletedIsAdmitted
<1>1. AdmittedInv => NeverDeletedIsAdmitted  BY DEF AdmittedInv
<1> QED  BY <1>1, AdmittedInit, AdmittedStep, PTL DEF LinkSpec
---------------------------------------------------------------------------
LEMMA ReachesInit == LinkInit => ReachesInv
  BY LinkTypeInit DEF LinkInit, ReachesInv, OneLink, Versions, Reached, NoPost

\* A push of any version but the saved one, once the device ran it, is a rollback.
LEMMA SendReaches ==
  ASSUME NEW v \in Nat, stored \in Nat, runs \in Nat, v <= stored, runs <= stored, Send(v)
  PROVE  /\ runs' = v
         /\ v = stored \/ (runs = stored \/ rolledBack => rolledBack')
<1>1. CASE v = stored  BY <1>1 DEF Send
<1>2. CASE v # stored
  <2>1. v < stored  BY <1>2
  <2>2. runs = stored => v < runs  BY <2>1
  <2> QED  BY Zenon, <2>1, <2>2 DEF Send
<1> QED  BY <1>1, <1>2

\* Steps that leave the POSTs and the versions alone.
LEMMA ReachesFrame ==
  ASSUME ReachesInv, LinkTypeOK', UNCHANGED <<stored, runs, rolledBack, post>>,
         OneLink', link' \subseteq link, devices' = devices \/ devices' = {},
         \A c \in Conns : /\ phase'[c] = "push" => phase[c] = "push" /\ held'[c] = held[c]
                          /\ phase'[c] = "serving" => phase[c] = "serving"
  PROVE  ReachesInv'
<1>1. Versions'  BY DEF ReachesInv, Versions
<1>2. CASE devices' = {}  BY <1>1, <1>2 DEF ReachesInv, Reached
<1>3. CASE devices' = devices
  <2>1. \A c \in Conns : OnItsWay(c) => OnItsWay(c)'  BY <1>3 DEF OnItsWay, Brings, Target
  <2>2. devices' \subseteq Conns  BY DEF LinkTypeOK
  <2>3. Reached'  BY <1>3, <2>1, <2>2 DEF ReachesInv, Reached
  <2> QED  BY <1>1, <2>3 DEF ReachesInv
<1> QED  BY <1>2, <1>3

LEMMA ReachesHandle ==
  ASSUME ReachesInv, LinkTypeOK', NEW c \in Conns, Dial(c) \/ Handle(c)
  PROVE  ReachesInv'
<1> USE DEF At, Holds
<1>0. phase \in [Conns -> Running \cup {"unused", "closed", "dead"}] /\ held \in [Conns -> Nat]
      /\ link \subseteq Conns /\ devices \subseteq Conns /\ stored \in Nat /\ runs \in Nat
  BY DEF ReachesInv, LinkTypeOK
<1>00. OneLink  BY DEF ReachesInv
<1>1. CASE Dial(c)
  <2>1. OneLink'  BY <1>0, <1>1 DEF Dial, OneLink
  <2> QED  BY <1>0, <1>1, <2>1 DEF Dial, ReachesInv, Versions, Reached, OnItsWay, Brings, Target
<1>2. CASE LinkAuth(c)  BY <1>0, <1>00, <1>2, ReachesFrame DEF LinkAuth, OneLink
<1>3. CASE Lookup(c)  BY <1>0, <1>00, <1>3, ReachesFrame DEF Lookup, OneLink
<1>4. CASE TurnAway(c)  BY <1>0, <1>00, <1>4, ReachesFrame DEF TurnAway, OneLink
<1>5. CASE Insert(c)  BY <1>0, <1>00, <1>5, ReachesFrame DEF Insert, OneLink
<1>6. CASE AutoApprove(c)  BY <1>0, <1>00, <1>6, ReachesFrame DEF AutoApprove, OneLink
<1>7. CASE Reread(c)  BY <1>0, <1>00, <1>7, ReachesFrame DEF Reread, OneLink
<1>8. CASE Register(c)
  BY <1>0, <1>00, <1>8 DEF Register, ReachesInv, OneLink, Versions, Reached
<1>9. CASE RegisterDeleted(c)
  BY <1>0, <1>00, <1>9 DEF RegisterDeleted, ReachesInv, OneLink, Versions, Reached
<1>10. CASE ReadConfig(c)
  <2>1. OneLink'  BY <1>0, <1>00, <1>10 DEF ReadConfig, OneLink
  <2>2. Versions'  BY <1>0, <1>10 DEF ReadConfig, ReachesInv, Versions
  <2>3. \A d \in Conns : OnItsWay(d) => OnItsWay(d)'  BY <1>10 DEF ReadConfig, OnItsWay, Brings, Target
  <2>4. Reached'  BY <1>0, <1>10, <2>3 DEF ReadConfig, ReachesInv, Reached
  <2> QED  BY <2>1, <2>2, <2>4 DEF ReachesInv
\* A push over a connection that is gone reaches nobody; one that arrives makes
\* the device run what this handler has read.
<1>11. CASE PushConfig(c)
  <2>1. OneLink'  BY <1>0, <1>00, <1>11 DEF PushConfig, OneLink
  <2>2. held[c] \in Nat /\ held[c] <= stored /\ runs <= stored
    BY <1>0, <1>11 DEF PushConfig, ReachesInv, Versions
  <2>3. UNCHANGED <<stored, post, devices, link>>  BY <1>11 DEF PushConfig
  <2>4. CASE c \in link
    <3>1. \A d \in link : d = c  BY <1>00, <2>4 DEF OneLink
    <3>2. Send(held[c])  BY <1>11, <2>4 DEF PushConfig
    <3>3. runs' = held[c] /\ (held[c] = stored \/ (runs = stored \/ rolledBack => rolledBack'))
      BY <1>0, <2>2, <3>2, SendReaches
    <3>4. Versions'  BY <1>0, <1>11, <2>2, <2>3, <3>3 DEF PushConfig, ReachesInv, Versions
    <3>5. c \in devices => held[c] = stored \/ OnItsWay(c)
      BY <1>11, <2>4 DEF PushConfig, ReachesInv, Reached
    <3>6. c \in devices => OnItsWay(c)'
      BY <2>3, <3>3, <3>5 DEF OnItsWay, Brings, Target
    <3>7. phase'[c] = "serving"  BY <1>0, <1>11 DEF PushConfig
    <3>8. Reached'  BY <2>3, <3>1, <3>6, <3>7 DEF Reached
    <3> QED  BY <2>1, <3>4, <3>8 DEF ReachesInv
  <2>5. CASE c \notin link
    <3>1. UNCHANGED <<runs, rolledBack>>  BY <1>11, <2>5 DEF PushConfig
    <3>2. Versions'  BY <1>0, <1>11, <2>3, <3>1 DEF PushConfig, ReachesInv, Versions
    <3>3. \A d \in Conns : OnItsWay(d) => OnItsWay(d)'  BY <2>3, <3>1 DEF OnItsWay, Brings, Target
    <3>4. Reached'  BY <1>0, <1>11, <2>3, <2>5, <3>3 DEF PushConfig, ReachesInv, Reached
    <3> QED  BY <2>1, <3>2, <3>4 DEF ReachesInv
  <2> QED  BY <2>4, <2>5
<1>12. CASE CloseStale(c)  BY <1>0, <1>00, <1>12, ReachesFrame DEF CloseStale, OneLink
<1>13. CASE Leave(c)
  <2>1. phase' \in {[phase EXCEPT ![c] = "dead"], [phase EXCEPT ![c] = "leaving"]}
    BY <1>13 DEF Leave
  <2>2. OneLink'  BY <1>0, <1>00, <1>13, <2>1 DEF Leave, OneLink
  <2> QED  BY <1>0, <1>13, <2>1, <2>2, ReachesFrame DEF Leave
<1>14. CASE Pop(c)  BY <1>0, <1>00, <1>14, ReachesFrame DEF Pop, OneLink
<1> QED
  BY <1>1, <1>2, <1>3, <1>4, <1>5, <1>6, <1>7, <1>8, <1>9, <1>10, <1>11, <1>12, <1>13, <1>14
  DEF Handle

\* What a POST has saved it will read, and push to the connection it then finds or
\* has listed.
LEMMA ReachesConfigure ==
  ASSUME ReachesInv, LinkTypeOK', NEW p \in Posts,
         SaveConfig(p) \/ ReadSaved(p) \/ ApplyLiveConfig(p)
  PROVE  ReachesInv'
<1>0. /\ stored \in Nat /\ runs \in Nat /\ DOMAIN post = Posts
      /\ \A q \in Posts : /\ DOMAIN post[q] = {"at", "kind", "version", "live"}
                          /\ post[q].version \in Nat
  BY DEF ReachesInv, LinkTypeOK
<1>1. UNCHANGED <<phase, held, devices, link>>
  BY DEF SaveConfig, ReadSaved, ApplyLiveConfig
<1>2. OneLink'  BY <1>1 DEF ReachesInv, OneLink
<1>3. \A q \in Posts \ {p} : post'[q] = post[q]
  BY <1>0 DEF SaveConfig, ReadSaved, ApplyLiveConfig, PostAt
<1>4. CASE SaveConfig(p)
  <2>1. post'[p].at = "saved" /\ post'[p].version = post[p].version  BY <1>0, <1>4 DEF SaveConfig
  <2>2. stored' = stored + 1 /\ runs' = runs  BY <1>4 DEF SaveConfig
  <2>3. Versions'
    <3>1. \A v \in Nat : v <= stored => v <= stored'  BY <1>0, <2>2
    <3>2. held \in [Conns -> Nat]  BY DEF ReachesInv, LinkTypeOK
    <3> QED  BY <1>0, <1>1, <1>3, <2>1, <2>2, <3>1, <3>2 DEF ReachesInv, Versions
  <2>4. \A c : OnItsWay(c)'  BY <2>1 DEF OnItsWay, Brings
  <2> QED  BY <1>2, <2>3, <2>4 DEF ReachesInv, Reached
<1>5. CASE ReadSaved(p)
  <2>1. /\ post'[p].at = "apply" /\ post'[p].version = stored /\ post'[p].live = devices
        /\ UNCHANGED <<stored, runs, rolledBack>>
    BY <1>0, <1>5 DEF ReadSaved
  <2>2. Versions'  BY <1>0, <1>1, <1>3, <2>1 DEF ReachesInv, Versions
  <2>3. \A c \in devices : Brings(p, c)'  BY <1>1, <2>1 DEF Brings, Target
  <2>4. \A c \in devices : OnItsWay(c) => OnItsWay(c)'
    BY <1>1, <1>3, <2>1, <2>3 DEF OnItsWay, Brings, Target
  <2>5. Reached'  BY <1>1, <2>1, <2>4 DEF ReachesInv, Reached
  <2> QED  BY <1>2, <2>2, <2>5 DEF ReachesInv
<1>6. CASE ApplyLiveConfig(p)
  <2> DEFINE v == post[p].version
  <2>1. post[p].at = "apply" /\ stored' = stored /\ v \in Nat /\ v <= stored /\ runs <= stored
    BY <1>0, <1>6 DEF ApplyLiveConfig, ReachesInv, Versions
  <2>2. \A q \in Posts : post'[q].version = post[q].version
    BY <1>0, <1>3, <1>6 DEF ApplyLiveConfig, PostAt
  <2>3. \A q \in Posts \ {p}, c \in Conns : Brings(q, c) => Brings(q, c)'
    BY <1>1, <1>3, <2>1 DEF Brings, Target
  <2>4. CASE link \cap Target(p) # {}
    <3>1. Send(v)  BY <1>6, <2>4 DEF ApplyLiveConfig
    <3>2. runs' = v /\ (v = stored \/ (runs = stored \/ rolledBack => rolledBack'))
      BY <1>0, <2>1, <3>1, SendReaches
    <3>3. Versions'  BY <1>1, <2>1, <2>2, <3>2 DEF ReachesInv, Versions
    <3>4. v # stored => \A c \in Conns : ~Brings(p, c)  BY <2>1 DEF Brings
    <3>5. \A c \in Conns : OnItsWay(c) => OnItsWay(c)'
      BY <2>1, <2>3, <3>2, <3>4 DEF OnItsWay
    <3> QED  BY <1>1, <1>2, <2>1, <3>3, <3>5 DEF ReachesInv, Reached, LinkTypeOK
  <2>5. CASE link \cap Target(p) = {}
    <3>1. UNCHANGED <<runs, rolledBack>>  BY <1>6, <2>5 DEF ApplyLiveConfig
    <3>2. Versions'  BY <1>1, <2>1, <2>2, <3>1 DEF ReachesInv, Versions
    <3>3. \A c \in link : ~Brings(p, c)  BY <2>1, <2>5 DEF Brings
    <3>4. \A c \in Conns \cap link : OnItsWay(c) => OnItsWay(c)'
      BY <2>1, <2>3, <3>1, <3>3 DEF OnItsWay
    <3> QED  BY <1>1, <1>2, <2>1, <3>2, <3>4 DEF ReachesInv, Reached, LinkTypeOK
  <2> QED  BY <2>4, <2>5
<1> QED  BY <1>4, <1>5, <1>6

LEMMA ReachesStep == ReachesInv /\ [LinkNext]_linkVars => ReachesInv'
<1> SUFFICES ASSUME ReachesInv, [LinkNext]_linkVars PROVE ReachesInv'
  OBVIOUS
<1>0. LinkTypeOK' /\ OneLink  BY LinkTypeStep DEF ReachesInv
<1>1. CASE \E c \in Conns : Dial(c) \/ Handle(c)  BY <1>0, <1>1, ReachesHandle
<1>2. CASE Configure  BY <1>0, <1>2, ReachesConfigure DEF Configure
\* Everything else takes connections away at most.
<1>3. ASSUME UNCHANGED <<phase, held, devices, stored, runs, rolledBack, post>>, link' \subseteq link
      PROVE  ReachesInv'
  BY <1>0, <1>3, ReachesFrame DEF OneLink
<1>4. CASE Drop  BY <1>3, <1>4 DEF Drop
<1>5. CASE Admin  BY <1>3, <1>5 DEF Admin, PostApprove, DeleteDevice
<1>6. CASE Credentials
  BY <1>3, <1>6 DEF Credentials, Provision, SecureLink, EnsureToken, MintToken, WizardInstalls,
                    Transfer, InstallFails, Bounce
<1>7. CASE Ha  BY <1>3, <1>7 DEF Ha, HaConnect, HaDrop, PollAnswered, MergePoll
<1>8. CASE UNCHANGED linkVars  BY <1>3, <1>8 DEF linkVars
<1> QED  BY <1>1, <1>2, <1>4, <1>5, <1>6, <1>7, <1>8 DEF LinkNext

\* However the saves, reads and pushes of any number of POSTs and registrations fall,
\* the registered connection runs the saved configuration once no POST is under way,
\* unless an older one was pushed over a newer.
THEOREM SavedConfigReaches == LinkSpec => []ConfigReaches
<1>1. ReachesInv => ConfigReaches
  BY DEF ReachesInv, Reached, OnItsWay, Brings, ConfigReaches, Posting
<1> QED  BY <1>1, ReachesInit, ReachesStep, PTL DEF LinkSpec

-----------------------------------------------------------------------------
(***************************************************************************)
(* The wake model of the device (WakeModels).  ReadyInv: the last report of *)
(* the device is about what it scores, and what was sent and not noted yet *)
(* is still to be answered.  FollowInv: while the device is on another     *)
(* model than the configured one, some task will see to it.                *)
(***************************************************************************)
Fields == {"kind", "at", "model", "seen", "scope", "stale", "push", "prune"}
TaskShape == DOMAIN task = W!Tasks /\ \A t \in W!Tasks : DOMAIN task[t] = Fields

LEMMA ShapeInit == W!Init => TaskShape
  BY DEF W!Init, TaskShape, Fields, W!NoTask

LEMMA StartShape == \A t, k, a, m : /\ DOMAIN W!Start(t, k, a, m) = Fields
                                    /\ W!Start(t, k, a, m).kind = k /\ W!Start(t, k, a, m).at = a
                                    /\ W!Start(t, k, a, m).model = m /\ ~W!Start(t, k, a, m).stale
  BY DEF W!Start, W!NoTask, Fields

LEMMA LostShape ==
  ASSUME NEW t, DOMAIN task[t] = Fields
  PROVE  /\ DOMAIN W!Lost(t) = Fields
         /\ W!Lost(t).kind = task[t].kind /\ W!Lost(t).at = task[t].at /\ W!Lost(t).stale = TRUE
         /\ W!Lost(t).model = task[t].model /\ W!Lost(t).seen = W!LastSeen(t)
  <1> DEFINE v == W!LastSeen(t)
  <1>1. W!Lost(t) = [task[t] EXCEPT !.stale = TRUE, !.seen = v] BY DEF W!Lost
  <1> HIDE DEF v
  <1>2. DOMAIN W!Lost(t) = Fields /\ W!Lost(t).kind = task[t].kind /\ W!Lost(t).at = task[t].at
    BY <1>1 DEF Fields
  <1>3. W!Lost(t).model = task[t].model /\ W!Lost(t).stale = TRUE BY <1>1 DEF Fields
  <1>4. W!Lost(t).seen = v BY <1>1 DEF Fields
  <1> QED BY <1>2, <1>3, <1>4 DEF v

LEMMA ShapeStep == TaskShape /\ [W!Next]_W!vars => TaskShape'
  <1> SUFFICES ASSUME TaskShape, [W!Next]_W!vars PROVE TaskShape' OBVIOUS
  <1>0. DOMAIN task = W!Tasks /\ \A t \in W!Tasks : DOMAIN task[t] = Fields BY DEF TaskShape
  <1>1. ASSUME UNCHANGED task PROVE TaskShape' BY <1>1 DEF TaskShape
  <1>2. \A t \in W!Tasks : \A x : DOMAIN x = Fields /\ task' = [task EXCEPT ![t] = x] => TaskShape'
    BY <1>0 DEF TaskShape
  <1>3. ASSUME NEW t \in W!Tasks, NEW a, W!Goto(t, a) PROVE TaskShape'
    BY <1>0, <1>3 DEF TaskShape, W!Goto
  <1>4. ASSUME NEW t \in W!Tasks, NEW m \in Models, W!PostFleet(t, m) PROVE TaskShape'
    <2> DEFINE x == W!Start(t, "fleet", IF connected THEN "read" ELSE "end", m)
    <2>1. task' = [task EXCEPT ![t] = x] BY <1>4 DEF W!PostFleet
    <2>2. DOMAIN x = Fields BY StartShape
    <2> HIDE DEF x
    <2> QED BY <1>2, <2>1, <2>2
  <1>5. ASSUME NEW t \in W!Tasks, NEW m \in Models, NEW z \in W!Scopes, W!PostDevice(t, m, z) PROVE TaskShape'
    <2>1. PICK v : task' = [task EXCEPT ![t] = [W!Start(t, "device", "write", m) EXCEPT !.scope = v]]
      BY <1>5 DEF W!PostDevice
    <2> DEFINE x == [W!Start(t, "device", "write", m) EXCEPT !.scope = v]
    <2>2. DOMAIN x = Fields BY StartShape
    <2>3. task' = [task EXCEPT ![t] = x] BY <2>1
    <2> HIDE DEF x
    <2> QED BY <1>2, <2>2, <2>3
  <1>6. ASSUME NEW t \in W!Tasks, W!UploadStop(t) PROVE TaskShape'
    <2> DEFINE x == W!Start(t, "fleet", IF connected THEN "read" ELSE "end", fleet)
    <2>1. task' = [task EXCEPT ![t] = x] BY <1>6 DEF W!UploadStop, W!PostFleet
    <2>2. DOMAIN x = Fields BY StartShape
    <2> HIDE DEF x
    <2> QED BY <1>2, <2>1, <2>2
  <1>7. ASSUME NEW t \in W!Tasks, W!Register(t) PROVE TaskShape'
    <2> DEFINE x == W!Start(t, "register", "read", NoModel)
    <2>1. task' = [task EXCEPT ![t] = x] BY <1>7 DEF W!Register
    <2>2. DOMAIN x = Fields BY StartShape
    <2> HIDE DEF x
    <2> QED BY <1>2, <2>1, <2>2
  <1>8. ASSUME NEW t \in W!Tasks, W!TaskStep(t) PROVE TaskShape'
    <2>1. CASE W!WriteDevice(t) BY <1>3, <2>1 DEF W!WriteDevice
    <2>2. CASE W!ReadEffective(t) BY <1>0, <2>2 DEF W!ReadEffective, TaskShape
    <2>3. CASE W!Apply(t)
      <3>1. (\E a : W!Goto(t, a)) \/ task' = [task EXCEPT ![t].at = "sent", ![t].seen = live, ![t].stale = FALSE]
        BY <2>3 DEF W!Apply
      <3>2. CASE task' = [task EXCEPT ![t].at = "sent", ![t].seen = live, ![t].stale = FALSE]
        BY <1>0, <3>2 DEF TaskShape, Fields
      <3> QED BY <1>3, <3>1, <3>2
    <2>4. CASE W!RegisterPush(t)
      <3>1. \E a : W!Goto(t, a) BY <2>4 DEF W!RegisterPush
      <3> QED BY <1>3, <3>1
    <2>5. CASE W!Resume(t)
      <3>1. \/ W!Goto(t, "end")
            \/ \E i \in W!Tasks : \E k, m : task' = [task EXCEPT ![t].at = "end", ![i] = W!Start(i, k, "plan", m)]
        BY <2>5 DEF W!Resume
      <3>2. ASSUME NEW i \in W!Tasks, NEW k, NEW m,
                   task' = [task EXCEPT ![t].at = "end", ![i] = W!Start(i, k, "plan", m)]
            PROVE  TaskShape'
        BY <1>0, <3>2, StartShape DEF TaskShape
      <3> QED BY <1>3, <3>1, <3>2
    <2>6. CASE W!Plan(t)
      <3>1. CASE ~connected \/ (task[t].stale /\ task[t].kind = "repair")
        <4>1. W!Goto(t, "end") BY <2>6, <3>1 DEF W!Plan
        <4> QED BY <1>3, <4>1
      <3>2. CASE ~(~connected \/ (task[t].stale /\ task[t].kind = "repair"))
        <4> DEFINE x == W!ToPush(W!Effective)
                   y == W!ToPrune(W!Effective)
                   a == IF task[t].kind = "repair" /\ x = {} THEN "end"
                        ELSE IF x \cup y = {} THEN "done" ELSE "sync"
        <4>1. task' = [task EXCEPT ![t].push = x, ![t].prune = y, ![t].stale = FALSE, ![t].at = a]
          BY <2>6, <3>2 DEF W!Plan
        <4> HIDE DEF x, y, a
        <4> QED BY <1>0, <4>1 DEF TaskShape
      <3> QED BY <3>1, <3>2
    <2>7. CASE W!Synced(t) \/ W!SyncFails(t) \/ W!Repaired(t)
      BY <1>3, <2>7 DEF W!Synced, W!SyncFails, W!Repaired
    <2>8. CASE W!Installed(t) BY <1>0, <2>8 DEF W!Installed, TaskShape
    <2>9. CASE W!Switch(t)
      <3>1. \E a : W!Goto(t, a) BY <2>9 DEF W!Switch
      <3> QED BY <1>3, <3>1
    <2> QED BY <1>8, <2>1, <2>2, <2>3, <2>4, <2>5, <2>6, <2>7, <2>8, <2>9 DEF W!TaskStep
  <1>9. CASE W!Disconnect
    <2>1. task' = [t \in W!Tasks |-> W!Lost(t)] BY <1>9 DEF W!Disconnect
    <2>2. DOMAIN task' = W!Tasks BY <2>1
    <2>3. ASSUME NEW t \in W!Tasks PROVE DOMAIN task'[t] = Fields
      <3>1. task'[t] = W!Lost(t) BY <2>1, <2>3
      <3> QED BY <1>0, <3>1, LostShape
    <2> QED BY <2>2, <2>3 DEF TaskShape
  <1>10. ASSUME NEW m \in Models, W!Upload(m) \/ W!DeleteModel(m) PROVE TaskShape'
    BY <1>1, <1>10 DEF W!Upload, W!DeleteModel
  <1>11. CASE W!DeviceApplies \/ W!WakeStatus BY <1>1, <1>11 DEF W!DeviceApplies, W!WakeStatus
  <1>12. CASE UNCHANGED W!vars BY <1>1, <1>12 DEF W!vars
  <1> QED BY <1>4, <1>5, <1>6, <1>7, <1>8, <1>9, <1>10, <1>11, <1>12 DEF W!Next

---------------------------------------------------------------------------
\* The device's last report is about what it scores; the messages either way are
\* sequences (of whatever).
LastReport ==
    /\ \E S : down \in Seq(S)
    /\ \E S : up \in Seq(S)
    /\ up # <<>> /\ up[Len(up)].ok => scorer = up[Len(up)].model

\* A push that was sent and has not been noted yet is still to be answered, unless a
\* report crossed it; with the connection gone nothing holds it any more.
Sent(t) == W!At(t, "sent") /\ ~task[t].stale
SentUnanswered == ~crossed => \A t \in W!Tasks : Sent(t) => down # <<>> \/ up # <<>>
GoneIsStale ==
    ~connected => \A t \in W!Tasks : task[t].kind = "register" \/ task[t].at \in {"switch", "sent"} => task[t].stale

ReadyInv == TaskShape /\ LastReport /\ SentUnanswered /\ GoneIsStale /\ W!ReadyIsReal

LEMMA SendsOne ==
  ASSUME NEW q, \E S : q \in Seq(S), NEW e
  PROVE  /\ \E S : Append(q, e) \in Seq(S)
         /\ Append(q, e) # <<>> /\ Append(q, e)[Len(Append(q, e))] = e
  <1>1. PICK S : q \in Seq(S) OBVIOUS
  <1> DEFINE T == S \cup {e}
  <1>2. q \in Seq(T) BY <1>1
  <1>3. Append(q, e) \in Seq(T) BY <1>2
  <1>4. Len(Append(q, e)) = Len(q) + 1 /\ Len(q) \in Nat BY <1>1
  <1>5. Append(q, e)[Len(q) + 1] = e BY <1>1
  <1>6. Append(q, e) # <<>> BY <1>4
  <1> QED BY <1>3, <1>4, <1>5, <1>6

LEMMA TakesOne ==
  ASSUME NEW q, \E S : q \in Seq(S), q # <<>>
  PROVE  /\ \E S : Tail(q) \in Seq(S)
         /\ Tail(q) = <<>> => Head(q) = q[Len(q)]
         /\ Tail(q) # <<>> => Tail(q)[Len(Tail(q))] = q[Len(q)]
  <1>1. PICK S : q \in Seq(S) OBVIOUS
  <1>2. Tail(q) \in Seq(S) /\ Len(Tail(q)) = Len(q) - 1 /\ Len(q) \in Nat /\ Len(q) > 0 BY <1>1
  <1>3. \A i \in 1..Len(Tail(q)) : Tail(q)[i] = q[i + 1] BY <1>1
  <1>4. CASE Tail(q) = <<>>
    <2>1. Len(q) = 1 BY <1>2, <1>4
    <2> QED BY <1>1, <1>2, <1>4, <2>1
  <1>5. CASE Tail(q) # <<>>
    <2>1. Len(Tail(q)) # 0 BY <1>2, <1>5
    <2>2. Len(Tail(q)) \in 1..Len(Tail(q)) BY <1>2, <2>1
    <2> QED BY <1>2, <1>3, <1>5, <2>2
  <1> QED BY <1>4, <1>5

LEMMA ReadyInit == W!Init => ReadyInv
  <1> SUFFICES ASSUME W!Init PROVE ReadyInv OBVIOUS
  <1>1. down \in Seq({}) /\ up \in Seq({}) /\ down = <<>> /\ up = <<>> BY DEF W!Init
  <1>2. scorer = live /\ connected BY DEF W!Init
  <1>3. \A t \in W!Tasks : task[t].at = "none" BY DEF W!Init, W!NoTask
  <1> QED BY <1>1, <1>2, <1>3, ShapeInit
          DEF ReadyInv, LastReport, SentUnanswered, GoneIsStale, Sent, W!At, W!ReadyIsReal

\* A step of a task that tells the device nothing and does not leave it in a send.
LEMMA ReadyFrame ==
  ASSUME ReadyInv, TaskShape', GoneIsStale', UNCHANGED <<down, up, scorer, live, crossed>>,
         connected' => connected, ready' => ready, \A t \in W!Tasks : Sent(t)' => Sent(t)
  PROVE  ReadyInv'
  <1>1. LastReport' BY DEF ReadyInv, LastReport
  <1>2. SentUnanswered' BY DEF ReadyInv, SentUnanswered
  <1>3. W!ReadyIsReal' BY DEF ReadyInv, W!ReadyIsReal
  <1> QED BY <1>1, <1>2, <1>3 DEF ReadyInv

\* A step that sends the device something.
LEMMA ReadyTells ==
  ASSUME ReadyInv, TaskShape', GoneIsStale', UNCHANGED <<up, scorer, connected, ready, live, crossed>>,
         \E m : down' = Append(down, m)
  PROVE  ReadyInv'
  <1>1. (\E S : down' \in Seq(S)) /\ down' # <<>>
    BY SendsOne DEF ReadyInv, LastReport
  <1>2. LastReport' BY <1>1 DEF ReadyInv, LastReport
  <1>3. SentUnanswered' BY <1>1 DEF SentUnanswered
  <1>4. W!ReadyIsReal' BY <1>1 DEF W!ReadyIsReal
  <1> QED BY <1>2, <1>3, <1>4 DEF ReadyInv

LEMMA ReadyStep == ReadyInv /\ [W!Next]_W!vars => ReadyInv'
  <1> SUFFICES ASSUME ReadyInv, [W!Next]_W!vars PROVE ReadyInv' OBVIOUS
  <1>0. TaskShape' BY ShapeStep DEF ReadyInv
  <1>00. DOMAIN task = W!Tasks /\ \A t \in W!Tasks : DOMAIN task[t] = Fields BY DEF ReadyInv, TaskShape
  <1>000. GoneIsStale BY DEF ReadyInv
  <1>1. ASSUME UNCHANGED <<W!channel, scorer, task, crossed>> PROVE ReadyInv'
    BY <1>0, <1>1, ReadyFrame DEF W!channel, ReadyInv, GoneIsStale, Sent, W!At
  \* what the other steps do to one task
  <1>2. ASSUME NEW t \in W!Tasks, UNCHANGED <<connected, down, up, scorer, live, crossed>>, ready' => ready,
               \A u \in W!Tasks \ {t} : task'[u] = task[u],
               task'[t].kind = "register" => task[t].kind = "register" /\ task'[t].stale = task[t].stale,
               task'[t].at = "switch" => connected, task'[t].at = "sent" => task'[t].stale
        PROVE  ReadyInv'
    <2>1. GoneIsStale' BY <1>000, <1>2 DEF GoneIsStale
    <2>2. \A u \in W!Tasks : Sent(u)' => Sent(u) BY <1>2 DEF Sent, W!At
    <2> QED BY <1>0, <1>2, <2>1, <2>2, ReadyFrame
  <1>3. ASSUME NEW t \in W!Tasks, NEW x,
               task' = [task EXCEPT ![t] = x], x.kind \in {"device", "fleet"}, x.at \in {"write", "read", "end"},
               UNCHANGED <<connected, down, up, scorer, live, ready, crossed>>
        PROVE  ReadyInv'
    BY <1>00, <1>2, <1>3
  <1>4. ASSUME NEW t \in W!Tasks, NEW m \in Models, W!PostFleet(t, m) PROVE ReadyInv'
    <2> DEFINE a == IF connected THEN "read" ELSE "end"
               x == W!Start(t, "fleet", a, m)
    <2>1. task' = [task EXCEPT ![t] = x] /\ UNCHANGED <<connected, down, up, scorer, live, ready, crossed>>
      BY <1>4 DEF W!PostFleet, W!channel, W!device, W!history
    <2>2. x.kind = "fleet" /\ x.at \in {"read", "end"}
      <3>1. x.kind = "fleet" /\ x.at = a BY StartShape
      <3> QED BY <3>1
    <2> HIDE DEF x
    <2> QED BY <1>3, <2>1, <2>2
  <1>5. ASSUME NEW t \in W!Tasks, NEW m \in Models, NEW z \in W!Scopes, W!PostDevice(t, m, z) PROVE ReadyInv'
    <2>1. PICK v : task' = [task EXCEPT ![t] = [W!Start(t, "device", "write", m) EXCEPT !.scope = v]]
      BY <1>5 DEF W!PostDevice
    <2> DEFINE x == [W!Start(t, "device", "write", m) EXCEPT !.scope = v]
    <2>2. x.kind = "device" /\ x.at = "write" BY StartShape
    <2>3. task' = [task EXCEPT ![t] = x] BY <2>1
    <2>4. UNCHANGED <<connected, down, up, scorer, live, ready, crossed>>
      BY <1>5 DEF W!PostDevice, W!channel, W!device, W!history
    <2> HIDE DEF x
    <2> QED BY <1>3, <2>2, <2>3, <2>4
  <1>6. ASSUME NEW t \in W!Tasks, W!UploadStop(t) PROVE ReadyInv'
    <2> DEFINE a == IF connected THEN "read" ELSE "end"
               x == W!Start(t, "fleet", a, fleet)
    <2>1. task' = [task EXCEPT ![t] = x] /\ UNCHANGED <<connected, down, up, scorer, live, ready, crossed>>
      BY <1>6 DEF W!UploadStop, W!PostFleet, W!channel, W!device, W!history
    <2>2. x.kind = "fleet" /\ x.at \in {"read", "end"}
      <3>1. x.kind = "fleet" /\ x.at = a BY StartShape
      <3> QED BY <3>1
    <2> HIDE DEF x
    <2> QED BY <1>3, <2>1, <2>2
  <1>7. ASSUME NEW t \in W!Tasks, W!Register(t) PROVE ReadyInv'
    <2> DEFINE x == W!Start(t, "register", "read", NoModel)
    <2>1. task' = [task EXCEPT ![t] = x] /\ ~connected /\ connected' /\ UNCHANGED <<down, up, scorer>>
          /\ ready' = FALSE
      BY <1>7 DEF W!Register, W!device
    <2>2. x.at = "read" BY StartShape
    <2> HIDE DEF x
    <2>3. \A u \in W!Tasks : ~Sent(u)' BY <1>00, <1>000, <2>1, <2>2 DEF Sent, W!At, GoneIsStale
    <2> QED BY <1>0, <2>1, <2>3 DEF ReadyInv, LastReport, SentUnanswered, GoneIsStale, W!ReadyIsReal
  <1>8. ASSUME NEW t \in W!Tasks, W!TaskStep(t) PROVE ReadyInv'
    <2>0. ASSUME NEW a, a \notin {"switch", "sent"}, W!Goto(t, a),
                 UNCHANGED <<connected, down, up, scorer, live, ready, crossed>>
          PROVE  ReadyInv'
      <3>1. /\ \A u \in W!Tasks \ {t} : task'[u] = task[u]
            /\ task'[t].kind = task[t].kind /\ task'[t].stale = task[t].stale /\ task'[t].at = a
        BY <1>00, <2>0 DEF W!Goto, Fields
      <3> QED BY <1>2, <2>0, <3>1
    <2>1. CASE W!WriteDevice(t)
      BY <2>0, <2>1 DEF W!WriteDevice, W!channel, W!device, W!history
    <2>2. CASE W!ReadEffective(t)
      <3>1. /\ \A u \in W!Tasks \ {t} : task'[u] = task[u]
            /\ task'[t].kind = task[t].kind /\ task'[t].stale = task[t].stale /\ task'[t].at = "apply"
        BY <1>00, <2>2 DEF W!ReadEffective, Fields
      <3>2. UNCHANGED <<connected, down, up, scorer, live, ready, crossed>>
        BY <2>2 DEF W!ReadEffective, W!channel, W!device, W!history
      <3> QED BY <1>2, <3>1, <3>2
    <2>3. CASE W!Apply(t)
      <3>1. UNCHANGED <<connected, up, scorer, live, ready, crossed>> /\ task[t].kind \in {"device", "fleet"}
        BY <2>3 DEF W!Apply, W!device, W!history
      <3>2. CASE task[t].kind = "fleet" /\ task[t].stale
        <4>1. W!Goto(t, "sent") /\ UNCHANGED down BY <2>3, <3>2 DEF W!Apply
        <4>2. /\ \A u \in W!Tasks \ {t} : task'[u] = task[u]
              /\ task'[t].kind = task[t].kind /\ task'[t].stale = task[t].stale /\ task'[t].at = "sent"
          BY <1>00, <4>1 DEF W!Goto, Fields
        <4> QED BY <1>2, <3>1, <3>2, <4>1, <4>2
      <3>3. CASE ~(task[t].kind = "fleet" /\ task[t].stale) /\ ~connected
        <4>1. W!Goto(t, "end") /\ UNCHANGED down BY <2>3, <3>3 DEF W!Apply
        <4> QED BY <2>0, <3>1, <4>1
      <3>4. CASE ~(task[t].kind = "fleet" /\ task[t].stale) /\ connected
        <4>1. down' = Append(down, live) BY <2>3, <3>4 DEF W!Apply
        <4>2. GoneIsStale' BY <3>1, <3>4 DEF GoneIsStale
        <4> QED BY <1>0, <3>1, <4>1, <4>2, ReadyTells
      <3> QED BY <3>2, <3>3, <3>4
    <2>4. CASE W!RegisterPush(t)
      <3>1. /\ UNCHANGED <<connected, up, scorer, live, ready, crossed>> /\ task[t].kind = "register"
        BY <2>4 DEF W!RegisterPush, W!device, W!history
      <3>2. CASE task[t].stale
        <4>1. W!Goto(t, "end") /\ UNCHANGED down BY <2>4, <3>2 DEF W!RegisterPush
        <4> QED BY <2>0, <3>1, <4>1
      <3>3. CASE ~task[t].stale
        <4>1. connected BY <1>000, <3>1, <3>3 DEF GoneIsStale
        <4>2. down' = Append(down, task[t].model) BY <2>4, <3>3 DEF W!RegisterPush
        <4>3. GoneIsStale' BY <3>1, <4>1 DEF GoneIsStale
        <4> QED BY <1>0, <3>1, <4>2, <4>3, ReadyTells
      <3> QED BY <3>2, <3>3
    <2>5. CASE W!Resume(t)
      <3>1. UNCHANGED <<connected, down, up, scorer, ready, crossed>> BY <2>5 DEF W!Resume, W!device
      <3>2. \/ W!Goto(t, "end")
            \/ \E i \in W!Tasks : \E k \in {"repair", "install"} : \E m :
                  task' = [task EXCEPT ![t].at = "end", ![i] = W!Start(i, k, "plan", m)]
        BY <2>5 DEF W!Resume
      <3>3. /\ \A u \in W!Tasks : task'[u].at \in {"switch", "sent"} => task'[u] = task[u]
            /\ \A u \in W!Tasks : task'[u].kind = "register" =>
                 task[u].kind = "register" /\ task'[u].stale = task[u].stale
        <4>1. CASE W!Goto(t, "end") BY <1>00, <4>1 DEF W!Goto, Fields
        <4>2. ASSUME NEW i \in W!Tasks, NEW k \in {"repair", "install"}, NEW m,
                     task' = [task EXCEPT ![t].at = "end", ![i] = W!Start(i, k, "plan", m)]
              PROVE  /\ \A u \in W!Tasks : task'[u].at \in {"switch", "sent"} => task'[u] = task[u]
                     /\ \A u \in W!Tasks : task'[u].kind = "register" =>
                          task[u].kind = "register" /\ task'[u].stale = task[u].stale
          <5> DEFINE x == W!Start(i, k, "plan", m)
          <5>1. x.kind = k /\ x.at = "plan" BY StartShape
          <5>2. task' = [task EXCEPT ![t].at = "end", ![i] = x] BY <4>2
          <5> HIDE DEF x
          <5> QED BY <1>00, <5>1, <5>2 DEF Fields
        <4> QED BY <3>2, <4>1, <4>2
      <3>4. GoneIsStale' BY <1>000, <3>1, <3>3 DEF GoneIsStale
      <3>5. \A u \in W!Tasks : Sent(u)' => Sent(u) BY <3>3 DEF Sent, W!At
      <3>6. CASE task[t].stale
        <4>1. live' = live BY <2>5, <3>6 DEF W!Resume
        <4> QED BY <1>0, <3>1, <3>4, <3>5, <4>1, ReadyFrame
      \* the device has not answered yet, or its answer has crossed
      <3>7. CASE ~task[t].stale
        <4>1. Sent(t) BY <2>5, <3>7 DEF W!Resume, Sent
        <4>2. ~crossed => down # <<>> \/ up # <<>> BY <4>1 DEF ReadyInv, SentUnanswered
        <4>3. W!ReadyIsReal' BY <3>1, <4>2 DEF W!ReadyIsReal
        <4>4. LastReport' BY <3>1 DEF ReadyInv, LastReport
        <4>5. SentUnanswered' BY <3>1, <3>5 DEF ReadyInv, SentUnanswered
        <4> QED BY <1>0, <3>4, <4>3, <4>4, <4>5 DEF ReadyInv
      <3> QED BY <3>6, <3>7
    <2>6. CASE W!Plan(t)
      <3>1. UNCHANGED <<connected, down, up, scorer, live, crossed>> /\ (ready' => ready)
        BY <2>6 DEF W!Plan, W!device, W!history
      <3>2. CASE ~connected \/ (task[t].stale /\ task[t].kind = "repair")
        <4>1. W!Goto(t, "end") /\ UNCHANGED ready BY <2>6, <3>2 DEF W!Plan
        <4> QED BY <2>0, <3>1, <4>1
      <3>3. CASE ~(~connected \/ (task[t].stale /\ task[t].kind = "repair"))
        <4> DEFINE x == W!ToPush(W!Effective)
                   y == W!ToPrune(W!Effective)
                   a == IF task[t].kind = "repair" /\ x = {} THEN "end"
                        ELSE IF x \cup y = {} THEN "done" ELSE "sync"
        <4>1. task' = [task EXCEPT ![t].push = x, ![t].prune = y, ![t].stale = FALSE, ![t].at = a]
          BY <2>6, <3>3 DEF W!Plan
        <4>2. a \notin {"switch", "sent"} OBVIOUS
        <4> HIDE DEF x, y, a
        <4>3. (\A u \in W!Tasks \ {t} : task'[u] = task[u]) /\ task'[t].at = a
          BY <1>00, <4>1 DEF Fields
        <4>4. GoneIsStale' BY <3>1, <3>3 DEF GoneIsStale
        <4>5. \A u \in W!Tasks : Sent(u)' => Sent(u) BY <4>2, <4>3 DEF Sent, W!At
        <4> QED BY <1>0, <3>1, <4>4, <4>5, ReadyFrame
      <3> QED BY <3>2, <3>3
    <2>7. CASE W!Synced(t)
      BY <2>0, <2>7 DEF W!Synced, W!channel, W!history
    <2>8. CASE W!SyncFails(t)
      BY <2>0, <2>8 DEF W!SyncFails, W!channel, W!device
    <2>9. CASE W!Installed(t)
      <3>1. UNCHANGED <<connected, down, up, scorer, live, ready, crossed>> /\ task[t].kind = "install"
        BY <2>9 DEF W!Installed, W!channel, W!device, W!history
      <3>2. /\ \A u \in W!Tasks \ {t} : task'[u] = task[u]
            /\ task'[t].kind = task[t].kind /\ task'[t].at \in {"switch", "end"}
            /\ task'[t].at = "switch" => connected
        BY <1>00, <2>9 DEF W!Installed, Fields
      <3> QED BY <1>2, <3>1, <3>2
    <2>10. CASE W!Switch(t)
      <3>1. UNCHANGED <<connected, up, scorer, live, ready, crossed>> /\ task[t].at = "switch"
        BY <2>10 DEF W!Switch, W!At, W!device, W!history
      <3>2. CASE ~W!StillWanted(t)
        <4>1. W!Goto(t, "end") /\ UNCHANGED down BY <2>10, <3>2 DEF W!Switch
        <4> QED BY <2>0, <3>1, <4>1
      <3>3. CASE W!StillWanted(t) /\ task[t].stale
        <4>1. W!Goto(t, "sent") /\ UNCHANGED down BY <2>10, <3>3 DEF W!Switch
        <4>2. /\ \A u \in W!Tasks \ {t} : task'[u] = task[u]
              /\ task'[t].kind = task[t].kind /\ task'[t].stale = task[t].stale /\ task'[t].at = "sent"
          BY <1>00, <4>1 DEF W!Goto, Fields
        <4> QED BY <1>2, <3>1, <3>3, <4>1, <4>2
      <3>4. CASE W!StillWanted(t) /\ ~task[t].stale
        <4>1. down' = Append(down, task[t].model) BY <2>10, <3>4 DEF W!Switch
        <4>2. connected BY <1>000, <3>1, <3>4 DEF GoneIsStale
        <4>3. GoneIsStale' BY <3>1, <4>2 DEF GoneIsStale
        <4> QED BY <1>0, <3>1, <4>1, <4>3, ReadyTells
      <3> QED BY <3>2, <3>3, <3>4
    <2>11. CASE W!Repaired(t)
      <3>1. UNCHANGED <<connected, up, scorer, live, ready, crossed>> /\ W!Goto(t, "end")
        BY <2>11 DEF W!Repaired, W!device
      <3>2. CASE connected
        <4>1. down' = Append(down, task[t].model) BY <2>11, <3>2 DEF W!Repaired
        <4>2. GoneIsStale' BY <3>1, <3>2 DEF GoneIsStale
        <4> QED BY <1>0, <3>1, <4>1, <4>2, ReadyTells
      <3>3. CASE ~connected
        <4>1. UNCHANGED down BY <2>11, <3>3 DEF W!Repaired
        <4> QED BY <2>0, <3>1, <4>1
      <3> QED BY <3>2, <3>3
    <2> QED BY <1>8, <2>1, <2>2, <2>3, <2>4, <2>5, <2>6, <2>7, <2>8, <2>9, <2>10, <2>11 DEF W!TaskStep
  <1>9. CASE W!Disconnect
    <2>1. down' = <<>> /\ up' = <<>> /\ connected' = FALSE BY <1>9 DEF W!Disconnect
    <2>2. down' \in Seq({}) /\ up' \in Seq({}) BY <2>1
    <2>3. task' = [t \in W!Tasks |-> W!Lost(t)] BY <1>9 DEF W!Disconnect
    <2>4. ASSUME NEW t \in W!Tasks PROVE task'[t].stale = TRUE
      <3>1. task'[t] = W!Lost(t) BY <2>3, <2>4
      <3> QED BY <1>00, <3>1, LostShape
    <2>5. GoneIsStale' BY <2>4 DEF GoneIsStale
    <2>6. SentUnanswered' BY <2>4 DEF SentUnanswered, Sent
    <2> QED BY <1>0, <2>1, <2>2, <2>5, <2>6 DEF ReadyInv, LastReport, W!ReadyIsReal
  <1>10. ASSUME NEW m \in Models, W!Upload(m) \/ W!DeleteModel(m) PROVE ReadyInv'
    BY <1>1, <1>10 DEF W!Upload, W!DeleteModel, W!device, W!history
  <1>11. CASE W!DeviceApplies
    <2> DEFINE m == Head(down)
               same == scorer = m
               new == [model |-> m, ok |-> same \/ W!Holds(m), rev |-> fileRev[m]]
    <2>1. down # <<>> /\ down' = Tail(down) /\ up' = Append(up, new)
          /\ scorer' = IF same \/ W!Holds(m) THEN m ELSE NoModel
      BY <1>11 DEF W!DeviceApplies
    <2>2. UNCHANGED <<connected, task, crossed>>
      <3>1. UNCHANGED <<connected, task, W!history>> BY <1>11 DEF W!DeviceApplies
      <3> QED BY <3>1 DEF W!history
    <2>3. \E S : down' \in Seq(S) BY <2>1, TakesOne DEF ReadyInv, LastReport
    <2>4. new.ok => scorer' = new.model BY <2>1
    <2> HIDE DEF new
    <2>5. (\E S : up' \in Seq(S)) /\ up' # <<>> /\ up'[Len(up')] = new
      BY <2>1, SendsOne DEF ReadyInv, LastReport
    <2>6. LastReport' BY <2>3, <2>4, <2>5 DEF LastReport
    <2>7. SentUnanswered' /\ W!ReadyIsReal' BY <2>5 DEF SentUnanswered, W!ReadyIsReal
    <2>8. GoneIsStale' BY <1>000, <2>2 DEF GoneIsStale
    <2> QED BY <1>0, <2>6, <2>7, <2>8 DEF ReadyInv
  <1>12. CASE W!WakeStatus
    <2>1. up # <<>> /\ up' = Tail(up) /\ ready' = W!StatusReady(Head(up))
          /\ UNCHANGED <<connected, live, down, scorer, task>>
      BY <1>12 DEF W!WakeStatus, W!device
    <2>2. /\ \E S : up' \in Seq(S)
          /\ up' = <<>> => Head(up) = up[Len(up)]
          /\ up' # <<>> => up'[Len(up')] = up[Len(up)]
      BY <2>1, TakesOne DEF ReadyInv, LastReport
    <2>3. LastReport' BY <2>1, <2>2 DEF ReadyInv, LastReport
    <2>4. W!ReadyIsReal' BY <2>1, <2>2 DEF ReadyInv, LastReport, W!ReadyIsReal, W!StatusReady
    <2>5. SentUnanswered'
      <3>1. crossed' = (crossed \/ \E t \in W!Tasks : W!At(t, "sent") /\ ~task[t].stale)
        BY <1>12 DEF W!WakeStatus
      <3> QED BY Zenon, <2>1, <3>1 DEF SentUnanswered, Sent, W!At
    <2>6. GoneIsStale' BY <1>000, <2>1 DEF GoneIsStale
    <2> QED BY <1>0, <2>3, <2>4, <2>5, <2>6 DEF ReadyInv
  <1>13. CASE UNCHANGED W!vars BY <1>1, <1>13 DEF W!vars, W!device, W!history
  <1> QED BY <1>4, <1>5, <1>6, <1>7, <1>8, <1>9, <1>10, <1>11, <1>12, <1>13 DEF W!Next

\* When no message is on its way, a device the controller marked ready (wake_status,
\* _wake_status_ready) scores the model the controller believes it scores, unless a
\* report crossed a push that waited on its send.
THEOREM ReadinessIsReal == W!Spec => []ReadyIsReal
  <1>1. ReadyInv => ReadyIsReal BY DEF ReadyInv, ReadyIsReal
  <1> QED BY <1>1, ReadyInit, ReadyStep, PTL DEF W!Spec

---------------------------------------------------------------------------
\* A task that will see the device onto the configured model: a save whose push is to
\* come on a connection it knows, or that will start the installation of that model;
\* that installation, or its switch; the registration of the connection.
Saves(t) ==
    /\ task[t].kind \in {"device", "fleet"}
    /\ \/ task[t].at = "read" /\ (task[t].kind = "fleet" => ~task[t].stale)
       \/ /\ task[t].at = "apply" /\ task[t].model = W!Effective
          /\ task[t].kind = "fleet" => ~task[t].stale
       \/ task[t].at = "sent" /\ task[t].model = W!Effective /\ task[t].model # task[t].seen
Installs(t) ==
    /\ task[t].kind = "install" /\ task[t].model = W!Effective
    /\ \/ task[t].at \in {"plan", "sync", "done"}
       \/ task[t].at = "switch" /\ task[t].seen = task[t].model /\ ~task[t].stale
       \/ task[t].at = "sent" /\ ~task[t].stale
Registers(t) == task[t].kind = "register" /\ task[t].at \in {"read", "apply", "sent"} /\ ~task[t].stale
Will(t) == Saves(t) \/ Installs(t) \/ Registers(t)

\* A switch was sent for the model its read found configured.
SwitchSeen == \A t \in W!Tasks : task[t].kind = "install" /\ task[t].at = "sent" => task[t].seen = task[t].model

FollowInv ==
    /\ TaskShape /\ SwitchSeen
    /\ connected /\ ~failed /\ ~overtaken => live = W!Effective \/ \E t \in W!Tasks : Will(t)

LEMMA FollowInit == W!Init => FollowInv
  <1> SUFFICES ASSUME W!Init PROVE FollowInv OBVIOUS
  <1>1. live = W!Effective BY DEF W!Init, W!Effective, W!Merge
  <1>2. \A t \in W!Tasks : task[t].kind = "none" BY DEF W!Init, W!NoTask
  <1> QED BY <1>1, <1>2, ShapeInit DEF FollowInv, SwitchSeen

\* A task is started in a place of its own.
LEMMA FreePlace ==
  ASSUME NEW i \in W!Tasks, W!Free(i)
  PROVE  \A t \in W!Tasks : task[t].kind # "none" => t # i
  BY DEF W!Free, W!Tasks

\* What a task will do depends on its record and on the configuration only.
LEMMA WillFrame ==
  ASSUME NEW t, task'[t] = task[t], W!Effective' = W!Effective
  PROVE  Will(t)' = Will(t)
  BY DEF Will, Saves, Installs, Registers

LEMMA SameEffective == UNCHANGED W!settings => W!Effective' = W!Effective
  BY DEF W!Effective, W!Merge, W!settings

\* A step that leaves the tasks alone.
LEMMA FollowFrame ==
  ASSUME FollowInv, TaskShape', UNCHANGED <<W!settings, live, task, failed, overtaken>>, connected' => connected
  PROVE  FollowInv'
  <1>1. W!Effective' = W!Effective BY SameEffective
  <1>2. \A t \in W!Tasks : Will(t)' = Will(t) BY <1>1, WillFrame
  <1> QED BY <1>1, <1>2 DEF FollowInv, SwitchSeen

\* A step of one task that leaves the configuration and the live model alone.
LEMMA FollowMove ==
  ASSUME FollowInv, TaskShape', UNCHANGED <<W!settings, live, connected>>,
         ~failed' => ~failed, ~overtaken' => ~overtaken,
         NEW t \in W!Tasks, \A u \in W!Tasks : u # t => task'[u] = task[u],
         task'[t].kind = "install" /\ task'[t].at = "sent" => task'[t].seen = task'[t].model,
         connected /\ ~failed' /\ Will(t) => Will(t)' \/ live = W!Effective
  PROVE  FollowInv'
  <1>1. W!Effective' = W!Effective BY SameEffective
  <1>2. \A u \in W!Tasks : u # t => Will(u)' = Will(u) BY <1>1, WillFrame
  <1>3. SwitchSeen' BY DEF FollowInv, SwitchSeen
  <1> QED BY <1>1, <1>2, <1>3 DEF FollowInv

\* A task that is started and will see to it.
LEMMA FollowStart ==
  ASSUME FollowInv, TaskShape', NEW t \in W!Tasks, NEW x, task' = [task EXCEPT ![t] = x],
         x.kind # "install", connected' => Will(t)'
  PROVE  FollowInv'
  <1>1. task'[t] = x /\ \A u \in W!Tasks : u # t => task'[u] = task[u] BY DEF FollowInv, TaskShape
  <1>2. SwitchSeen' BY <1>1 DEF FollowInv, SwitchSeen
  <1> QED BY <1>2 DEF FollowInv

LEMMA FollowResume ==
  ASSUME FollowInv, TaskShape', NEW t \in W!Tasks, W!Resume(t)
  PROVE  FollowInv'
  <1>0. DOMAIN task = W!Tasks /\ \A u \in W!Tasks : DOMAIN task[u] = Fields BY DEF FollowInv, TaskShape
  <1> DEFINE registers == task[t].kind = "register" /\ ~task[t].stale
             installs == task[t].kind \in {"device", "fleet"} /\ task[t].model # task[t].seen
  <1>1. task[t].at = "sent" /\ UNCHANGED <<W!settings, connected>> /\ (failed' = (failed /\ ~registers))
    BY DEF W!Resume, W!At
  <1>2. W!Effective' = W!Effective BY <1>1, SameEffective
  <1>3. CASE registers
    <2>1. overtaken' = (live' # W!Effective) BY <1>3 DEF W!Resume
    <2>2. PICK i \in W!Tasks :
             task' = [task EXCEPT ![t].at = "end", ![i] = W!Start(i, "repair", "plan", W!Effective)]
      BY <1>3 DEF W!Resume
    <2> DEFINE x == W!Start(i, "repair", "plan", W!Effective)
    <2>3. x.at = "plan" BY StartShape
    <2>4. task' = [task EXCEPT ![t].at = "end", ![i] = x] BY <2>2
    <2> HIDE DEF x
    <2>5. \A u \in W!Tasks : task'[u].at = "sent" => task'[u] = task[u] BY <1>0, <2>3, <2>4 DEF Fields
    <2>6. SwitchSeen' BY <2>5 DEF FollowInv, SwitchSeen
    <2> QED BY <1>2, <2>1, <2>6 DEF FollowInv
  <1>4. CASE ~registers
    <2>1. /\ live' = IF task[t].stale THEN live ELSE W!Note(t)
          /\ overtaken' = (overtaken \/ (~task[t].stale /\ W!Late(t)))
      BY <1>4 DEF W!Resume
    <2>2. ~failed' => ~failed BY <1>1, <1>4
    <2>3. ASSUME installs PROVE FollowInv'
      <3>1. PICK i \in W!Tasks :
               /\ W!Free(i)
               /\ task' = [task EXCEPT ![t].at = "end", ![i] = W!Start(i, "install", "plan", task[t].model)]
        BY <1>4, <2>3 DEF W!Resume
      <3> DEFINE x == W!Start(i, "install", "plan", task[t].model)
      <3>2. x.kind = "install" /\ x.at = "plan" /\ x.model = task[t].model BY StartShape
      <3>3. task' = [task EXCEPT ![t].at = "end", ![i] = x] BY <3>1
      <3> HIDE DEF x
      <3>4. i # t BY <2>3, <3>1, FreePlace
      <3>5. task'[i] = x /\ task'[t].at = "end" BY <1>0, <3>4, <3>3 DEF Fields
      <3>6. \A u \in W!Tasks : u \notin {t, i} => task'[u] = task[u] BY <1>0, <3>3
      <3>7. \A u \in W!Tasks : u \notin {t, i} => Will(u)' = Will(u) BY <1>2, <3>6, WillFrame
      <3>8. ~Will(i) BY <3>1, FreePlace DEF Will, Saves, Installs, Registers
      <3>9. Will(t) => Will(i)'
        <4>1. Will(t) => task[t].model = W!Effective
          BY <1>1, <2>3 DEF Will, Saves, Installs, Registers
        <4>2. task[t].model = W!Effective => Installs(i)' BY <1>2, <3>2, <3>5 DEF Installs
        <4> QED BY <4>1, <4>2 DEF Will
      <3>10. SwitchSeen' BY <3>2, <3>5, <3>6 DEF FollowInv, SwitchSeen
      <3>11. ~overtaken' => ~overtaken /\ live' = live BY <2>1, <2>3 DEF W!Late
      <3> QED BY <1>1, <1>2, <2>2, <3>7, <3>8, <3>9, <3>10, <3>11 DEF FollowInv
    <2>4. ASSUME ~installs PROVE FollowInv'
      <3>1. task' = [task EXCEPT ![t].at = "end"] BY <1>4, <2>4 DEF W!Resume, W!Goto
      <3>2. /\ \A u \in W!Tasks : u # t => task'[u] = task[u]
            /\ task'[t].at = "end"
        BY <1>0, <3>1 DEF Fields
      <3>3. \A u \in W!Tasks : u # t => Will(u)' = Will(u) BY <1>2, <3>2, WillFrame
      <3>4. SwitchSeen' BY <3>2 DEF FollowInv, SwitchSeen
      <3>5. CASE task[t].kind = "install" /\ ~task[t].stale
        <4>1. live' = task[t].model BY <2>1, <3>5 DEF W!Note
        <4>2. task[t].seen = task[t].model BY <1>1, <3>5 DEF FollowInv, SwitchSeen
        <4>3. ~overtaken' => live' = W!Effective' BY <1>2, <2>1, <3>5, <4>1, <4>2 DEF W!Late
        <4> QED BY <3>4, <4>3 DEF FollowInv
      <3>6. CASE ~(task[t].kind = "install" /\ ~task[t].stale)
        <4>1. ~Will(t) BY <1>1, <1>4, <2>4, <3>6 DEF Will, Saves, Installs, Registers
        <4>2. ~overtaken' => ~overtaken /\ live' = live BY <2>1, <3>6 DEF W!Late
        <4> QED BY <1>1, <1>2, <2>2, <3>3, <3>4, <4>1, <4>2 DEF FollowInv
      <3> QED BY <3>5, <3>6
    <2> QED BY <2>3, <2>4
  <1> QED BY <1>3, <1>4

LEMMA FollowTask ==
  ASSUME FollowInv, TaskShape', NEW t \in W!Tasks, W!TaskStep(t)
  PROVE  FollowInv'
  <1>0. DOMAIN task = W!Tasks /\ \A u \in W!Tasks : DOMAIN task[u] = Fields BY DEF FollowInv, TaskShape
  \* a step of the task that only moves it on
  <1>1. ASSUME NEW a, W!Goto(t, a), UNCHANGED <<W!settings, live, connected>>,
               ~failed' => ~failed, ~overtaken' => ~overtaken,
               a = "sent" /\ task[t].kind = "install" => task[t].seen = task[t].model,
               connected /\ ~failed' /\ Will(t) => Will(t)' \/ live = W!Effective
        PROVE  FollowInv'
    <2>1. /\ \A u \in W!Tasks : u # t => task'[u] = task[u]
          /\ task'[t].at = a /\ task'[t].kind = task[t].kind
          /\ task'[t].seen = task[t].seen /\ task'[t].model = task[t].model
      BY <1>0, <1>1 DEF W!Goto, Fields
    <2> QED BY <1>1, <2>1, FollowMove
  <1>2. \A a : W!Goto(t, a) => /\ task'[t].at = a /\ task'[t].kind = task[t].kind /\ task'[t].stale = task[t].stale
                               /\ task'[t].seen = task[t].seen /\ task'[t].model = task[t].model
                               /\ \A u \in W!Tasks : u # t => task'[u] = task[u]
    BY <1>0 DEF W!Goto, Fields
  <1>3. CASE W!WriteDevice(t)
    <2>1. W!Goto(t, "read") /\ task[t].kind = "device" BY <1>3 DEF W!WriteDevice
    <2>2. Will(t)' BY <1>2, <2>1 DEF Will, Saves
    <2>3. SwitchSeen' BY <1>2, <2>1 DEF FollowInv, SwitchSeen
    <2> QED BY <2>2, <2>3 DEF FollowInv
  <1>4. CASE W!ReadEffective(t)
    <2>1. task' = [task EXCEPT ![t].model = W!Effective, ![t].at = "apply"] /\ task[t].at = "read"
          /\ UNCHANGED <<W!settings, live, connected, failed, overtaken>>
      BY <1>4 DEF W!ReadEffective, W!At, W!channel, W!history
    <2>2. W!Effective' = W!Effective BY <2>1, SameEffective
    <2> DEFINE e == W!Effective
    <2>3. task' = [task EXCEPT ![t].model = e, ![t].at = "apply"] BY <2>1
    <2> HIDE DEF e
    <2>4. /\ \A u \in W!Tasks : u # t => task'[u] = task[u]
          /\ task'[t].model = e /\ task'[t].at = "apply" /\ task'[t].kind = task[t].kind
          /\ task'[t].stale = task[t].stale
      BY <1>0, <2>3 DEF Fields
    <2>5. task'[t].model = W!Effective' BY <2>2, <2>4 DEF e
    <2>6. Will(t) => Will(t)' BY <2>1, <2>4, <2>5 DEF Will, Saves, Installs, Registers
    <2> QED BY <2>1, <2>4, <2>6, FollowMove
  <1>5. CASE W!Apply(t)
    <2>1. /\ task[t].at = "apply" /\ task[t].kind \in {"device", "fleet"}
          /\ UNCHANGED <<W!settings, live, connected, failed, overtaken>>
      BY <1>5 DEF W!Apply, W!At, W!history
    <2>2. CASE task[t].kind = "fleet" /\ task[t].stale
      <3>1. W!Goto(t, "sent") BY <1>5, <2>2 DEF W!Apply
      <3>2. ~Will(t) BY <2>1, <2>2 DEF Will, Saves, Installs, Registers
      <3> QED BY <1>1, <2>1, <3>1, <3>2
    <2>3. CASE ~(task[t].kind = "fleet" /\ task[t].stale) /\ ~connected
      <3>1. W!Goto(t, "end") BY <1>5, <2>3 DEF W!Apply
      <3> QED BY <1>1, <2>1, <2>3, <3>1
    <2>4. CASE ~(task[t].kind = "fleet" /\ task[t].stale) /\ connected
      <3>1. task' = [task EXCEPT ![t].at = "sent", ![t].seen = live, ![t].stale = FALSE]
        BY <1>5, <2>4 DEF W!Apply
      <3>2. /\ \A u \in W!Tasks : u # t => task'[u] = task[u]
            /\ task'[t].at = "sent" /\ task'[t].kind = task[t].kind
            /\ task'[t].seen = live /\ task'[t].model = task[t].model
        BY <1>0, <3>1 DEF Fields
      <3>3. W!Effective' = W!Effective BY <2>1, SameEffective
      <3>4. Will(t) => task[t].model = W!Effective BY <2>1 DEF Will, Saves, Installs, Registers
      <3>5. Will(t) => Will(t)' \/ live = W!Effective
        BY <2>1, <3>2, <3>3, <3>4 DEF Will, Saves
      <3> QED BY <2>1, <3>2, <3>5, FollowMove
    <2> QED BY <2>2, <2>3, <2>4
  <1>6. CASE W!RegisterPush(t)
    <2>1. /\ task[t].at = "apply" /\ task[t].kind = "register"
          /\ UNCHANGED <<W!settings, live, connected, failed, overtaken>>
      BY <1>6 DEF W!RegisterPush, W!At, W!history
    <2>2. CASE task[t].stale
      <3>1. W!Goto(t, "end") BY <1>6, <2>2 DEF W!RegisterPush
      <3>2. ~Will(t) BY <2>1, <2>2 DEF Will, Saves, Installs, Registers
      <3> QED BY <1>1, <2>1, <3>1, <3>2
    <2>3. CASE ~task[t].stale
      <3>1. W!Goto(t, "sent") BY <1>6, <2>3 DEF W!RegisterPush
      <3>2. Will(t)' BY <1>2, <2>1, <2>3, <3>1 DEF Will, Registers
      <3> QED BY <1>1, <2>1, <3>1, <3>2
    <2> QED BY <2>2, <2>3
  <1>7. CASE W!Resume(t) BY <1>7, FollowResume
  <1>8. CASE W!Plan(t)
    <2>1. task[t].at = "plan" /\ UNCHANGED <<W!settings, connected, live, failed, overtaken>>
      BY <1>8 DEF W!Plan, W!At, W!history
    <2>2. W!Effective' = W!Effective BY <2>1, SameEffective
    <2>3. CASE ~connected \/ (task[t].stale /\ task[t].kind = "repair")
      <3>1. W!Goto(t, "end") BY <1>8, <2>3 DEF W!Plan
      <3>2. connected => ~Will(t) BY <2>1, <2>3 DEF Will, Saves, Installs, Registers
      <3> QED BY <1>1, <2>1, <3>1, <3>2
    <2>4. CASE ~(~connected \/ (task[t].stale /\ task[t].kind = "repair"))
      <3> DEFINE p == W!ToPush(W!Effective)
                 q == W!ToPrune(W!Effective)
                 repair == task[t].kind = "repair"
                 a == IF repair /\ p = {} THEN "end" ELSE IF p \cup q = {} THEN "done" ELSE "sync"
      <3>1. task' = [task EXCEPT ![t].push = p, ![t].prune = q, ![t].stale = FALSE, ![t].at = a]
        BY <1>8, <2>4 DEF W!Plan
      <3>2. a # "sent" /\ (a \in {"done", "sync"} \/ repair) OBVIOUS
      <3> HIDE DEF p, q, a
      <3>3. /\ \A u \in W!Tasks : u # t => task'[u] = task[u]
            /\ task'[t].kind = task[t].kind /\ task'[t].model = task[t].model /\ task'[t].at = a
        BY <1>0, <3>1 DEF Fields
      <3>4. Will(t) => Installs(t) BY <2>1 DEF Will, Saves, Registers
      <3>5. Installs(t) => Will(t)' BY <2>2, <3>2, <3>3 DEF Will, Installs
      <3> QED BY <2>1, <3>2, <3>3, <3>4, <3>5, FollowMove
    <2> QED BY <2>3, <2>4
  <1>9. CASE W!Synced(t)
    <2>1. task[t].at = "sync" /\ UNCHANGED <<W!settings, connected, live, failed, overtaken>> /\ W!Goto(t, "done")
      BY <1>9 DEF W!Synced, W!At, W!channel, W!history
    <2>2. W!Effective' = W!Effective BY <2>1, SameEffective
    <2>3. Will(t) => Installs(t) BY <2>1 DEF Will, Saves, Registers
    <2>4. Installs(t) => Will(t)' BY <1>2, <2>1, <2>2 DEF Will, Installs
    <2> QED BY <1>1, <2>1, <2>3, <2>4
  <1>10. CASE W!SyncFails(t)
    <2>1. failed' /\ W!Goto(t, "end") BY <1>10 DEF W!SyncFails
    <2>2. SwitchSeen' BY <1>2, <2>1 DEF FollowInv, SwitchSeen
    <2> QED BY <2>1, <2>2 DEF FollowInv
  <1>11. CASE W!Installed(t)
    <2>1. /\ task[t].at = "done" /\ task[t].kind = "install"
          /\ UNCHANGED <<W!settings, connected, live, failed, overtaken>>
      BY <1>11 DEF W!Installed, W!At, W!channel, W!history
    <2>2. W!Effective' = W!Effective BY <2>1, SameEffective
    <2>3. CASE connected
      <3> DEFINE e == W!Effective
      <3>1. task' = [task EXCEPT ![t].at = "switch", ![t].seen = e, ![t].stale = FALSE]
        BY <1>11, <2>3 DEF W!Installed
      <3> HIDE DEF e
      <3>2. /\ \A u \in W!Tasks : u # t => task'[u] = task[u]
            /\ task'[t].kind = task[t].kind /\ task'[t].model = task[t].model /\ task'[t].at = "switch"
            /\ task'[t].seen = e /\ task'[t].stale = FALSE
        BY <1>0, <3>1 DEF Fields
      <3>3. Will(t) => task[t].model = W!Effective BY <2>1 DEF Will, Saves, Installs, Registers
      <3>4. task[t].model = W!Effective => Installs(t)' BY <2>1, <2>2, <3>2 DEF Installs, e
      <3> QED BY <2>1, <3>2, <3>3, <3>4, FollowMove DEF Will
    <2>4. CASE ~connected
      <3>1. W!Goto(t, "end") BY <1>11, <2>4 DEF W!Installed, W!Goto
      <3> QED BY <1>1, <2>1, <2>4, <3>1
    <2> QED BY <2>3, <2>4
  <1>12. CASE W!Switch(t)
    <2>1. task[t].at = "switch" /\ UNCHANGED <<W!settings, connected, live, failed, overtaken>>
      BY <1>12 DEF W!Switch, W!At, W!history
    <2>2. W!Effective' = W!Effective BY <2>1, SameEffective
    <2>3. Will(t) => Installs(t) /\ task[t].seen = task[t].model
      BY <2>1 DEF Will, Saves, Installs, Registers
    <2>4. CASE W!StillWanted(t)
      <3>1. W!Goto(t, "sent") BY <1>12, <2>4 DEF W!Switch
      <3>2. Installs(t) => Will(t)' BY <1>2, <2>1, <2>2, <3>1 DEF Will, Installs
      <3> QED BY <1>1, <2>1, <2>3, <2>4, <3>1, <3>2 DEF W!StillWanted
    <2>5. CASE ~W!StillWanted(t)
      <3>1. W!Goto(t, "end") BY <1>12, <2>5 DEF W!Switch
      <3>2. ~Will(t) BY <2>3, <2>5 DEF W!StillWanted
      <3> QED BY <1>1, <2>1, <3>1, <3>2
    <2> QED BY <2>4, <2>5
  <1>13. CASE W!Repaired(t)
    <2>1. task[t].at = "done" /\ task[t].kind = "repair" /\ UNCHANGED <<W!settings, connected, live, failed>>
          /\ W!Goto(t, "end") /\ (~overtaken' => ~overtaken)
      BY <1>13 DEF W!Repaired, W!At
    <2>2. ~Will(t) BY <2>1 DEF Will, Saves, Installs, Registers
    <2> QED BY <1>1, <2>1, <2>2
  <1> QED BY <1>3, <1>4, <1>5, <1>6, <1>7, <1>8, <1>9, <1>10, <1>11, <1>12, <1>13 DEF W!TaskStep

LEMMA FollowStep == FollowInv /\ [W!Next]_W!vars => FollowInv'
  <1> SUFFICES ASSUME FollowInv, [W!Next]_W!vars PROVE FollowInv' OBVIOUS
  <1>0. DOMAIN task = W!Tasks /\ \A t \in W!Tasks : DOMAIN task[t] = Fields BY DEF FollowInv, TaskShape
  <1>00. TaskShape' BY ShapeStep DEF FollowInv
  <1>1. ASSUME UNCHANGED <<W!settings, connected, live, task, failed, overtaken>> PROVE FollowInv'
    BY <1>00, <1>1, FollowFrame
  <1>2. ASSUME NEW t \in W!Tasks, NEW m, W!PostFleet(t, m) PROVE FollowInv'
    <2> DEFINE a == IF connected THEN "read" ELSE "end"
               x == W!Start(t, "fleet", a, m)
    <2>1. task' = [task EXCEPT ![t] = x] /\ connected' = connected BY <1>2 DEF W!PostFleet, W!channel
    <2>2. x.kind = "fleet" /\ ~x.stale /\ (connected => x.at = "read")
      <3>1. x.kind = "fleet" /\ x.at = a /\ ~x.stale BY StartShape
      <3> QED BY <3>1
    <2> HIDE DEF x
    <2>3. task'[t] = x BY <1>0, <2>1
    <2>4. connected' => Will(t)' BY <2>1, <2>2, <2>3 DEF Will, Saves
    <2> QED BY <1>00, <2>1, <2>2, <2>4, FollowStart
  <1>3. ASSUME NEW t \in W!Tasks, NEW m \in Models, NEW z \in W!Scopes, W!PostDevice(t, m, z) PROVE FollowInv'
    <2>1. PICK v : task' = [task EXCEPT ![t] = [W!Start(t, "device", "write", m) EXCEPT !.scope = v]]
      BY <1>3 DEF W!PostDevice
    <2> DEFINE x == [W!Start(t, "device", "write", m) EXCEPT !.scope = v]
    <2>2. x.kind = "device" BY StartShape
    <2>3. task' = [task EXCEPT ![t] = x] BY <2>1
    <2> HIDE DEF x
    <2>4. W!Free(t) /\ UNCHANGED <<W!settings, live, connected, failed, overtaken>>
      BY <1>3 DEF W!PostDevice, W!channel, W!history
    <2>5. task'[t] = x /\ \A u \in W!Tasks : u # t => task'[u] = task[u] BY <1>0, <2>3
    <2>6. ~Will(t) BY <2>4, FreePlace DEF Will, Saves, Installs, Registers
    <2> QED BY <1>00, <2>2, <2>4, <2>5, <2>6, FollowMove
  <1>4. ASSUME NEW t \in W!Tasks, W!UploadStop(t) PROVE FollowInv'
    BY <1>2, <1>4 DEF W!UploadStop
  <1>5. ASSUME NEW t \in W!Tasks, W!Register(t) PROVE FollowInv'
    <2> DEFINE x == W!Start(t, "register", "read", NoModel)
    <2>1. task' = [task EXCEPT ![t] = x] BY <1>5 DEF W!Register
    <2>2. x.kind = "register" /\ x.at = "read" /\ ~x.stale BY StartShape
    <2> HIDE DEF x
    <2>3. task'[t] = x BY <1>0, <2>1
    <2>4. Will(t)' BY <2>2, <2>3 DEF Will, Registers
    <2> QED BY <1>00, <2>1, <2>2, <2>4, FollowStart
  <1>6. ASSUME NEW t \in W!Tasks, W!TaskStep(t) PROVE FollowInv'
    BY <1>00, <1>6, FollowTask
  <1>7. CASE W!Disconnect
    <2>1. ~connected' /\ task' = [t \in W!Tasks |-> W!Lost(t)] BY <1>7 DEF W!Disconnect
    <2>2. ASSUME NEW t \in W!Tasks, task'[t].kind = "install", task'[t].at = "sent"
          PROVE  task'[t].seen = task'[t].model
      <3>1. task'[t] = W!Lost(t) BY <2>1, <2>2
      <3>2. task[t].kind = "install" /\ task[t].at = "sent"
            /\ task'[t].model = task[t].model /\ task'[t].seen = W!LastSeen(t)
        BY <1>0, <2>2, <3>1, LostShape
      <3> QED BY <3>2 DEF W!LastSeen, FollowInv, SwitchSeen
    <2>3. SwitchSeen' BY <2>2 DEF SwitchSeen
    <2> QED BY <1>00, <2>1, <2>3 DEF FollowInv
  <1>8. ASSUME NEW m \in Models, W!Upload(m) \/ W!DeleteModel(m) PROVE FollowInv'
    BY <1>1, <1>8 DEF W!Upload, W!DeleteModel, W!channel, W!history
  <1>9. CASE W!DeviceApplies
    <2>1. UNCHANGED <<W!settings, connected, live, task, W!history>> BY <1>9 DEF W!DeviceApplies
    <2> QED BY <1>1, <2>1 DEF W!history
  <1>10. CASE W!WakeStatus BY <1>1, <1>10 DEF W!WakeStatus
  <1>11. CASE UNCHANGED W!vars BY <1>1, <1>11 DEF W!vars, W!channel, W!history
  <1> QED BY <1>2, <1>3, <1>4, <1>5, <1>6, <1>7, <1>8, <1>9, <1>10, <1>11 DEF W!Next

\* Once every save, _install_then_switch and reconcile_oww_assets is through, the
\* connected device is on the configured model, unless a transfer failed or a push
\* wrote what an await had made out of date.
THEOREM ConfigIsFollowed == W!Spec => []FollowsConfig
  <1>1. FollowInv => FollowsConfig
    BY DEF FollowInv, FollowsConfig, W!FollowsConfig, W!Settled, Will, Saves, Installs, Registers
  <1> QED BY <1>1, FollowInit, FollowStep, PTL DEF W!Spec
=============================================================================
