-------------------------- MODULE DirectCallProofs --------------------------
(***************************************************************************)
(* Proofs about DirectCall for every set of users, calls and requests.     *)
(* The invariant relates each running handler to the row it works on.      *)
(***************************************************************************)
EXTENDS DirectCall, TLAPS

OnRow == {"probe", "miss", "missTell", "end", "tell", "swept", "toggle"}

\* A handler between its read and its write.
JobOK(w) ==
    LET j == job[w] IN
    /\ j.at = "create" =>
          /\ j.user \in Users /\ j.peer \in Users /\ j.user # j.peer
          /\ j.call \in Calls /\ row[j.call].status = "none" /\ j.stamp \in Times
          /\ \A x \in Workers : x # w => job[x].call # j.call
    /\ j.at \in OnRow => j.call \in Calls /\ row[j.call].status # "none"
    /\ j.at \in {"sweep", "swept"} => j.user \in Users
    /\ j.at = "end" => /\ j.goal \in {"ended", "cancelled", "missed"}
                       /\ j.goal = "ended" => row[j.call].started # Null
                       /\ j.duration > 0 => row[j.call].started # Null
    /\ j.at = "toggle" => j.goal \in Switches /\ j.user \in Users
    /\ j.at = "tell" => IF j.goal = "connected" THEN row[j.call].started # Null
                                                ELSE Over(j.call)

JobsOK == \A w \in Workers : JobOK(w)

StartedBefore == \A c \in Calls : row[c].started <= clock

IInv == TypeOK /\ JobsOK /\ StartedBefore /\ TalkTimeOnlyIfAnswered /\ NoCrossedCalls

-----------------------------------------------------------------------------
(* What a step may do to the row of a call *)

Place(c, u, v) ==
    /\ row[c].status = "none" /\ u \in Users /\ v \in Users /\ u # v
    /\ ActiveOf(v) = {}
    /\ \E t \in Times : row' = [row EXCEPT ![c] =
          [NoRow EXCEPT !.status = "calling", !.caller = u, !.callee = v, !.created = t]]

Answer(c) ==
    /\ row[c].status \in Waiting
    /\ row' = [row EXCEPT ![c].status = "connected", ![c].started = clock]

Close(c) ==
    /\ row[c].status # "none"
    /\ \E s \in Terminal, t \in 0..MaxClock, d \in 0..MaxClock :
          /\ s = "rejected" => row[c].status \in Waiting
          /\ s = "ended" => row[c].started # Null
          /\ d # row[c].duration => row[c].started # Null
          /\ row' = [row EXCEPT ![c] = [row[c] EXCEPT !.status = s, !.ended = t, !.duration = d]]

Flag(c) ==
    /\ row[c].status # "none"
    /\ \E m, k \in SUBSET Users :
          row' = [row EXCEPT ![c] = [row[c] EXCEPT !.muted = m, !.camera = k]]

RowStep(c) == (\E u, v \in Users : Place(c, u, v)) \/ Answer(c) \/ Close(c) \/ Flag(c)

\* A row that exists is never removed, an answer is never forgotten, an end is final,
\* and only a placed call leaves the free ids.
LEMMA RowsAreKept ==
    ASSUME TypeOK, TalkTimeOnlyIfAnswered, NEW c \in Calls, RowStep(c), NEW d \in Calls
    PROVE  /\ row[d].status # "none" => row'[d].status # "none"
           /\ row[d].started # Null => row'[d].started # Null
           /\ Over(d) => Over(d)'
           /\ d # c => row'[d] = row[d]
           /\ row[d].status # "none" => row'[d].caller = row[d].caller /\ row'[d].callee = row[d].callee
  <1>1. CASE \E u, v \in Users : Place(c, u, v)
    BY <1>1 DEF Place, TypeOK, NoRow, Over, Terminal, Waiting, Null, TalkTimeOnlyIfAnswered
  <1>2. CASE Answer(c)
    BY <1>2, CallAssumption DEF Answer, TypeOK, Rows, Over, Terminal, Statuses, Waiting, Null, Times
  <1>3. CASE Close(c)
    BY <1>3 DEF Close, TypeOK, Rows, Over, Terminal, Statuses, Waiting, Null
  <1>4. CASE Flag(c)
    BY <1>4 DEF Flag, TypeOK, Rows, Over, Terminal, Statuses, Waiting, Null
  <1> QED BY <1>1, <1>2, <1>3, <1>4 DEF RowStep

\* The table keeps its type, and its talk times belong to answered calls.
LEMMA RowsStayTyped ==
    ASSUME TypeOK, NEW c \in Calls, RowStep(c)
    PROVE  row' \in [Calls -> Rows]
  <1> USE DEF Rows
  <1> SUFFICES ASSUME NEW r \in Rows, row' = [row EXCEPT ![c] = r]
               PROVE  row' \in [Calls -> Rows]
    <2>0. row \in [Calls -> Rows] /\ row[c] \in Rows /\ clock \in 0..MaxClock /\ 0 \in 0..MaxClock
      BY CallAssumption DEF TypeOK, Times
    <2>1. CASE \E u, v \in Users : Place(c, u, v)
      <3> PICK u \in Users, v \in Users, t \in Times :
             row' = [row EXCEPT ![c] = [NoRow EXCEPT !.status = "calling", !.caller = u,
                                                     !.callee = v, !.created = t]]
        BY <2>1 DEF Place
      <3>1. [NoRow EXCEPT !.status = "calling", !.caller = u, !.callee = v, !.created = t] \in Rows
        <4>1. t \in 0..MaxClock /\ "calling" \in Statuses
          BY CallAssumption DEF Times, Statuses, Waiting
        <4> QED BY <2>0, <4>1 DEF NoRow, Null
      <3> QED BY <3>1
    <2>2. CASE Answer(c)
      <3>1. [row[c] EXCEPT !.status = "connected", !.started = clock] \in Rows
        BY <2>0 DEF Statuses
      <3>2. row' = [row EXCEPT ![c] = [row[c] EXCEPT !.status = "connected", !.started = clock]]
        BY <2>0, <2>2 DEF Answer
      <3> QED BY <3>1, <3>2
    <2>3. CASE Close(c)
      <3> PICK s \in Terminal, t \in 0..MaxClock, d \in 0..MaxClock :
             row' = [row EXCEPT ![c] = [row[c] EXCEPT !.status = s, !.ended = t, !.duration = d]]
        BY <2>3 DEF Close
      <3>1. [row[c] EXCEPT !.status = s, !.ended = t, !.duration = d] \in Rows
        BY <2>0 DEF Statuses
      <3> QED BY <3>1
    <2>4. CASE Flag(c)
      <3> PICK m \in SUBSET Users, k \in SUBSET Users :
             row' = [row EXCEPT ![c] = [row[c] EXCEPT !.muted = m, !.camera = k]]
        BY <2>4 DEF Flag
      <3>1. [row[c] EXCEPT !.muted = m, !.camera = k] \in Rows
        BY <2>0
      <3> QED BY <3>1
    <2> QED BY <2>1, <2>2, <2>3, <2>4 DEF RowStep
  <1> QED BY DEF TypeOK

\* A row step keeps talk time to the calls that were answered.
LEMMA TalkTimeStep ==
    ASSUME TypeOK, TalkTimeOnlyIfAnswered, NEW c \in Calls, RowStep(c)
    PROVE  TalkTimeOnlyIfAnswered'
  <1> SUFFICES ASSUME NEW d \in Calls
               PROVE  /\ row'[d].status \in {"connected", "ended"} => row'[d].started # Null
                      /\ row'[d].status \in {"none", "rejected"} \cup Waiting => row'[d].started = Null
                      /\ row'[d].duration > 0 => row'[d].started # Null
    BY DEF TalkTimeOnlyIfAnswered
  <1>0. CASE d # c
    BY <1>0, RowsAreKept DEF TalkTimeOnlyIfAnswered
  <1>1. CASE d = c /\ \E u, v \in Users : Place(c, u, v)
    BY <1>1 DEF Place, TypeOK, NoRow, Waiting, Null
  <1>2. CASE d = c /\ Answer(c)
    BY <1>2 DEF Answer, TypeOK, Rows, Waiting, Null, Times, TalkTimeOnlyIfAnswered
  <1>3. CASE d = c /\ Close(c)
    BY <1>3 DEF Close, TypeOK, Rows, Waiting, Null, Terminal, TalkTimeOnlyIfAnswered
  <1>4. CASE d = c /\ Flag(c)
    BY <1>4 DEF Flag, TypeOK, Rows, Waiting, Null, TalkTimeOnlyIfAnswered
  <1> QED BY <1>0, <1>1, <1>2, <1>3, <1>4 DEF RowStep

\* A row step crosses no two live calls: placing one counts the callee's calls.
LEMMA NoCrossingStep ==
    ASSUME TypeOK, NoCrossedCalls, NEW c \in Calls, RowStep(c)
    PROVE  NoCrossedCalls'
  <1> SUFFICES ASSUME NEW d \in Calls, NEW e \in Calls, d # e, Active(d)', Active(e)'
               PROVE  row'[d].callee \notin Parties(e)' \/ row'[e].callee \notin Parties(d)'
    BY DEF NoCrossedCalls
  <1>1. CASE \E u, v \in Users : Place(c, u, v)
    <2> PICK u \in Users, v \in Users : Place(c, u, v)
      BY <1>1
    <2>1. \A x \in Calls \ {c} : Active(x) => v \notin Parties(x)
      BY DEF Place, ActiveOf
    <2>2. /\ \A x \in Calls \ {c} : row'[x] = row[x]
          /\ row'[c].callee = v
      BY DEF Place, TypeOK, NoRow
    <2> QED BY <2>1, <2>2 DEF Active, Parties, NoCrossedCalls
  <1>2. CASE ~ \E u, v \in Users : Place(c, u, v)
    <2>1. \A x \in Calls : /\ Active(x)' => Active(x)
                           /\ row'[x].caller = row[x].caller /\ row'[x].callee = row[x].callee
      <3> SUFFICES ASSUME NEW x \in Calls
                   PROVE  /\ Active(x)' => Active(x)
                          /\ row'[x].caller = row[x].caller /\ row'[x].callee = row[x].callee
        OBVIOUS
      <3>1. CASE Answer(c)
        BY <3>1 DEF Answer, TypeOK, Rows, Active, Waiting
      <3>2. CASE Close(c)
        BY <3>2 DEF Close, TypeOK, Rows, Active, Waiting, Terminal
      <3>3. CASE Flag(c)
        BY <3>3 DEF Flag, TypeOK, Rows, Active, Waiting
      <3> QED BY <1>2, <3>1, <3>2, <3>3 DEF RowStep
    <2> QED BY <2>1 DEF NoCrossedCalls, Parties
  <1> QED BY <1>1, <1>2

-----------------------------------------------------------------------------
(* Every step leaves the table alone or is one of the four row steps *)

\* The UPDATE that ends a call is a Close of its row, even when nothing changes.
LEMMA WriteIsClose ==
    ASSUME TypeOK, NEW c \in Calls, row[c].status # "none",
           NEW s \in {"ended", "cancelled", "missed"}, NEW t \in 0..MaxClock, NEW d \in 0..MaxClock,
           s = "ended" => row[c].started # Null, d > 0 => row[c].started # Null,
           row' = [row EXCEPT ![c] = Updated(c, s, t, d)]
    PROVE  RowStep(c)
  <1> DEFINE e == IF d > 0 THEN d ELSE row[c].duration
  <1>1. e \in 0..MaxClock /\ (e # row[c].duration => row[c].started # Null)
    BY DEF TypeOK, Rows
  <1>2. Updated(c, s, t, d) = [row[c] EXCEPT !.status = s, !.ended = t, !.duration = e]
    BY DEF Updated, TypeOK, Rows
  <1>3. s \in Terminal /\ s # "rejected"
    BY DEF Terminal
  <1> HIDE DEF e
  <1> QED BY <1>1, <1>2, <1>3 DEF RowStep, Close

\* Every step of the system is a row step or leaves the calls table alone.
LEMMA StepIsRowStep ==
    ASSUME IInv, Next
    PROVE  row' = row \/ \E c \in Calls : RowStep(c)
  <1>0. TypeOK /\ JobsOK /\ StartedBefore
    BY DEF IInv
  <1>1. ASSUME NEW w \in Workers, CreateIfNotBusy(w)
        PROVE  row' = row \/ \E c \in Calls : RowStep(c)
    <2>1. job[w].at = "create" /\ JobOK(w)
      BY <1>0, <1>1 DEF CreateIfNotBusy, JobsOK
    <2>2. row' = row \/ Place(job[w].call, job[w].user, job[w].peer)
      BY <1>1, <2>1 DEF CreateIfNotBusy, JobOK, Place
    <2> QED BY <2>1, <2>2 DEF RowStep, JobOK
  <1>2. ASSUME NEW w \in Workers, MarkMissed(w)
        PROVE  row' = row \/ \E c \in Calls : RowStep(c)
    <2>1. job[w].call \in Calls /\ row[job[w].call].status # "none" /\ job[w].stamp \in 0..MaxClock
      BY <1>0, <1>2 DEF MarkMissed, JobsOK, JobOK, OnRow, TypeOK, Jobs
    <2>2. row' = row \/ row' = [row EXCEPT ![job[w].call] = Updated(job[w].call, "missed", job[w].stamp, 0)]
      BY <1>2 DEF MarkMissed
    <2>3. 0 \in 0..MaxClock
      BY CallAssumption
    <2> QED BY <1>0, <2>1, <2>2, <2>3, WriteIsClose
  <1>3. ASSUME NEW w \in Workers, WriteEnd(w)
        PROVE  row' = row \/ \E c \in Calls : RowStep(c)
    <2>1. /\ job[w].call \in Calls /\ row[job[w].call].status # "none"
          /\ job[w].stamp \in 0..MaxClock /\ job[w].duration \in 0..MaxClock
          /\ job[w].goal \in {"ended", "cancelled", "missed"}
          /\ job[w].goal = "ended" => row[job[w].call].started # Null
          /\ job[w].duration > 0 => row[job[w].call].started # Null
      BY <1>0, <1>3 DEF WriteEnd, JobsOK, JobOK, OnRow, TypeOK, Jobs
    <2>2. \/ row' = row
          \/ row' = [row EXCEPT ![job[w].call] =
                       Updated(job[w].call, job[w].goal, job[w].stamp, job[w].duration)]
      BY <1>3 DEF WriteEnd
    <2> QED BY <1>0, <2>1, <2>2, WriteIsClose
  <1>4. ASSUME NEW w \in Workers, WriteToggle(w)
        PROVE  row' = row \/ \E c \in Calls : RowStep(c)
    <2> DEFINE j == job[w]
               r == row[j.call]
    <2>1. /\ j.call \in Calls /\ r.status # "none" /\ j.user \in Users
          /\ j.goal \in {"muted", "unmuted", "cameraOn", "cameraOff"}
          /\ r \in Rows
      BY <1>0, <1>4, CallAssumption DEF WriteToggle, JobsOK, JobOK, OnRow, TypeOK
    <2>2. CASE row' = row
      BY <2>2
    <2>3. CASE row' # row
      <3>1. \E m, k \in SUBSET Users :
               row' = [row EXCEPT ![j.call] = [r EXCEPT !.muted = m, !.camera = k]]
        <4>1. CASE j.goal = "muted"
          <5>1. row' = [row EXCEPT ![j.call] = [r EXCEPT !.muted = r.muted \cup {j.user}, !.camera = r.camera]]
            BY <1>4, <2>1, <2>3, <4>1 DEF WriteToggle, Rows
          <5> QED BY <2>1, <5>1 DEF Rows
        <4>2. CASE j.goal = "unmuted"
          <5>1. row' = [row EXCEPT ![j.call] = [r EXCEPT !.muted = r.muted \ {j.user}, !.camera = r.camera]]
            BY <1>4, <2>1, <2>3, <4>2 DEF WriteToggle, Rows
          <5> QED BY <2>1, <5>1 DEF Rows
        <4>3. CASE j.goal = "cameraOn"
          <5>1. row' = [row EXCEPT ![j.call] = [r EXCEPT !.muted = r.muted, !.camera = r.camera \cup {j.user}]]
            BY <1>4, <2>1, <2>3, <4>3 DEF WriteToggle, Rows
          <5> QED BY <2>1, <5>1 DEF Rows
        <4>4. CASE j.goal = "cameraOff"
          <5>1. row' = [row EXCEPT ![j.call] = [r EXCEPT !.muted = r.muted, !.camera = r.camera \ {j.user}]]
            BY <1>4, <2>1, <2>3, <4>4 DEF WriteToggle, Rows
          <5> QED BY <2>1, <5>1 DEF Rows
        <4> QED BY <2>1, <4>1, <4>2, <4>3, <4>4
      <3> QED BY <2>1, <3>1 DEF RowStep, Flag
    <2> QED BY <2>2, <2>3
  <1>5. ASSUME NEW w \in Requests, NEW u \in Users, NEW c \in Calls, Accept(w, u, c)
        PROVE  RowStep(c)
    BY <1>5 DEF Accept, Respond, RowStep, Answer
  <1>6. ASSUME NEW w \in Requests, NEW u \in Users, NEW c \in Calls, Reject(w, u, c)
        PROVE  RowStep(c)
    <2>1. row' = [row EXCEPT ![c] = [row[c] EXCEPT !.status = "rejected", !.ended = clock,
                                                   !.duration = row[c].duration]]
      BY <1>0, <1>6 DEF Reject, TypeOK, Rows
    <2>2. clock \in 0..MaxClock /\ row[c].duration \in 0..MaxClock
      BY <1>0, CallAssumption DEF TypeOK, Rows, Times
    <2> QED BY <1>6, <2>1, <2>2 DEF Reject, Respond, RowStep, Close, Terminal, Waiting
  <1>7. ASSUME NEW w \in Workers, ProbeCallee(w) \/ TellMissed(w) \/ TellParties(w)
        PROVE  row' = row
    BY <1>7 DEF ProbeCallee, TellMissed, TellParties
  <1>8. ASSUME NEW w \in Requests, NEW u \in Users, NEW c \in Calls,
               (\E v \in Users : Initiate(w, u, v, c)) \/ EndCall(w, u, c)
                 \/ \E s \in Switches : Toggle(w, u, c, s)
        PROVE  row' = row
    BY <1>8 DEF Initiate, EndCall, ReadToEnd, Toggle
  <1>9. ASSUME NEW u \in Users, Connect(u) \/ Disconnect(u) \/ MarkMissedRead(u)
                                   \/ \E c \in Calls : HideCall(u, c)
        PROVE  row' = row
    BY <1>9 DEF Connect, Disconnect, MarkMissedRead, HideCall
  <1>10. ASSUME Sweep \/ EndSwept \/ Tick \/ Crash
         PROVE  row' = row
    BY <1>10 DEF Sweep, EndSwept, ReadToEnd, Tick, Crash
  <1>11. Readers \subseteq Users
    BY CallAssumption
  <1> QED BY <1>1, <1>2, <1>3, <1>4, <1>5, <1>6, <1>7, <1>8, <1>9, <1>10, <1>11 DEF Next, Work, Ask

-----------------------------------------------------------------------------
(* The handlers *)

\* The null record is a job.
LEMMA IdleTyped == Idle \in Jobs
  BY CallAssumption DEF Idle, Jobs, Statuses, Null

\* The handlers that do not move keep their obligations.
LEMMA OthersOK ==
    ASSUME IInv, NEW w \in Workers,
           row' = row \/ \E c \in Calls : RowStep(c),
           \A x \in Workers \ {w} : job'[x] = job[x],
           \/ job'[w].call \in {job[w].call, NoCall}
           \/ job'[w].call \in Calls /\ row[job'[w].call].status # "none"
           \/ \A x \in Workers : job[x].call # job'[w].call,
           \A c \in Calls \ {job[w].call} : row[c].status = "none" => row'[c].status = "none"
    PROVE  \A x \in Workers \ {w} : JobOK(x)'
  <1> SUFFICES ASSUME NEW x \in Workers \ {w}
               PROVE  JobOK(x)'
    OBVIOUS
  <1>1. /\ TypeOK /\ TalkTimeOnlyIfAnswered /\ JobOK(x)
        /\ job'[x] = job[x] /\ job[x].call \in Calls \cup {NoCall}
    BY DEF IInv, JobsOK, TypeOK, Jobs
  <1>2. \A d \in Calls : /\ row[d].status # "none" => row'[d].status # "none"
                         /\ row[d].started # Null => row'[d].started # Null
                         /\ Over(d) => Over(d)'
    BY <1>1, RowsAreKept DEF Over
  <1>3. ASSUME job[x].at = "create"
        PROVE  /\ row'[job[x].call].status = "none"
               /\ \A y \in Workers : y # x => job'[y].call # job[x].call
    <2>1. /\ job[x].call \in Calls /\ row[job[x].call].status = "none"
          /\ \A y \in Workers : y # x => job[y].call # job[x].call
      BY <1>1, <1>3 DEF JobOK
    <2>2. job'[w].call # job[x].call
      BY <2>1, CallAssumption
    <2> QED BY <2>1, <2>2
  <1>4. JobOK(x)' = (LET j == job[x] IN
          /\ j.at = "create" =>
                /\ j.user \in Users /\ j.peer \in Users /\ j.user # j.peer
                /\ j.call \in Calls /\ row'[j.call].status = "none" /\ j.stamp \in Times
                /\ \A y \in Workers : y # x => job'[y].call # j.call
          /\ j.at \in OnRow => j.call \in Calls /\ row'[j.call].status # "none"
          /\ j.at \in {"sweep", "swept"} => j.user \in Users
          /\ j.at = "end" => /\ j.goal \in {"ended", "cancelled", "missed"}
                             /\ j.goal = "ended" => row'[j.call].started # Null
                             /\ j.duration > 0 => row'[j.call].started # Null
          /\ j.at = "toggle" => j.goal \in Switches /\ j.user \in Users
          /\ j.at = "tell" => IF j.goal = "connected" THEN row'[j.call].started # Null
                                                      ELSE Over(j.call)')
    BY <1>1 DEF JobOK
  <1> QED BY <1>1, <1>2, <1>3, <1>4 DEF JobOK, OnRow

\* A step in which one handler moves to the record r.
LEMMA ActorOK ==
    ASSUME IInv, NEW w \in Workers, NEW r \in Jobs,
           row' = row \/ \E c \in Calls : RowStep(c),
           job' = [job EXCEPT ![w] = r],
           \/ r.call \in {job[w].call, NoCall}
           \/ r.call \in Calls /\ row[r.call].status # "none"
           \/ \A x \in Workers : job[x].call # r.call,
           \A c \in Calls \ {job[w].call} : row[c].status = "none" => row'[c].status = "none",
           JobOK(w)'
    PROVE  job' \in [Workers -> Jobs] /\ JobsOK'
  <1>1. job \in [Workers -> Jobs]
    BY DEF IInv, TypeOK
  <1>2. job' \in [Workers -> Jobs] /\ job'[w] = r /\ \A x \in Workers \ {w} : job'[x] = job[x]
    BY <1>1
  <1>3. \A x \in Workers \ {w} : JobOK(x)'
    BY <1>2, OthersOK
  <1> QED BY <1>2, <1>3 DEF JobsOK

\* A handler that finishes has no obligation left.
LEMMA FinishOK ==
    ASSUME IInv, NEW w \in Workers, Finish(w),
           row' = row \/ \E c \in Calls : RowStep(c),
           \A c \in Calls \ {job[w].call} : row[c].status = "none" => row'[c].status = "none"
    PROVE  job' \in [Workers -> Jobs] /\ JobsOK'
  <1>1. job' = [job EXCEPT ![w] = Idle] /\ job \in [Workers -> Jobs]
    BY DEF Finish, IInv, TypeOK
  <1>2. JobOK(w)'
    BY <1>1 DEF JobOK, Idle, OnRow
  <1>3. Idle.call \in {job[w].call, NoCall}
    BY DEF Idle
  <1> QED BY <1>1, <1>2, <1>3, ActorOK, IdleTyped

\* A step of a handler past its first statement keeps every handler's obligation.
LEMMA HandlerStep ==
    ASSUME IInv, NEW w \in Workers, Work(w)
    PROVE  job' \in [Workers -> Jobs] /\ JobsOK'
  <1> DEFINE j == job[w]
  <1>0. /\ TypeOK /\ TalkTimeOnlyIfAnswered /\ JobOK(w) /\ j \in Jobs
        /\ job \in [Workers -> Jobs] /\ row \in [Calls -> Rows]
    BY DEF IInv, JobsOK, TypeOK
  <1>s. row' = row \/ \E c \in Calls : RowStep(c)
    BY StepIsRowStep DEF Next
  <1>k. \A d \in Calls : /\ row[d].status # "none" => row'[d].status # "none"
                         /\ row[d].started # Null => row'[d].started # Null
    BY <1>0, <1>s, RowsAreKept
  <1>1. CASE CreateIfNotBusy(w)
    <2>1. \A c \in Calls \ {j.call} : row'[c] = row[c]
      BY <1>0, <1>1 DEF CreateIfNotBusy
    <2>2. CASE Finish(w)
      BY <1>s, <2>1, <2>2, FinishOK
    <2>3. CASE ~Finish(w)
      <3>1. /\ job' = [job EXCEPT ![w] = [j EXCEPT !.at = "probe"]]
            /\ j.call \in Calls /\ row'[j.call].status = "calling"
        BY <1>0, <1>1, <2>3 DEF CreateIfNotBusy, Goto, JobOK, NoRow
      <3>2. [j EXCEPT !.at = "probe"] \in Jobs
        BY <1>0 DEF Jobs
      <3>3. JobOK(w)'
        BY <1>0, <3>1 DEF JobOK, OnRow, Jobs
      <3>4. [j EXCEPT !.at = "probe"].call = j.call
        BY <1>0 DEF Jobs
      <3> QED BY <1>s, <2>1, <3>1, <3>2, <3>3, <3>4, ActorOK
    <2> QED BY <2>2, <2>3
  <1>2. CASE ProbeCallee(w)
    <2>1. row' = row
      BY <1>2 DEF ProbeCallee
    <2>2. CASE Finish(w)
      BY <1>s, <2>1, <2>2, FinishOK
    <2>3. CASE ~Finish(w)
      <3>1. job' = [job EXCEPT ![w] = [j EXCEPT !.at = "miss"]] /\ j.at = "probe"
        BY <1>0, <1>2, <2>3 DEF ProbeCallee, Goto
      <3>2. [j EXCEPT !.at = "miss"] \in Jobs /\ [j EXCEPT !.at = "miss"].call = j.call
        BY <1>0 DEF Jobs
      <3>3. JobOK(w)'
        BY <1>0, <2>1, <3>1 DEF JobOK, OnRow, Jobs
      <3> QED BY <1>s, <2>1, <3>1, <3>2, <3>3, ActorOK
    <2> QED BY <2>2, <2>3
  <1>3. CASE MarkMissed(w)
    <2>1. /\ job' = [job EXCEPT ![w] = [j EXCEPT !.at = "missTell"]] /\ j.at = "miss"
          /\ \A c \in Calls \ {j.call} : row'[c] = row[c]
      BY <1>0, <1>3 DEF MarkMissed, Goto
    <2>2. [j EXCEPT !.at = "missTell"] \in Jobs /\ [j EXCEPT !.at = "missTell"].call = j.call
      BY <1>0 DEF Jobs
    <2>3. JobOK(w)'
      BY <1>0, <1>k, <2>1 DEF JobOK, OnRow, Jobs
    <2> QED BY <1>s, <2>1, <2>2, <2>3, ActorOK
  <1>4. CASE TellMissed(w) \/ TellParties(w)
    <2>1. row' = row /\ Finish(w)
      BY <1>4 DEF TellMissed, TellParties
    <2> QED BY <1>s, <2>1, FinishOK
  <1>5. CASE WriteEnd(w)
    <2>1. j.at = "end" /\ \A c \in Calls \ {j.call} : row'[c] = row[c]
      BY <1>0, <1>5 DEF WriteEnd
    <2>2. CASE Finish(w)
      BY <1>s, <2>1, <2>2, FinishOK
    <2>3. CASE ~Finish(w)
      <3> DEFINE r == [Idle EXCEPT !.at = "tell", !.user = j.user, !.call = j.call, !.goal = j.goal]
      <3>1. job' = [job EXCEPT ![w] = r]
        BY <1>5, <2>3 DEF WriteEnd, Announce
      <3>2. r \in Jobs /\ r.call = j.call /\ r.at = "tell" /\ r.goal = j.goal
        BY <1>0, IdleTyped DEF Jobs, Idle
      <3>3. j.call \in Calls /\ row[j.call].status # "none" /\ j.goal \in {"ended", "cancelled", "missed"}
        BY <1>0, <2>1 DEF JobOK, OnRow
      <3>4. row'[j.call].status = j.goal
        BY <1>0, <1>5, <2>3, <3>3 DEF WriteEnd, Updated, Rows
      <3>5. job'[w] = r
        BY <1>0, <3>1
      <3> HIDE DEF r
      <3>6. JobOK(w)'
        BY <3>2, <3>3, <3>4, <3>5 DEF JobOK, OnRow, Over, Terminal
      <3> QED BY <1>s, <2>1, <3>1, <3>2, <3>6, ActorOK
    <2> QED BY <2>2, <2>3
  <1>6. CASE WriteToggle(w)
    <2>1. Finish(w) /\ \A c \in Calls \ {j.call} : row'[c] = row[c]
      BY <1>0, <1>6 DEF WriteToggle
    <2> QED BY <1>s, <2>1, FinishOK
  <1> QED BY <1>1, <1>2, <1>3, <1>4, <1>5, <1>6 DEF Work

\* A handler that has read a live call to end it is a job.
LEMMA EndJob ==
    ASSUME NEW u \in Users, NEW c \in Calls, NEW g \in Statuses,
           NEW t \in 0..MaxClock, NEW d \in 0..MaxClock
    PROVE  [Idle EXCEPT !.at = "end", !.user = u, !.call = c,
                        !.goal = g, !.stamp = t, !.duration = d] \in Jobs
  BY IdleTyped DEF Jobs, Idle

\* EndCall reads an active call: what it decides agrees with the row it read.
LEMMA ReadToEndOK ==
    ASSUME IInv, NEW w \in Workers, NEW u \in Users, NEW c \in Calls, ReadToEnd(w, u, c)
    PROVE  job' \in [Workers -> Jobs] /\ JobsOK'
  <1> DEFINE r == [Idle EXCEPT !.at = "end", !.user = u, !.call = c,
                     !.goal = Verdict(u, c), !.stamp = clock, !.duration = Elapsed(c)]
  <1>0. /\ job \in [Workers -> Jobs] /\ row[c] \in Rows /\ row' = row
        /\ row[c].started <= clock /\ Active(c) /\ clock \in Times
        /\ row[c].status = "connected" => row[c].started # Null
    BY DEF IInv, TypeOK, ReadToEnd, StartedBefore, TalkTimeOnlyIfAnswered
  <1>1. Elapsed(c) \in 0..MaxClock /\ (Elapsed(c) > 0 => row[c].started # Null)
    BY <1>0, CallAssumption DEF Elapsed, Rows, Times, Null
  <1>2. /\ Verdict(u, c) \in {"ended", "cancelled", "missed"}
        /\ Verdict(u, c) = "ended" => row[c].started # Null
    BY <1>0 DEF Verdict, Active
  <1>3. Verdict(u, c) \in Statuses
    BY <1>2 DEF Statuses, Terminal
  <1>4. /\ r \in Jobs /\ r.at = "end" /\ r.call = c
        /\ r.goal = Verdict(u, c) /\ r.duration = Elapsed(c)
    <2>1. clock \in 0..MaxClock
      BY <1>0, CallAssumption DEF Times
    <2> PICK g \in Statuses : g = Verdict(u, c)
      BY <1>3
    <2> PICK d \in 0..MaxClock : d = Elapsed(c)
      BY <1>1
    <2>2. r = [Idle EXCEPT !.at = "end", !.user = u, !.call = c,
                 !.goal = g, !.stamp = clock, !.duration = d]
      OBVIOUS
    <2>3. r \in Jobs
      BY <2>1, <2>2, EndJob
    <2>4. r.at = "end" /\ r.call = c /\ r.goal = g /\ r.duration = d
      BY DEF Idle
    <2> QED BY <2>3, <2>4
  <1>5. job' = [job EXCEPT ![w] = r] /\ job'[w] = r
    BY <1>0 DEF ReadToEnd
  <1> HIDE DEF r
  <1>6. row[c].status # "none"
    BY <1>0 DEF Active, Waiting
  <1>7. JobOK(w)'
    BY <1>0, <1>1, <1>2, <1>4, <1>5, <1>6 DEF JobOK, OnRow
  <1> QED BY <1>0, <1>4, <1>5, <1>6, <1>7, ActorOK

\* A request that starts keeps every handler's obligation.
LEMMA RequestStep ==
    ASSUME IInv, NEW w \in Requests, NEW u \in Users, NEW c \in Calls, Ask(w, u, c)
    PROVE  job' \in [Workers -> Jobs] /\ JobsOK'
  <1>0. /\ TypeOK /\ TalkTimeOnlyIfAnswered /\ w \in Workers
        /\ job \in [Workers -> Jobs] /\ row \in [Calls -> Rows]
        /\ clock \in Times /\ clock \in 0..MaxClock
    BY CallAssumption DEF IInv, TypeOK, Workers, Times
  <1>s. row' = row \/ \E d \in Calls : RowStep(d)
    BY StepIsRowStep DEF Next
  <1>1. ASSUME NEW v \in Users, Initiate(w, u, v, c)
        PROVE  job' \in [Workers -> Jobs] /\ JobsOK'
    <2> DEFINE r == [Idle EXCEPT !.at = "create", !.user = u, !.peer = v, !.call = c, !.stamp = clock]
    <2>1. /\ r \in Jobs /\ r.at = "create" /\ r.user = u /\ r.peer = v /\ r.call = c /\ r.stamp = clock
      BY <1>0, IdleTyped DEF Jobs, Idle
    <2>2. /\ job' = [job EXCEPT ![w] = r] /\ job'[w] = r /\ row' = row
          /\ \A x \in Workers : x # w => job'[x] = job[x]
          /\ \A x \in Workers : job[x].call # c
          /\ u # v /\ row[c].status = "none"
      BY <1>0, <1>1 DEF Initiate
    <2> HIDE DEF r
    <2>3. JobOK(w)'
      BY <1>0, <2>1, <2>2 DEF JobOK, OnRow
    <2> QED BY <1>0, <2>1, <2>2, <2>3, ActorOK
  <1>2. ASSUME NEW s \in {"connected", "rejected"}, Respond(w, u, c, s),
               row'[c].status = s, s = "connected" => row'[c].started # Null,
               \A d \in Calls \ {c} : row'[d] = row[d]
        PROVE  job' \in [Workers -> Jobs] /\ JobsOK'
    <2> DEFINE r == [Idle EXCEPT !.at = "tell", !.user = NoUser, !.call = c, !.goal = s]
    <2>0. s \in Statuses
      BY DEF Statuses, Terminal
    <2>1. r \in Jobs /\ r.at = "tell" /\ r.call = c /\ r.goal = s
      BY <2>0, IdleTyped DEF Jobs, Idle
    <2>2. job' = [job EXCEPT ![w] = r] /\ job'[w] = r /\ row[c].status # "none"
      BY <1>0, <1>2 DEF Respond, Announce, Waiting
    <2> HIDE DEF r
    <2>3. JobOK(w)'
      BY <1>2, <2>1, <2>2 DEF JobOK, OnRow, Over, Terminal
    <2>4. \A d \in Calls \ {job[w].call} : row[d].status = "none" => row'[d].status = "none"
      BY <1>2, <2>2
    <2> QED BY <1>0, <1>s, <2>1, <2>2, <2>3, <2>4, ActorOK
  <1>3. CASE Accept(w, u, c)
    <2>1. /\ Respond(w, u, c, "connected")
          /\ row'[c].status = "connected" /\ row'[c].started = clock
          /\ \A d \in Calls \ {c} : row'[d] = row[d]
      BY <1>0, <1>3 DEF Accept, Rows
    <2>2. clock # Null
      BY <1>0, CallAssumption DEF Times, Null
    <2> QED BY <1>2, <2>1, <2>2
  <1>4. CASE Reject(w, u, c)
    <2>1. /\ Respond(w, u, c, "rejected")
          /\ row'[c].status = "rejected"
          /\ \A d \in Calls \ {c} : row'[d] = row[d]
      BY <1>0, <1>4 DEF Reject, Rows
    <2> QED BY <1>2, <2>1
  <1>5. CASE EndCall(w, u, c)
    BY <1>0, <1>5, ReadToEndOK DEF EndCall
  <1>6. ASSUME NEW s \in Switches, Toggle(w, u, c, s)
        PROVE  job' \in [Workers -> Jobs] /\ JobsOK'
    <2> DEFINE r == [Idle EXCEPT !.at = "toggle", !.user = u, !.call = c, !.goal = s]
    <2>1. r \in Jobs /\ r.at = "toggle" /\ r.call = c /\ r.goal = s /\ r.user = u
      BY IdleTyped DEF Jobs, Idle
    <2>2. job' = [job EXCEPT ![w] = r] /\ job'[w] = r /\ row' = row /\ row[c].status # "none"
      BY <1>0, <1>6 DEF Toggle, InConversation
    <2> HIDE DEF r
    <2>3. JobOK(w)'
      BY <2>1, <2>2 DEF JobOK, OnRow
    <2> QED BY <1>0, <2>1, <2>2, <2>3, ActorOK
  <1> QED BY <1>1, <1>3, <1>4, <1>5, <1>6 DEF Ask

\* A connection, a disconnection and the cleanup keep every handler's obligation.
LEMMA HubStep ==
    ASSUME IInv, Sweep \/ EndSwept \/ \E u \in Users : Disconnect(u)
    PROVE  job' \in [Workers -> Jobs] /\ JobsOK'
  <1> DEFINE j == job[HubLoop]
  <1>0. /\ HubLoop \in Workers /\ job \in [Workers -> Jobs] /\ j \in Jobs /\ JobOK(HubLoop)
        /\ row \in [Calls -> Rows]
    BY DEF IInv, TypeOK, JobsOK, Workers
  <1>1. CASE Sweep
    <2>1. row' = row /\ j.at = "sweep"
      BY <1>1 DEF Sweep
    <2>2. CASE Finish(HubLoop)
      BY <1>0, <2>1, <2>2, FinishOK
    <2>3. CASE ~Finish(HubLoop)
      <3> PICK c \in LatestActive(j.user) :
             job' = [job EXCEPT ![HubLoop].at = "swept", ![HubLoop].call = c]
        BY <1>1, <2>3 DEF Sweep
      <3> DEFINE r == [j EXCEPT !.at = "swept", !.call = c]
      <3>1. c \in Calls /\ row[c].status # "none"
        BY DEF LatestActive, ActiveOf, Active, Waiting
      <3>2. r \in Jobs /\ r.at = "swept" /\ r.call = c /\ r.user = j.user /\ j.user \in Users
        BY <1>0, <2>1, <3>1 DEF Jobs, JobOK
      <3>3. job' = [job EXCEPT ![HubLoop] = r] /\ job'[HubLoop] = r
        BY <1>0
      <3> HIDE DEF r
      <3>4. JobOK(HubLoop)'
        BY <2>1, <3>1, <3>2, <3>3 DEF JobOK, OnRow
      <3> QED BY <1>0, <2>1, <3>1, <3>2, <3>3, <3>4, ActorOK
    <2> QED BY <2>2, <2>3
  <1>2. CASE EndSwept
    <2>1. CASE Finish(HubLoop) /\ row' = row
      BY <1>0, <2>1, FinishOK
    <2>2. CASE ~(Finish(HubLoop) /\ row' = row)
      <3>1. ReadToEnd(HubLoop, j.user, j.call) /\ j.call \in Calls /\ j.user \in Users
        BY <1>0, <1>2, <2>2 DEF EndSwept, JobOK, OnRow
      <3> QED BY <1>0, <3>1, ReadToEndOK
    <2> QED BY <2>1, <2>2
  <1>3. ASSUME NEW u \in Users, Disconnect(u)
        PROVE  job' \in [Workers -> Jobs] /\ JobsOK'
    <2> DEFINE r == [Idle EXCEPT !.at = "sweep", !.user = u]
    <2>1. r \in Jobs /\ r.at = "sweep" /\ r.call = NoCall /\ r.user = u
      BY IdleTyped DEF Jobs, Idle
    <2>2. job' = [job EXCEPT ![HubLoop] = r] /\ job'[HubLoop] = r /\ row' = row
      BY <1>0, <1>3 DEF Disconnect
    <2> HIDE DEF r
    <2>3. JobOK(HubLoop)'
      BY <2>1, <2>2 DEF JobOK, OnRow
    <2> QED BY <1>0, <2>1, <2>2, <2>3, ActorOK
  <1> QED BY <1>1, <1>2, <1>3

-----------------------------------------------------------------------------
(* The theorems *)

\* The empty table satisfies the inductive invariant.
LEMMA InitIsSafe == Init => IInv
  <1> SUFFICES ASSUME Init PROVE IInv
    OBVIOUS
  <1>1. NoRow \in Rows /\ NoRow.status = "none" /\ NoRow.started = 0 /\ NoRow.duration = 0
    BY CallAssumption DEF NoRow, Rows, Statuses, Null
  <1>2. TypeOK
    BY <1>1, IdleTyped, CallAssumption DEF Init, TypeOK, Times, Null
  <1>3. JobsOK
    BY DEF Init, JobsOK, JobOK, Idle, OnRow
  <1>4. TalkTimeOnlyIfAnswered /\ StartedBefore
    BY <1>1 DEF Init, TalkTimeOnlyIfAnswered, StartedBefore, Null
  <1>5. NoCrossedCalls
    BY <1>1 DEF Init, NoCrossedCalls, Active, Waiting
  <1> QED BY <1>2, <1>3, <1>4, <1>5 DEF IInv

\* A request that starts touches the calls table and its own record only.
LEMMA AskFrame ==
    ASSUME NEW w \in Requests, NEW u \in Users, NEW c \in Calls, Ask(w, u, c)
    PROVE  UNCHANGED <<hidden, lastRead, noticed, failed, online, clock, crashes>>
  <1>1. ASSUME NEW v \in Users, Initiate(w, u, v, c)
        PROVE  UNCHANGED <<hidden, lastRead, noticed, failed, online, clock, crashes>>
    BY <1>1 DEF Initiate
  <1>2. ASSUME Accept(w, u, c) \/ Reject(w, u, c)
        PROVE  UNCHANGED <<hidden, lastRead, noticed, failed, online, clock, crashes>>
    BY <1>2 DEF Accept, Reject, Respond
  <1>3. ASSUME EndCall(w, u, c)
        PROVE  UNCHANGED <<hidden, lastRead, noticed, failed, online, clock, crashes>>
    BY <1>3 DEF EndCall, ReadToEnd
  <1>4. ASSUME NEW s \in Switches, Toggle(w, u, c, s)
        PROVE  UNCHANGED <<hidden, lastRead, noticed, failed, online, clock, crashes>>
    BY <1>4 DEF Toggle
  <1> QED BY <1>1, <1>2, <1>3, <1>4 DEF Ask

\* Every step preserves the inductive invariant.
LEMMA StepIsSafe == IInv /\ [Next]_vars => IInv'
  <1> SUFFICES ASSUME IInv, [Next]_vars PROVE IInv'
    OBVIOUS
  <1>1. CASE UNCHANGED vars
    BY <1>1 DEF vars, IInv, TypeOK, JobsOK, JobOK, StartedBefore, TalkTimeOnlyIfAnswered,
                NoCrossedCalls, Active, Over, Parties
  <1>2. CASE Next
    <2>0. TypeOK /\ JobsOK /\ StartedBefore /\ TalkTimeOnlyIfAnswered /\ NoCrossedCalls
      BY DEF IInv
    <2>s. row' = row \/ \E c \in Calls : RowStep(c)
      BY <1>2, StepIsRowStep
    <2>1. job' \in [Workers -> Jobs] /\ JobsOK'
      <3>1. CASE \E w \in Workers : Work(w)
        BY <3>1, HandlerStep
      <3>2. CASE \E w \in Requests, u \in Users, c \in Calls : Ask(w, u, c)
        BY <3>2, RequestStep
      <3>3. CASE Sweep \/ EndSwept \/ \E u \in Users : Disconnect(u)
        BY <3>3, HubStep
      <3>4. CASE Crash
        <4>1. job' = [w \in Workers |-> Idle]
          BY <3>4 DEF Crash
        <4> QED BY <4>1, IdleTyped DEF JobsOK, JobOK, Idle, OnRow
      <3>5. CASE Tick \/ \E u \in Users : \/ Connect(u) \/ MarkMissedRead(u)
                                          \/ \E c \in Calls : HideCall(u, c)
        <4>1. job' = job /\ row' = row
          BY <3>5 DEF Tick, Connect, MarkMissedRead, HideCall
        <4> QED BY <2>0, <4>1 DEF TypeOK, JobsOK, JobOK, Over
      <3> QED BY <1>2, <3>1, <3>2, <3>3, <3>4, <3>5, CallAssumption DEF Next
    <2>2. row' \in [Calls -> Rows]
      BY <2>0, <2>s, RowsStayTyped DEF TypeOK
    <2>3. clock' \in Times /\ clock <= clock'
      <3>1. clock' = clock \/ (clock < MaxClock /\ clock' = clock + 1)
        <4>1. ASSUME NEW w \in Workers, Work(w) PROVE clock' = clock
          BY <4>1 DEF Work, CreateIfNotBusy, ProbeCallee, MarkMissed, TellMissed, WriteEnd,
               TellParties, WriteToggle
        <4>2. ASSUME NEW w \in Requests, NEW u \in Users, NEW c \in Calls, Ask(w, u, c)
              PROVE  clock' = clock
          BY <4>2, AskFrame
        <4>3. ASSUME NEW u \in Users, \/ Connect(u) \/ Disconnect(u) \/ MarkMissedRead(u)
                                      \/ \E c \in Calls : HideCall(u, c)
              PROVE  clock' = clock
          BY <4>3 DEF Connect, Disconnect, MarkMissedRead, HideCall
        <4>4. CASE Sweep \/ EndSwept \/ Crash
          BY <4>4 DEF Sweep, EndSwept, ReadToEnd, Crash
        <4>5. CASE Tick
          BY <4>5 DEF Tick
        <4> QED BY <1>2, <4>1, <4>2, <4>3, <4>4, <4>5, CallAssumption DEF Next
      <3> QED BY <2>0, <3>1, CallAssumption DEF TypeOK, Times
    <2>4. /\ hidden' \subseteq Users \X Calls /\ lastRead' \in [Users -> 0..MaxClock]
          /\ noticed' \cup failed' \subseteq Calls /\ online' \subseteq Users /\ crashes' \in 0..MaxCrashes
      <3>0. clock \in 0..MaxClock /\ Readers \subseteq Users /\ MaxCrashes \in Nat
        BY <2>0, CallAssumption DEF TypeOK, Times
      <3>1. CASE \E w \in Workers : Work(w)
        <4> PICK w \in Workers : Work(w)
          BY <3>1
        <4>1. \/ UNCHANGED <<noticed, failed>>
              \/ /\ job[w].at \in OnRow
                 /\ \/ noticed' = noticed \cup {job[w].call} /\ failed' = failed
                    \/ failed' = failed \cup {job[w].call} /\ noticed' = noticed
          BY DEF Work, CreateIfNotBusy, ProbeCallee, MarkMissed, TellMissed, WriteEnd,
               TellParties, WriteToggle, CreateNotification, OnRow
        <4>2. UNCHANGED <<hidden, lastRead, online, crashes>>
          BY DEF Work, CreateIfNotBusy, ProbeCallee, MarkMissed, TellMissed, WriteEnd,
               TellParties, WriteToggle
        <4>3. job[w].at \in OnRow => job[w].call \in Calls
          BY <2>0 DEF JobsOK, JobOK
        <4> QED BY <2>0, <4>1, <4>2, <4>3 DEF TypeOK
      <3>2. CASE \E w \in Requests, u \in Users, c \in Calls : Ask(w, u, c)
        BY <2>0, <3>2, AskFrame DEF TypeOK
      <3>3. CASE Sweep \/ EndSwept \/ Tick
        BY <2>0, <3>3 DEF TypeOK, Sweep, EndSwept, ReadToEnd, Tick
      <3>4. CASE Crash
        BY <2>0, <3>0, <3>4 DEF TypeOK, Crash
      <3>5. CASE \E u \in Users : \/ Connect(u) \/ Disconnect(u) \/ MarkMissedRead(u)
                                  \/ \E c \in Calls : HideCall(u, c)
        BY <2>0, <3>0, <3>5 DEF TypeOK, Connect, Disconnect, MarkMissedRead, HideCall
      <3> QED BY <1>2, <3>0, <3>1, <3>2, <3>3, <3>4, <3>5 DEF Next
    <2>5. StartedBefore'
      <3> SUFFICES ASSUME NEW d \in Calls
                   PROVE  row'[d].started <= clock'
        BY DEF StartedBefore
      <3>1. row'[d].started \in {row[d].started, clock, 0}
        <4>1. CASE row' = row
          BY <4>1
        <4>2. ASSUME NEW c \in Calls, RowStep(c) PROVE row'[d].started \in {row[d].started, clock, 0}
          <5>0. row \in [Calls -> Rows]
            BY <2>0 DEF TypeOK
          <5>1. CASE \E u, v \in Users : Place(c, u, v)
            BY <5>0, <5>1 DEF Place, Rows, NoRow, Null
          <5>2. CASE Answer(c)
            BY <5>0, <5>2 DEF Answer, Rows
          <5>3. CASE Close(c)
            BY <5>0, <5>3 DEF Close, Rows
          <5>4. CASE Flag(c)
            BY <5>0, <5>4 DEF Flag, Rows
          <5> QED BY <4>2, <5>1, <5>2, <5>3, <5>4 DEF RowStep
        <4> QED BY <2>s, <4>1, <4>2
      <3>2. row[d].started <= clock /\ row[d].started \in Int /\ clock \in Int /\ 0 <= clock
        BY <2>0, CallAssumption DEF StartedBefore, TypeOK, Rows, Times
      <3>3. clock' \in Int
        BY <2>3, CallAssumption DEF Times
      <3> QED BY <2>3, <3>1, <3>2, <3>3
    <2>6. TalkTimeOnlyIfAnswered'
      BY <2>0, <2>s, TalkTimeStep DEF TalkTimeOnlyIfAnswered
    <2>7. NoCrossedCalls'
      BY <2>0, <2>s, NoCrossingStep DEF NoCrossedCalls, Active, Parties
    <2> QED BY <2>1, <2>2, <2>3, <2>4, <2>5, <2>6, <2>7 DEF IInv, TypeOK
  <1> QED BY <1>1, <1>2

\* The inductive invariant holds in every reachable state.
LEMMA AlwaysIInv == Spec => []IInv
  BY InitIsSafe, StepIsSafe, PTL DEF Spec

\* The tables, the sockets and every running handler keep their types: in particular no
\* duration is negative and every handler past its read works on an existing row.
THEOREM TypeCorrect == Spec => []TypeOK
  <1>1. IInv => TypeOK
    BY DEF IInv
  <1> QED BY <1>1, AlwaysIInv, PTL

\* CreateIfNotBusy keeps any two live calls from crossing (repository/call.repository.go:37).
THEOREM CallsNeverCross == Spec => []NoCrossedCalls
  <1>1. IInv => NoCrossedCalls
    BY DEF IInv
  <1> QED BY <1>1, AlwaysIInv, PTL

\* EndCall never gives talk time to a call that was not answered.
THEOREM TalkTimeIsReal == Spec => []TalkTimeOnlyIfAnswered
  <1>1. IInv => TalkTimeOnlyIfAnswered
    BY DEF IInv
  <1> QED BY <1>1, AlwaysIInv, PTL

\* Every status about to be announced is backed by the row.
THEOREM AnnouncementsAreTrue == Spec => []AnnouncedIsBacked
  <1>1. IInv => AnnouncedIsBacked
    BY DEF IInv, JobsOK, JobOK, AnnouncedIsBacked
  <1> QED BY <1>1, AlwaysIInv, PTL

\* No interleaving of unconditional UpdateStatus calls reopens a call.
THEOREM EndsAreFinal == Spec => OverStays
  <1>1. IInv /\ [Next]_vars => [\A c \in Calls : Over(c) => Over(c)']_vars
    <2> SUFFICES ASSUME IInv, Next, NEW d \in Calls, Over(d)
                 PROVE  Over(d)'
      OBVIOUS
    <2>1. TypeOK /\ TalkTimeOnlyIfAnswered
      BY DEF IInv
    <2>2. row' = row \/ \E c \in Calls : RowStep(c)
      BY StepIsRowStep
    <2> QED BY <2>1, <2>2, RowsAreKept DEF Over
  <1> QED BY <1>1, AlwaysIInv, PTL DEF Spec, OverStays

-----------------------------------------------------------------------------
(* What the handlers leave in the rows and in the notifications.  These facts *)
(* rest on IInv and are kept apart from it.                                   *)

\* A toggle past its status check still works for a party of an answered call,
\* and for the camera of a video call only.
ToggleOK(w) ==
    LET j == job[w] IN
    j.at = "toggle" =>
        /\ row[j.call].started # Null
        /\ j.user \in Parties(j.call)
        /\ j.goal \in {"cameraOn", "cameraOff"} => j.call \in VideoCalls

TogglesOK == \A w \in Workers : ToggleOK(w)

FlagInv == TogglesOK /\ FlagsOnlyIfAnswered

\* Handler w has recorded call c as missed and is about to notify the callee.
NoticeDue(w, c) ==
    /\ job[w].call = c
    /\ job[w].at = "missTell" \/ (job[w].at = "tell" /\ job[w].goal = "missed")

NoticesDue ==
    crashes = 0 =>
        \A c \in Calls : row[c].status = "missed" =>
            NoticeSettled(c) \/ \E w \in Workers : NoticeDue(w, c)

\* No marker is ahead of the clock.
ReadBefore == \A u \in Users : lastRead[u] <= clock

\* What becomes of an existing row in one step.
LEMMA RowsLast ==
    ASSUME IInv, [Next]_vars, NEW d \in Calls, row[d].status # "none"
    PROVE  /\ row'[d].status # "none" /\ Parties(d)' = Parties(d)
           /\ row[d].started # Null => row'[d].started # Null
           /\ row'[d].created = row[d].created /\ row'[d].callee = row[d].callee
  <1>0. TypeOK /\ TalkTimeOnlyIfAnswered
    BY DEF IInv
  <1>1. row' = row \/ \E c \in Calls : RowStep(c)
    BY StepIsRowStep DEF vars
  <1>2. ASSUME NEW c \in Calls, RowStep(c)
        PROVE  row'[d].created = row[d].created /\ row'[d].callee = row[d].callee
    <2>1. CASE \E u, v \in Users : Place(c, u, v)
      BY <1>0, <2>1 DEF Place, TypeOK
    <2>2. CASE Answer(c)
      BY <1>0, <2>2 DEF Answer, TypeOK, Rows
    <2>3. CASE Close(c)
      BY <1>0, <2>3 DEF Close, TypeOK, Rows
    <2>4. CASE Flag(c)
      BY <1>0, <2>4 DEF Flag, TypeOK, Rows
    <2> QED BY <1>2, <2>1, <2>2, <2>3, <2>4 DEF RowStep
  <1> QED BY <1>0, <1>1, <1>2, RowsAreKept DEF Parties

\* The calls table is written by these steps only.
LEMMA RowWriters ==
    ASSUME Next
    PROVE  \/ row' = row
           \/ \E w \in Workers : \/ CreateIfNotBusy(w) \/ MarkMissed(w)
                                 \/ WriteEnd(w) \/ WriteToggle(w)
           \/ \E w \in Requests, u \in Users, c \in Calls : Accept(w, u, c) \/ Reject(w, u, c)
  <1>1. ASSUME NEW w \in Workers, ProbeCallee(w) \/ TellMissed(w) \/ TellParties(w)
        PROVE  row' = row
    BY <1>1 DEF ProbeCallee, TellMissed, TellParties
  <1>2. ASSUME NEW w \in Requests, NEW u \in Users, NEW c \in Calls,
               (\E v \in Users : Initiate(w, u, v, c)) \/ EndCall(w, u, c)
                 \/ \E s \in Switches : Toggle(w, u, c, s)
        PROVE  row' = row
    BY <1>2 DEF Initiate, EndCall, ReadToEnd, Toggle
  <1>3. ASSUME NEW u \in Users, \/ Connect(u) \/ Disconnect(u) \/ MarkMissedRead(u)
                                \/ \E c \in Calls : HideCall(u, c)
        PROVE  row' = row
    BY <1>3 DEF Connect, Disconnect, MarkMissedRead, HideCall
  <1>4. ASSUME Sweep \/ EndSwept \/ Tick \/ Crash
        PROVE  row' = row
    BY <1>4 DEF Sweep, EndSwept, ReadToEnd, Tick, Crash
  <1> QED BY <1>1, <1>2, <1>3, <1>4, CallAssumption DEF Next, Work, Ask

\* The flags of a row move in WriteToggle only: whatever else a step does to a row
\* leaves its flags as they are or, when the row is placed, empty.
LEMMA FlagsMove ==
    ASSUME IInv, [Next]_vars, NEW d \in Calls
    PROVE  \/ row'[d].muted = row[d].muted /\ row'[d].camera = row[d].camera
           \/ row'[d].muted = {} /\ row'[d].camera = {}
           \/ \E w \in Workers :
                 /\ WriteToggle(w) /\ job[w].call = d
                 /\ row'[d].muted \subseteq row[d].muted \cup {job[w].user}
                 /\ \/ row'[d].camera \subseteq row[d].camera
                    \/ /\ job[w].goal = "cameraOn"
                       /\ row'[d].camera = row[d].camera \cup {job[w].user}
  <1> DEFINE Same == row'[d].muted = row[d].muted /\ row'[d].camera = row[d].camera
  <1>0. TypeOK /\ JobsOK /\ row \in [Calls -> Rows]
    BY DEF IInv, TypeOK
  <1>1. CASE row' = row
    BY <1>1
  <1>2. ASSUME NEW w \in Workers, CreateIfNotBusy(w)
        PROVE  Same \/ (row'[d].muted = {} /\ row'[d].camera = {})
    BY <1>0, <1>2 DEF CreateIfNotBusy, NoRow
  <1>3. ASSUME NEW w \in Workers, MarkMissed(w) \/ WriteEnd(w)
        PROVE  Same
    <2>1. \/ row' = row
          \/ \E c \in Calls, s \in Statuses, t, e \in 0..MaxClock :
                row' = [row EXCEPT ![c] = Updated(c, s, t, e)]
      <3>1. /\ job[w].call \in Calls /\ job[w].stamp \in 0..MaxClock
            /\ job[w].duration \in 0..MaxClock
            /\ job[w].at = "end" => job[w].goal \in Statuses
        BY <1>0, <1>3 DEF MarkMissed, WriteEnd, JobsOK, JobOK, OnRow, TypeOK, Jobs, Statuses, Terminal
      <3>2. "missed" \in Statuses /\ 0 \in 0..MaxClock
        BY CallAssumption DEF Statuses, Terminal
      <3>3. CASE MarkMissed(w)
        BY <3>1, <3>2, <3>3 DEF MarkMissed
      <3>4. CASE WriteEnd(w)
        BY <3>1, <3>4 DEF WriteEnd
      <3> QED BY <1>3, <3>3, <3>4
    <2>2. ASSUME NEW c \in Calls, NEW s \in Statuses, NEW t \in 0..MaxClock, NEW e \in 0..MaxClock,
                 row' = [row EXCEPT ![c] = Updated(c, s, t, e)]
          PROVE  Same
      <3>1. row[c] \in Rows
        BY <1>0
      <3>2. Updated(c, s, t, e).muted = row[c].muted /\ Updated(c, s, t, e).camera = row[c].camera
        BY <3>1 DEF Updated, Rows
      <3> QED BY <1>0, <2>2, <3>2
    <2> QED BY <2>1, <2>2
  <1>4. ASSUME NEW w \in Workers, WriteToggle(w)
        PROVE  \/ Same
               \/ /\ job[w].call = d
                  /\ row'[d].muted \subseteq row[d].muted \cup {job[w].user}
                  /\ \/ row'[d].camera \subseteq row[d].camera
                     \/ /\ job[w].goal = "cameraOn"
                        /\ row'[d].camera = row[d].camera \cup {job[w].user}
    <2>0. /\ job[w].goal \in {"muted", "unmuted", "cameraOn", "cameraOff"}
          /\ job[w].call \in Calls /\ row[job[w].call] \in Rows /\ row[d] \in Rows
      BY <1>0, <1>4, CallAssumption DEF WriteToggle, JobsOK, JobOK, OnRow
    <2>1. CASE row' = row \/ job[w].call # d
      BY <1>0, <1>4, <2>1 DEF WriteToggle
    <2>2. CASE row' # row /\ job[w].call = d
      <3> USE <1>0, <1>4, <2>0, <2>2 DEF WriteToggle, Rows
      <3>1. CASE job[w].goal = "muted"
        BY <3>1
      <3>2. CASE job[w].goal = "unmuted"
        BY <3>2
      <3>3. CASE job[w].goal = "cameraOn"
        BY <3>3
      <3>4. CASE job[w].goal = "cameraOff"
        BY <3>4
      <3> QED BY <3>1, <3>2, <3>3, <3>4
    <2> QED BY <2>1, <2>2
  <1>5. ASSUME NEW w \in Requests, NEW u \in Users, NEW c \in Calls,
               Accept(w, u, c) \/ Reject(w, u, c)
        PROVE  Same
    BY <1>0, <1>5 DEF Accept, Reject, Rows
  <1> HIDE DEF Same
  <1>6. Same => row'[d].muted = row[d].muted /\ row'[d].camera = row[d].camera
    BY DEF Same
  <1>7. UNCHANGED vars => row' = row
    BY DEF vars
  <1> QED BY <1>1, <1>2, <1>3, <1>4, <1>5, <1>6, <1>7, RowWriters

\* A handler comes to "toggle" in Toggle only.
LEMMA OnlyToggleStarts ==
    ASSUME IInv, [Next]_vars, NEW w \in Workers, job'[w].at = "toggle", job'[w] # job[w]
    PROVE  w \in Requests /\ \E u \in Users, c \in Calls, s \in Switches : Toggle(w, u, c, s)
  <1>0. job \in [Workers -> Jobs] /\ Requests \subseteq Workers /\ HubLoop \in Workers
    BY DEF IInv, TypeOK, Workers
  <1>1. ASSUME NEW x \in Workers, Work(x)
        PROVE  FALSE
    <2> USE <1>0 DEF Jobs, Goto, Finish, Announce, Idle
    <2>1. CASE CreateIfNotBusy(x)
      BY <2>1 DEF CreateIfNotBusy
    <2>2. CASE ProbeCallee(x)
      BY <2>2 DEF ProbeCallee
    <2>3. CASE MarkMissed(x)
      BY <2>3 DEF MarkMissed
    <2>4. CASE TellMissed(x) \/ TellParties(x)
      BY <2>4 DEF TellMissed, TellParties
    <2>5. CASE WriteEnd(x)
      <3>1. Finish(x) \/ Announce(x, job[x].user, job[x].call, job[x].goal)
        BY <2>5 DEF WriteEnd
      <3>2. CASE Finish(x)
        BY <3>2
      <3>3. CASE Announce(x, job[x].user, job[x].call, job[x].goal)
        <4> DEFINE r == [Idle EXCEPT !.at = "tell", !.user = job[x].user,
                                     !.call = job[x].call, !.goal = job[x].goal]
        <4>1. job' = [job EXCEPT ![x] = r] /\ r.at = "tell"
          BY <3>3
        <4> HIDE DEF r
        <4> QED BY <4>1
      <3> QED BY <3>1, <3>2, <3>3
    <2>6. CASE WriteToggle(x)
      BY <2>6 DEF WriteToggle
    <2> QED BY <1>1, <2>1, <2>2, <2>3, <2>4, <2>5, <2>6 DEF Work
  <1>2. ASSUME NEW x \in Requests, NEW u \in Users, NEW c \in Calls, Ask(x, u, c)
        PROVE  w \in Requests /\ \E s \in Switches : Toggle(w, u, c, s)
    <2> USE <1>0 DEF Idle
    <2>1. ASSUME NEW v \in Users, Initiate(x, u, v, c) PROVE FALSE
      BY <2>1 DEF Initiate
    <2>2. ASSUME Accept(x, u, c) \/ Reject(x, u, c) \/ EndCall(x, u, c) PROVE FALSE
      BY <2>2 DEF Accept, Reject, Respond, Announce, EndCall, ReadToEnd
    <2>3. ASSUME NEW s \in Switches, Toggle(x, u, c, s) PROVE x = w
      BY <2>3 DEF Toggle
    <2> QED BY <1>2, <2>1, <2>2, <2>3 DEF Ask
  <1>3. ASSUME Sweep \/ EndSwept \/ Tick \/ Crash \/ UNCHANGED vars
        PROVE  FALSE
    <2>1. CASE Sweep
      BY <1>0, <2>1 DEF Sweep, Finish, Idle, Jobs
    <2>2. CASE EndSwept
      <3>1. CASE Finish(HubLoop)
        BY <1>0, <3>1 DEF Finish, Idle
      <3>2. CASE ReadToEnd(HubLoop, job[HubLoop].user, job[HubLoop].call)
        BY <1>0, <3>2 DEF ReadToEnd, Idle
      <3> QED BY <2>2, <3>1, <3>2 DEF EndSwept
    <2>3. CASE Tick \/ Crash \/ UNCHANGED vars
      BY <1>0, <2>3 DEF Tick, Crash, Idle, vars
    <2> QED BY <1>3, <2>1, <2>2, <2>3
  <1>4. ASSUME NEW u \in Users, \/ Connect(u) \/ Disconnect(u) \/ MarkMissedRead(u)
                                \/ \E c \in Calls : HideCall(u, c)
        PROVE  FALSE
    BY <1>0, <1>4 DEF Connect, Disconnect, MarkMissedRead, HideCall, Idle
  <1> QED BY <1>1, <1>2, <1>3, <1>4, CallAssumption DEF Next

\* A toggle starts after the status check of a party, and stays backed by its row.
LEMMA TogglesStep ==
    ASSUME IInv, FlagInv, [Next]_vars
    PROVE  TogglesOK'
  <1> SUFFICES ASSUME NEW w \in Workers, job'[w].at = "toggle"
               PROVE  /\ row'[job'[w].call].started # Null
                      /\ job'[w].user \in {row'[job'[w].call].caller, row'[job'[w].call].callee}
                      /\ job'[w].goal \in {"cameraOn", "cameraOff"} => job'[w].call \in VideoCalls
    BY DEF TogglesOK, ToggleOK, Parties
  <1>0. TypeOK /\ JobsOK /\ job \in [Workers -> Jobs] /\ Requests \subseteq Workers
    BY DEF IInv, TypeOK, Workers
  <1>1. CASE job'[w] = job[w]
    <2>1. job[w].call \in Calls /\ row[job[w].call].status # "none" /\ ToggleOK(w)
      BY <1>0, <1>1 DEF JobsOK, JobOK, OnRow, FlagInv, TogglesOK
    <2> QED BY <1>1, <2>1, RowsLast DEF ToggleOK, Parties
  <1>2. CASE job'[w] # job[w]
    <2>1. \E u \in Users, c \in Calls, s \in Switches : Toggle(w, u, c, s)
      BY <1>0, <1>2, OnlyToggleStarts
    <2> PICK u \in Users, c \in Calls, s \in Switches : Toggle(w, u, c, s)
      BY <2>1
    <2>2. /\ job'[w].user = u /\ job'[w].call = c /\ job'[w].goal = s /\ row' = row
          /\ row[c].status = "connected" /\ u \in Parties(c)
          /\ s \in {"cameraOn", "cameraOff"} => c \in VideoCalls
      BY <1>0 DEF Toggle, Idle, InConversation
    <2>3. row[c].started # Null
      BY <2>2 DEF IInv, TalkTimeOnlyIfAnswered
    <2> QED BY <2>2, <2>3 DEF Parties
  <1> QED BY <1>1, <1>2

\* The flags belong to a party of an answered call after every step.
LEMMA FlagsStep ==
    ASSUME IInv, FlagInv, [Next]_vars
    PROVE  FlagsOnlyIfAnswered'
  <1> SUFFICES ASSUME NEW d \in Calls
               PROVE  /\ row'[d].muted \cup row'[d].camera # {} => row'[d].started # Null
                      /\ row'[d].muted \cup row'[d].camera \subseteq Parties(d)'
                      /\ row'[d].camera # {} => d \in VideoCalls
    BY DEF FlagsOnlyIfAnswered
  <1>0. TypeOK /\ JobsOK /\ TalkTimeOnlyIfAnswered
    BY DEF IInv
  <1>1. /\ row[d].muted \cup row[d].camera # {} => row[d].started # Null
        /\ row[d].muted \cup row[d].camera \subseteq Parties(d)
        /\ row[d].camera # {} => d \in VideoCalls
    BY DEF FlagInv, FlagsOnlyIfAnswered
  <1>2. CASE row'[d].muted = row[d].muted /\ row'[d].camera = row[d].camera
    <2>1. CASE row[d].status = "none"
      <3>1. row[d].muted = {} /\ row[d].camera = {}
        BY <1>0, <1>1, <2>1 DEF TalkTimeOnlyIfAnswered
      <3> QED BY <1>2, <3>1
    <2>2. CASE row[d].status # "none"
      BY <1>1, <1>2, <2>2, RowsLast
    <2> QED BY <2>1, <2>2
  <1>3. CASE row'[d].muted = {} /\ row'[d].camera = {}
    BY <1>3
  <1>4. ASSUME NEW w \in Workers, WriteToggle(w), job[w].call = d,
               row'[d].muted \subseteq row[d].muted \cup {job[w].user},
               \/ row'[d].camera \subseteq row[d].camera
               \/ /\ job[w].goal = "cameraOn"
                  /\ row'[d].camera = row[d].camera \cup {job[w].user}
        PROVE  /\ row'[d].started # Null
               /\ row'[d].muted \cup row'[d].camera \subseteq Parties(d)'
               /\ row'[d].camera # {} => d \in VideoCalls
    <2>1. job[w].at = "toggle" /\ JobOK(w) /\ ToggleOK(w)
      BY <1>0, <1>4 DEF WriteToggle, JobsOK, FlagInv, TogglesOK
    <2>2. row[d].status # "none" /\ row[d].started # Null /\ job[w].user \in Parties(d)
      BY <1>4, <2>1 DEF JobOK, OnRow, ToggleOK
    <2>3. job[w].goal = "cameraOn" => d \in VideoCalls
      BY <1>4, <2>1 DEF ToggleOK
    <2>4. row'[d].started # Null /\ Parties(d)' = Parties(d)
      BY <2>2, RowsLast
    <2> QED BY <1>1, <1>4, <2>2, <2>3, <2>4
  <1> QED BY <1>2, <1>3, <1>4, FlagsMove

\* Microphone and camera flags belong to a party of an answered call, in every
\* interleaving of ToggleMute and ToggleVideo with the ends of the call.
THEOREM FlagsAreBacked == Spec => []FlagsOnlyIfAnswered
  <1>1. Init => FlagInv
    BY DEF Init, FlagInv, TogglesOK, ToggleOK, Idle, FlagsOnlyIfAnswered, NoRow
  <1>2. IInv /\ FlagInv /\ [Next]_vars => FlagInv'
    BY TogglesStep, FlagsStep DEF FlagInv
  <1>3. FlagInv => FlagsOnlyIfAnswered
    BY DEF FlagInv
  <1> QED BY <1>1, <1>2, <1>3, AlwaysIInv, PTL DEF Spec
-----------------------------------------------------------------------------
(* Notifications of missed calls *)

\* A call becomes "missed" only by a handler that notifies the callee next.
LEMMA MissedMoves ==
    ASSUME IInv, [Next]_vars, NEW c \in Calls, row'[c].status = "missed"
    PROVE  row[c].status = "missed" \/ \E w \in Workers : NoticeDue(w, c)'
  <1>0. /\ TypeOK /\ JobsOK /\ row \in [Calls -> Rows] /\ job \in [Workers -> Jobs]
        /\ row[c] \in Rows
    BY DEF IInv, TypeOK
  <1>1. ASSUME NEW w \in Workers, CreateIfNotBusy(w)
        PROVE  row[c].status = "missed"
    BY <1>0, <1>1 DEF CreateIfNotBusy, NoRow
  <1>2. ASSUME NEW w \in Workers, MarkMissed(w)
        PROVE  row[c].status = "missed" \/ NoticeDue(w, c)'
    <2>1. job'[w].at = "missTell" /\ job'[w].call = job[w].call
      BY <1>0, <1>2 DEF MarkMissed, Goto, Jobs
    <2>2. job[w].call # c => row'[c] = row[c]
      BY <1>0, <1>2 DEF MarkMissed
    <2> QED BY <2>1, <2>2 DEF NoticeDue
  <1>3. ASSUME NEW w \in Workers, WriteEnd(w)
        PROVE  row[c].status = "missed" \/ NoticeDue(w, c)'
    <2> DEFINE j == job[w]
    <2>0. j.call \in Calls /\ row[j.call] \in Rows
      BY <1>0, <1>3 DEF WriteEnd, JobsOK, JobOK, OnRow
    <2>1. CASE row' = row \/ j.call # c
      BY <1>0, <1>3, <2>1 DEF WriteEnd
    <2>2. CASE row' # row /\ j.call = c
      <3>1. row' = [row EXCEPT ![c] = Updated(c, j.goal, j.stamp, j.duration)]
            /\ Announce(w, j.user, c, j.goal)
        BY <1>3, <2>2 DEF WriteEnd
      <3>2. Updated(c, j.goal, j.stamp, j.duration).status = j.goal
        BY <1>0 DEF Updated, Rows
      <3>3. j.goal = "missed"
        BY <1>0, <3>1, <3>2
      <3> DEFINE r == [Idle EXCEPT !.at = "tell", !.user = j.user, !.call = c, !.goal = j.goal]
      <3>4. job' = [job EXCEPT ![w] = r] /\ r.at = "tell" /\ r.call = c /\ r.goal = j.goal
        BY <3>1 DEF Announce, Idle
      <3> HIDE DEF r
      <3> QED BY <1>0, <3>3, <3>4 DEF NoticeDue
    <2> QED BY <2>1, <2>2
  <1>4. ASSUME NEW w \in Workers, WriteToggle(w)
        PROVE  row[c].status = "missed"
    <2>0. /\ job[w].goal \in {"muted", "unmuted", "cameraOn", "cameraOff"}
          /\ job[w].call \in Calls /\ row[job[w].call] \in Rows
      BY <1>0, <1>4, CallAssumption DEF WriteToggle, JobsOK, JobOK, OnRow
    <2> USE <1>0, <1>4, <2>0 DEF WriteToggle, Rows
    <2>1. CASE job[w].goal = "muted"
      BY <2>1
    <2>2. CASE job[w].goal = "unmuted"
      BY <2>2
    <2>3. CASE job[w].goal = "cameraOn"
      BY <2>3
    <2>4. CASE job[w].goal = "cameraOff"
      BY <2>4
    <2> QED BY <2>1, <2>2, <2>3, <2>4
  <1>5. ASSUME NEW w \in Requests, NEW u \in Users, NEW d \in Calls,
               Accept(w, u, d) \/ Reject(w, u, d)
        PROVE  row[c].status = "missed"
    BY <1>0, <1>5 DEF Accept, Reject, Rows
  <1>6. UNCHANGED vars => row' = row
    BY DEF vars
  <1> QED BY <1>1, <1>2, <1>3, <1>4, <1>5, <1>6, RowWriters

\* A notification that is due stays due until it is there, unless the server stops.
LEMMA NoticeStaysDue ==
    ASSUME IInv, [Next]_vars, ~Crash, NEW w \in Workers, NEW c \in Calls, NoticeDue(w, c)
    PROVE  NoticeDue(w, c)' \/ NoticeSettled(c)'
  <1>0. /\ job \in [Workers -> Jobs] /\ Requests \subseteq Workers /\ HubLoop \in Workers
        /\ job[w].at \in {"missTell", "tell"} /\ job[w].call = c
        /\ job[w].at = "tell" => job[w].goal = "missed"
    BY DEF IInv, TypeOK, Workers, NoticeDue
  <1>1. CASE TellMissed(w) \/ TellParties(w)
    <2>1. CreateNotification(c) /\ row' = row
      BY <1>0, <1>1 DEF TellMissed, TellParties
    <2> QED BY <2>1 DEF CreateNotification, NoticeSettled
  <1>2. CASE ~(TellMissed(w) \/ TellParties(w))
    <2>1. ASSUME NEW x \in Workers, Work(x)
          PROVE  job'[w] = job[w]
      <3>1. x # w
        BY <1>0, <1>2, <2>1 DEF Work, CreateIfNotBusy, ProbeCallee, MarkMissed, WriteEnd, WriteToggle
      <3> QED BY <1>0, <2>1, <3>1 DEF Work, CreateIfNotBusy, ProbeCallee, MarkMissed, TellMissed,
                WriteEnd, TellParties, WriteToggle, Goto, Finish, Announce
    <2>2. ASSUME NEW x \in Requests, NEW u \in Users, NEW d \in Calls, Ask(x, u, d)
          PROVE  job'[w] = job[w]
      <3> USE <1>0
      <3>1. ASSUME NEW v \in Users, Initiate(x, u, v, d) PROVE job'[w] = job[w]
        BY <3>1 DEF Initiate
      <3>2. ASSUME Accept(x, u, d) \/ Reject(x, u, d) PROVE job'[w] = job[w]
        BY <3>2 DEF Accept, Reject, Respond, Announce
      <3>3. ASSUME EndCall(x, u, d) PROVE job'[w] = job[w]
        BY <3>3 DEF EndCall, ReadToEnd
      <3>4. ASSUME NEW s \in Switches, Toggle(x, u, d, s) PROVE job'[w] = job[w]
        BY <3>4 DEF Toggle
      <3> QED BY <2>2, <3>1, <3>2, <3>3, <3>4 DEF Ask
    <2>3. ASSUME Sweep PROVE job'[w] = job[w]
      BY <1>0, <2>3 DEF Sweep, Finish
    <2>4. ASSUME EndSwept PROVE job'[w] = job[w]
      <3>1. w # HubLoop
        BY <1>0, <2>4 DEF EndSwept
      <3> QED BY <1>0, <2>4, <3>1 DEF EndSwept, ReadToEnd, Finish
    <2>5. ASSUME Tick \/ UNCHANGED vars PROVE job'[w] = job[w]
      BY <2>5 DEF Tick, vars
    <2>6. ASSUME NEW u \in Users, \/ Connect(u) \/ Disconnect(u) \/ MarkMissedRead(u)
                                  \/ \E d \in Calls : HideCall(u, d)
          PROVE  job'[w] = job[w]
      BY <1>0, <2>6 DEF Connect, Disconnect, HubFree, MarkMissedRead, HideCall
    <2>7. job'[w] = job[w]
      BY <2>1, <2>2, <2>3, <2>4, <2>5, <2>6, CallAssumption DEF Next
    <2> QED BY <2>7 DEF NoticeDue
  <1> QED BY <1>1, <1>2

\* Notifications and restarts are never taken back.
LEMMA NoticesStay ==
    ASSUME IInv, [Next]_vars
    PROVE  /\ noticed \subseteq noticed' /\ failed \subseteq failed'
           /\ crashes' = 0 => crashes = 0 /\ ~Crash
  <1>0. crashes \in Nat
    BY CallAssumption DEF IInv, TypeOK
  <1>1. ASSUME NEW w \in Workers, Work(w)
        PROVE  noticed \subseteq noticed' /\ failed \subseteq failed' /\ crashes' = crashes
    BY <1>1 DEF Work, CreateIfNotBusy, ProbeCallee, MarkMissed, TellMissed, WriteEnd,
                TellParties, WriteToggle, CreateNotification
  <1>2. ASSUME NEW w \in Requests, NEW u \in Users, NEW c \in Calls, Ask(w, u, c)
        PROVE  noticed' = noticed /\ failed' = failed /\ crashes' = crashes
    BY <1>2, AskFrame
  <1>3. ASSUME Sweep \/ EndSwept \/ Tick \/ UNCHANGED vars
        PROVE  noticed' = noticed /\ failed' = failed /\ crashes' = crashes
    BY <1>3 DEF Sweep, EndSwept, ReadToEnd, Tick, vars
  <1>4. ASSUME NEW u \in Users, \/ Connect(u) \/ Disconnect(u) \/ MarkMissedRead(u)
                                \/ \E c \in Calls : HideCall(u, c)
        PROVE  noticed' = noticed /\ failed' = failed /\ crashes' = crashes
    BY <1>4 DEF Connect, Disconnect, MarkMissedRead, HideCall
  <1>5. ASSUME Crash
        PROVE  noticed' = noticed /\ failed' = failed /\ crashes' = crashes + 1
    BY <1>5 DEF Crash
  <1> QED BY <1>0, <1>1, <1>2, <1>3, <1>4, <1>5, CallAssumption DEF Next

\* Each missed call has its notification once every handler has returned, whoever
\* recorded it, unless its callee turned these notices off or creating it failed, as
\* long as the server was not restarted.
THEOREM MissedCallsAreNoticed == Spec => []MissedIsNoticed
  <1>1. Init => NoticesDue
    BY DEF Init, NoticesDue, NoRow
  <1>2. IInv /\ NoticesDue /\ [Next]_vars => NoticesDue'
    <2> SUFFICES ASSUME IInv, NoticesDue, [Next]_vars, crashes' = 0, NEW c \in Calls,
                        row'[c].status = "missed", ~NoticeSettled(c)'
                 PROVE  \E w \in Workers : NoticeDue(w, c)'
      BY DEF NoticesDue, NoticeDue
    <2>1. CASE row[c].status = "missed"
      <3>1. crashes = 0 /\ ~Crash
        BY NoticesStay
      <3>0. ~NoticeSettled(c)
        BY <2>1, NoticesStay, RowsLast DEF NoticeSettled
      <3>2. PICK w \in Workers : NoticeDue(w, c)
        BY <2>1, <3>0, <3>1 DEF NoticesDue
      <3> QED BY <3>1, <3>2, NoticeStaysDue
    <2>2. CASE row[c].status # "missed"
      BY <2>2, MissedMoves
    <2> QED BY <2>1, <2>2
  <1>3. NoticesDue => MissedIsNoticed
    BY DEF NoticesDue, MissedIsNoticed, NoticeDue, Quiet
  <1> QED BY <1>1, <1>2, <1>3, AlwaysIInv, PTL DEF Spec

-----------------------------------------------------------------------------
(* The unread count of missed calls *)

\* The markers only move forward, to the clock, and a call that is hidden stays so.
LEMMA MarkersMove ==
    ASSUME IInv, ReadBefore, [Next]_vars
    PROVE  /\ hidden \subseteq hidden'
           /\ \A u \in Users : lastRead[u] <= lastRead'[u]
           /\ ReadBefore'
  <1>0. /\ lastRead \in [Users -> 0..MaxClock] /\ clock \in Times /\ MaxClock \in Nat
        /\ \A u \in Users : lastRead[u] <= clock /\ lastRead[u] \in Int
    BY CallAssumption DEF IInv, TypeOK, ReadBefore, Times
  <1>1. ASSUME NEW u \in Users, MarkMissedRead(u)
        PROVE  /\ hidden' = hidden /\ clock' = clock
               /\ \A v \in Users : lastRead'[v] = lastRead[v] \/ lastRead'[v] = clock
    BY <1>0, <1>1 DEF MarkMissedRead
  <1>2. ASSUME NEW u \in Users, NEW c \in Calls, HideCall(u, c)
        PROVE  hidden \subseteq hidden' /\ clock' = clock /\ lastRead' = lastRead
    BY <1>2 DEF HideCall
  <1>3. ASSUME Tick
        PROVE  hidden' = hidden /\ clock' = clock + 1 /\ lastRead' = lastRead
    BY <1>3 DEF Tick
  <1>4. ASSUME \/ \E w \in Workers : Work(w)
               \/ \E w \in Requests, u \in Users, c \in Calls : Ask(w, u, c)
               \/ \E u \in Users : Connect(u) \/ Disconnect(u)
               \/ Sweep \/ EndSwept \/ Crash \/ UNCHANGED vars
        PROVE  UNCHANGED <<hidden, lastRead, clock>>
    <2>1. ASSUME NEW w \in Workers, Work(w) PROVE UNCHANGED <<hidden, lastRead, clock>>
      BY <2>1 DEF Work, CreateIfNotBusy, ProbeCallee, MarkMissed, TellMissed, WriteEnd,
                  TellParties, WriteToggle
    <2>2. ASSUME NEW w \in Requests, NEW u \in Users, NEW c \in Calls, Ask(w, u, c)
          PROVE  UNCHANGED <<hidden, lastRead, clock>>
      BY <2>2, AskFrame
    <2>3. ASSUME NEW u \in Users, Connect(u) \/ Disconnect(u)
          PROVE  UNCHANGED <<hidden, lastRead, clock>>
      BY <2>3 DEF Connect, Disconnect
    <2>4. ASSUME Sweep \/ EndSwept \/ Crash \/ UNCHANGED vars
          PROVE  UNCHANGED <<hidden, lastRead, clock>>
      BY <2>4 DEF Sweep, EndSwept, ReadToEnd, Crash, vars
    <2> QED BY <1>4, <2>1, <2>2, <2>3, <2>4
  <1>5. /\ hidden \subseteq hidden' /\ clock' \in {clock, clock + 1}
        /\ \A v \in Users : lastRead'[v] = lastRead[v] \/ lastRead'[v] = clock
    <2>1. Readers \subseteq Users
      BY CallAssumption
    <2> QED BY <1>1, <1>2, <1>3, <1>4, <2>1 DEF Next
  <1> QED BY <1>0, <1>5 DEF ReadBefore, Times

\* A missed call the callee has read or hidden never comes back into the unread count,
\* whatever the handlers still write to its row (repository/call.repository.go:388).
THEOREM ReadIsForGood == Spec => ReadStaysRead
  <1>1. Init => ReadBefore
    BY DEF Init, ReadBefore, Null
  <1>2. IInv /\ ReadBefore /\ [Next]_vars => ReadBefore'
    BY MarkersMove
  <1>3. IInv /\ ReadBefore /\ [Next]_vars =>
          [\A u \in Users, c \in Calls :
              row[c].status = "missed" /\ row[c].callee = u /\ c \notin MissedUnread(u)
              => c \notin MissedUnread(u)']_vars
    <2> SUFFICES ASSUME IInv, ReadBefore, Next, NEW u \in Users, NEW c \in Calls,
                        row[c].status = "missed", row[c].callee = u, c \notin MissedUnread(u)
                 PROVE  c \notin MissedUnread(u)'
      OBVIOUS
    <2>1. row'[c].created = row[c].created /\ row[c].created \in Int
      BY RowsLast DEF IInv, TypeOK, Rows
    <2>2. /\ hidden \subseteq hidden' /\ lastRead[u] <= lastRead'[u] /\ lastRead[u] \in Int
          /\ lastRead'[u] \in Int
      <3>1. lastRead' \in [Users -> 0..MaxClock]
        BY StepIsSafe DEF IInv, TypeOK
      <3> QED BY <3>1, MarkersMove DEF IInv, TypeOK
    <2>3. <<u, c>> \in hidden \/ row[c].created < lastRead[u]
      BY <2>1, <2>2 DEF MissedUnread
    <2> QED BY <2>1, <2>2, <2>3 DEF MissedUnread
  <1> QED BY <1>1, <1>2, <1>3, AlwaysIInv, PTL DEF Spec, ReadStaysRead

-----------------------------------------------------------------------------
(* Refinement: the calls table implements the abstract ledger *)

PhaseOf(s) ==
    CASE s = "none"      -> "free"
      [] s \in Waiting   -> "ringing"
      [] s = "connected" -> "live"
      [] OTHER           -> "over"

\* The ledger's entry for a row.
Entry(r) == [phase |-> PhaseOf(r.status),
             parties |-> IF r.status = "none" THEN <<>> ELSE <<r.caller, r.callee>>]

\* The refinement mapping maps row by row, before a step and after it.
LEMMA LedgerByRow ==
    /\ LedgerOf = [c \in Calls |-> Entry(row[c])]
    /\ LedgerOf' = [c \in Calls |-> Entry(row'[c])]
  BY DEF LedgerOf, Phase, Entry, PhaseOf

\* A step that rewrites one row rewrites one entry.
LEMMA OneEntry ==
    ASSUME TypeOK, NEW c \in Calls, NEW r, row' = [row EXCEPT ![c] = r]
    PROVE  LedgerOf' = [LedgerOf EXCEPT ![c] = Entry(r)]
  <1>1. row \in [Calls -> Rows]
    BY DEF TypeOK
  <1> QED BY <1>1, LedgerByRow

\* A user with no active call is engaged in no entry of the ledger.
LEMMA FreeCallee ==
    ASSUME NEW v, ActiveOf(v) = {}
    PROVE  ~Ledger!Engaged(v)
  <1> SUFFICES ASSUME NEW c \in Calls, Ledger!Alive(c),
                      v \in {LedgerOf[c].parties[1], LedgerOf[c].parties[2]}
               PROVE  FALSE
    BY DEF Ledger!Engaged
  <1>1. LedgerOf[c] = Entry(row[c])
    BY LedgerByRow
  <1>2. Active(c) /\ row[c].status # "none"
    BY <1>1 DEF Ledger!Alive, Entry, PhaseOf, Active, Waiting
  <1>3. LedgerOf[c].parties = <<row[c].caller, row[c].callee>>
    BY <1>1, <1>2 DEF Entry
  <1>4. v \in Parties(c)
    BY <1>3 DEF Parties
  <1> QED BY <1>2, <1>4 DEF ActiveOf

\* Every row step is a step of the ledger, or one it does not see.
LEMMA RowStepRefines ==
    ASSUME TypeOK, NEW c \in Calls, RowStep(c)
    PROVE  Ledger!Next \/ LedgerOf' = LedgerOf
  <1>0. LedgerOf[c] = Entry(row[c]) /\ row[c] \in Rows
    BY LedgerByRow DEF TypeOK
  <1>1. CASE \E u, v \in Users : Place(c, u, v)
    <2>1. PICK u \in Users, v \in Users : Place(c, u, v)
      BY <1>1
    <2>2. PICK t \in Times : row' = [row EXCEPT ![c] =
             [NoRow EXCEPT !.status = "calling", !.caller = u, !.callee = v, !.created = t]]
      BY <2>1 DEF Place
    <2> DEFINE r == [NoRow EXCEPT !.status = "calling", !.caller = u, !.callee = v, !.created = t]
    <2>3. LedgerOf' = [LedgerOf EXCEPT ![c] = Entry(r)]
      BY <2>2, OneEntry
    <2>4. Entry(r) = Ledger!Placed(u, v)
      BY DEF Entry, PhaseOf, Ledger!Placed, NoRow, Waiting
    <2>5. LedgerOf[c].phase = "free"
      <3>1. row[c].status = "none"
        BY <2>1 DEF Place
      <3>2. PhaseOf(row[c].status) = "free"
        BY <3>1 DEF PhaseOf, Waiting
      <3> QED BY <1>0, <3>2 DEF Entry
    <2>6. u # v /\ ~Ledger!Engaged(v)
      BY <2>1, FreeCallee DEF Place
    <2> HIDE DEF r
    <2>7. Ledger!Place(c, u, v)
      BY <2>3, <2>4, <2>5, <2>6 DEF Ledger!Place
    <2> QED BY <2>7 DEF Ledger!Next
  <1>2. CASE Answer(c)
    <2> DEFINE r == [row[c] EXCEPT !.status = "connected", !.started = clock]
    <2>1. row' = [row EXCEPT ![c] = r]
      BY <1>2, <1>0 DEF Answer, TypeOK
    <2>2. LedgerOf' = [LedgerOf EXCEPT ![c] = Entry(r)]
      BY <2>1, OneEntry
    <2>3. row[c].status \in Waiting /\ row[c].status # "none"
      BY <1>2 DEF Answer, Waiting
    <2>4. Entry(r) = [LedgerOf[c] EXCEPT !.phase = "live"] /\ LedgerOf[c].phase = "ringing"
      BY <1>0, <2>3 DEF Entry, PhaseOf, Rows, Waiting
    <2> HIDE DEF r
    <2>5. Ledger!Answer(c)
      BY <2>2, <2>4 DEF Ledger!Answer
    <2> QED BY <2>5 DEF Ledger!Next
  <1>3. CASE Close(c)
    <2>1. PICK s \in Terminal, t \in 0..MaxClock, d \in 0..MaxClock :
             row' = [row EXCEPT ![c] = [row[c] EXCEPT !.status = s, !.ended = t, !.duration = d]]
      BY <1>3 DEF Close
    <2> DEFINE r == [row[c] EXCEPT !.status = s, !.ended = t, !.duration = d]
    <2>2. LedgerOf' = [LedgerOf EXCEPT ![c] = Entry(r)]
      BY <2>1, OneEntry
    <2>3. row[c].status # "none"
      BY <1>3 DEF Close
    <2>4. Entry(r) = [LedgerOf[c] EXCEPT !.phase = "over"]
      BY <1>0, <2>3 DEF Entry, PhaseOf, Rows, Waiting, Terminal
    <2> HIDE DEF r
    <2>5. CASE row[c].status \in Terminal
      <3>1. LedgerOf[c].phase = "over"
        BY <1>0, <2>5 DEF Entry, PhaseOf, Terminal, Waiting
      <3>2. LedgerOf[c] = [LedgerOf[c] EXCEPT !.phase = "over"]
        BY <1>0, <3>1 DEF Entry
      <3>3. LedgerOf' = [LedgerOf EXCEPT ![c] = LedgerOf[c]]
        BY <2>2, <2>4, <3>2
      <3> QED BY <3>3, LedgerByRow
    <2>6. CASE row[c].status \notin Terminal
      <3>1. Ledger!Alive(c)
        BY <1>0, <2>3, <2>6 DEF Ledger!Alive, Entry, PhaseOf, Rows, Statuses, Terminal, Waiting
      <3>2. Ledger!Close(c)
        BY <2>2, <2>4, <3>1 DEF Ledger!Close
      <3> QED BY <3>2 DEF Ledger!Next
    <2> QED BY <2>5, <2>6
  <1>4. CASE Flag(c)
    <2>1. PICK m \in SUBSET Users, k \in SUBSET Users :
             row' = [row EXCEPT ![c] = [row[c] EXCEPT !.muted = m, !.camera = k]]
      BY <1>4 DEF Flag
    <2> DEFINE r == [row[c] EXCEPT !.muted = m, !.camera = k]
    <2>2. LedgerOf' = [LedgerOf EXCEPT ![c] = Entry(r)]
      BY <2>1, OneEntry
    <2>3. Entry(r) = LedgerOf[c]
      BY <1>0 DEF Entry, Rows
    <2> HIDE DEF r
    <2> QED BY <2>2, <2>3, LedgerByRow
  <1> QED BY <1>1, <1>2, <1>3, <1>4 DEF RowStep

\* The calls table, under every interleaving of handlers, cleanups and restarts, does only
\* what the abstract ledger allows.
THEOREM ImplementsLedger == Spec => LedgerSpec
  <1>1. Init => Ledger!Init
    <2>1. Entry(NoRow) = Ledger!Unplaced
      BY DEF Entry, PhaseOf, NoRow, Ledger!Unplaced, Waiting
    <2> SUFFICES ASSUME Init PROVE LedgerOf = [c \in Calls |-> Ledger!Unplaced]
      BY DEF Ledger!Init
    <2>2. \A c \in Calls : Entry(row[c]) = Ledger!Unplaced
      BY <2>1 DEF Init
    <2>3. LedgerOf = [c \in Calls |-> Entry(row[c])]
      BY LedgerByRow
    <2> QED BY <2>2, <2>3
  <1>2. IInv /\ [Next]_vars => [Ledger!Next]_LedgerOf
    <2>1. CASE UNCHANGED vars
      BY <2>1, LedgerByRow DEF vars
    <2>2. CASE IInv /\ Next
      <3>1. row' = row => LedgerOf' = LedgerOf
        BY LedgerByRow
      <3> QED BY <2>2, <3>1, StepIsRowStep, RowStepRefines DEF IInv
    <2> QED BY <2>1, <2>2
  <1> QED BY <1>1, <1>2, AlwaysIInv, PTL DEF Spec, LedgerSpec, Ledger!Spec
=============================================================================
