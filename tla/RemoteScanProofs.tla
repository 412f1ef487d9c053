--------------------------- MODULE RemoteScanProofs ---------------------------
(***************************************************************************)
(* One remote scan, for any number of retries, any budgets and any host.   *)
(***************************************************************************)
EXTENDS RemoteScan, TLAPS

(* How long the first attempt can have taken, stage by stage. *)
TimeInv ==
    ended = "no" /\ attempt = 1 =>
        /\ pc = "start" => elapsed = 0
        /\ pc = "connect" => elapsed <= due /\ due <= CONNECT_BUDGET
        /\ pc = "load" => elapsed <= CONNECT_BUDGET + slack
        /\ pc = "handshake" =>
            elapsed <= due /\ due <= CONNECT_BUDGET + slack + HANDSHAKE_AUTH_BUDGET
        /\ pc \in Inner =>
            elapsed <= due /\ due <= CONNECT_BUDGET + slack + HANDSHAKE_AUTH_BUDGET + SCAN_BUDGET
        /\ pc = "cleanup" =>
            /\ elapsed <= due
            /\ due <= CONNECT_BUDGET + slack + HANDSHAKE_AUTH_BUDGET + SCAN_BUDGET + CLEANUP_BUDGET

(* Retries are within bounds and on record. *)
RetryInv ==
    /\ pc = "backoff" => attempt <= Retries /\ notes
    /\ attempt > 1 => notes

Before == {"start", "connect", "load", "handshake", "preflight", "stage"}
Uploading == {"upload", "feed"}
Running == {"open", "probe", "exec", "collect"}

(* What the host was asked: nothing by attempts to come, of this one what is due. *)
AskedInv ==
    /\ \A a \in Attempt : a > attempt => mk[a] = "none" /\ shell[a] = "none" /\ rm[a] = "none"
    /\ pc \in Before => mk[attempt] = "none"
    /\ pc \in Before \cup {"mktemp", "upload"} => shell[attempt] = "none"
    /\ pc \in Before \cup Inner => rm[attempt] = "none"
    /\ \A a \in Attempt :
        /\ mk[a] # "none" => opt.copy /\ ~opt.path
        /\ mk[a] = "asked" => rm[a] = "none"
        /\ shell[a] # "none" => opt.copy
        /\ rm[a] # "none" => opt.copy
        /\ rm[a] = "dir" => ~opt.path
        /\ rm[a] \in {"part", "bin"} => opt.path

(* What is on record locally. *)
RecordInv ==
    /\ pc \in Uploading \cup {"cleanup"} => artifact
    /\ artifact => opt.copy /\ (opt.path \/ mk[attempt] = "done")
    /\ pc \in Running /\ opt.copy => uploaded
    /\ uploaded => artifact /\ shell[attempt] = "ok"
    /\ verdict = "report" /\ opt.copy => uploaded

(* A removal of the binary is asked for only when the operator's is gone already. *)
ReplacedInv ==
    opt.path => \A a \in Attempt : (shell[a] = "ok" \/ rm[a] = "bin") => bin[0] # Operators

(* An attempt that has its place on the host for itself finds there what it put there. *)
PlaceInv ==
    (opt.copy /\ (opt.path => attempt = 1) /\ rm[attempt] = "none") =>
        /\ shell[attempt] \in {"cat", "eof"} => part[Place(attempt)] = attempt
        /\ link = "up" /\ shell[attempt] = "eof" => whole[attempt]
        /\ link = "up" /\ shell[attempt] = "ok" =>
            bin[Place(attempt)] = attempt /\ whole[attempt]
        /\ uploaded => bin[Place(attempt)] = attempt /\ whole[attempt]

(* The teardown of a first attempt that went well leaves nothing, and nothing comes after. *)
CleanInv ==
    attempt = 1 =>
        /\ 0 \in dirs /\ dirs \subseteq {0, 1}
        /\ mk[1] # "done" => 1 \notin dirs
        /\ shell[1] = "ok" => part[Place(1)] = Absent
        /\ mk[1] = "done" /\ rm[1] = "done" => 1 \notin dirs
        /\ uploaded /\ opt.path => rm[1] # "part" /\ (rm[1] = "done" => bin[0] = Absent)
        /\ pc \in {"disconnect", "decide"} /\ verdict = "report" /\ ~warned /\ opt.copy =>
            rm[1] = "done"
        /\ result = "report" /\ ~warned /\ opt.copy =>
            /\ rm[1] = "done" /\ shell[1] = "ok"
            /\ ~opt.path => mk[1] = "done"
            /\ opt.path => bin[0] = Absent

EndInv == result = "report" \/ pc = "end" => ended # "no"

ScanInv ==
    /\ TypeOK /\ TimeInv /\ RetryInv /\ AskedInv /\ RecordInv /\ ReplacedInv
    /\ PlaceInv /\ CleanInv /\ EndInv

-------------------------------------------------------------------------------
(* The invariant holds before anything was asked of the host. *)
LEMMA InitScanInv == Init => ScanInv
  <1> SUFFICES ASSUME Init PROVE ScanInv
    OBVIOUS
  <1> USE BudgetAssumption, OptionsAssumption DEF Attempt, Dir, Absent, Operators
  <1>1. TypeOK
    <2>1. bin \in [Dir -> 0 .. Operators]
      <3>1. PICK f \in {Absent, Operators} :
              bin = [d \in Dir |-> IF d = 0 /\ opt.path THEN f ELSE Absent]
        BY DEF Init
      <3>2. f \in 0 .. Operators /\ Absent \in 0 .. Operators
        OBVIOUS
      <3> QED BY <3>1, <3>2
    <2>2. elapsed \in 0 .. host_ceiling /\ due \in Nat /\ slack \in Nat
      BY DEF Init, host_ceiling
    <2>3. part \in [Dir -> Dir] /\ dirs \subseteq Dir /\ attempt \in Attempt
      BY DEF Init
    <2>4. /\ mk \in [Attempt -> {"none", "asked", "done"}]
          /\ shell \in [Attempt -> {"none", "asked", "cat", "eof", "ok", "failed"}]
          /\ rm \in [Attempt -> {"none", "dir", "part", "bin", "done"}]
      BY DEF Init
    <2>5. fed \in [Attempt -> BOOLEAN] /\ whole \in [Attempt -> BOOLEAN]
      BY DEF Init
    <2> QED BY <2>1, <2>2, <2>3, <2>4, <2>5 DEF Init, TypeOK, Places
  <1>2. TimeInv /\ RetryInv /\ EndInv
    BY DEF Init, TimeInv, RetryInv, EndInv, Inner
  <1>3. AskedInv /\ RecordInv
    BY DEF Init, AskedInv, RecordInv, Before, Uploading, Running, Inner
  <1>4. ReplacedInv /\ PlaceInv /\ CleanInv
    BY DEF Init, ReplacedInv, PlaceInv, CleanInv, Place
  <1> QED BY <1>1, <1>2, <1>3, <1>4 DEF ScanInv

(* The delay before a retry is a number. *)
LEMMA DelayType == \A n \in Attempt : retry_delay(n) \in Nat
  BY BudgetAssumption DEF retry_delay, Attempt

(* Every step keeps the types. *)
LEMMA ScanTypeStep == ASSUME ScanInv, [Next]_vars PROVE TypeOK'
  <1> USE BudgetAssumption, OptionsAssumption
      DEF ScanInv, TypeOK, Places, Inner, timeVars, localVars, reportVars, hostVars,
          At, Elsewhere, host_ceiling
  <1>0. ASSUME NEW how \in {"returned", "ceiling", "aborted"}, Ends(how),
               result' \in {"report", "none"}
        PROVE TypeOK'
    <2>1. 0 \in 0 .. host_ceiling OBVIOUS
    <2> QED BY <1>0, <2>1 DEF Ends
  <1>1. CASE Establish
    BY <1>1 DEF Establish, Connect, LoadKey, Handshake, EstablishFails
  <1>2. CASE Scan
    <2>1. CASE Preflight \/ StageNothing
      BY <2>1 DEF Preflight, StageNothing
    <2>5. CASE StagePath BY <2>5 DEF StagePath
    <2>6. CASE MktempAnswers BY <2>6 DEF MktempAnswers
    <2>7. CASE UploadAnswers BY <2>7 DEF UploadAnswers
    <2>4. CASE OpenExec \/ ProbeSudo \/ Execute
      BY <2>4 DEF OpenExec, ProbeSudo, Execute
    <2>2. CASE StageMktemp \/ UploadAsks \/ UploadFeeds
      BY <2>2 DEF StageMktemp, UploadAsks, UploadFeeds
    <2>3. CASE Collect \/ \E v \in {"transient", "final"} : ScanFails(v)
      BY <2>3 DEF Collect, ScanFails, AfterScan
    <2> QED BY <1>2, <2>1, <2>2, <2>3, <2>4, <2>5, <2>6, <2>7 DEF Scan
  <1>3. CASE Cleanup
    <2>1. CASE CleanupAsks
      <3>1. teardown_cmd \in {"none", "dir", "part", "bin", "done"}
        BY DEF teardown_cmd
      <3> QED BY <2>1, <3>1 DEF CleanupAsks
    <2>2. CASE CleanupConfirmed BY <2>2 DEF CleanupConfirmed
    <2>3. CASE CleanupUnconfirmed BY <2>3 DEF CleanupUnconfirmed
    <2> QED BY <1>3, <2>1, <2>2, <2>3 DEF Cleanup
  <1>4. CASE Timer
    <2>1. CASE Validate BY <2>1 DEF Validate
    <2>2. CASE EstablishTimesOut BY <2>2 DEF EstablishTimesOut, EstablishFails
    <2>3. CASE ScanTimesOut BY <2>3 DEF ScanTimesOut, ScanFails, AfterScan
    <2>4. CASE CleanupTimesOut BY <2>4 DEF CleanupTimesOut, CleanupUnconfirmed
    <2>5. CASE Disconnect BY <2>5 DEF Disconnect
    <2>6. CASE DecideRetry BY <2>6, DelayType DEF DecideRetry
    <2>7. CASE NextAttempt
      <3>1. attempt + 1 \in Attempt BY <2>7 DEF NextAttempt, RetryInv, Attempt
      <3>2. due' \in Nat /\ slack' \in Nat BY <2>7 DEF NextAttempt
      <3> QED BY <2>7, <3>1, <3>2 DEF NextAttempt
    <2>8. CASE Refuse \/ DecideFailed \/ CeilingFires
      BY <2>8, <1>0 DEF Refuse, DecideFailed, CeilingFires
    <2>9. CASE DecideReport BY <2>9, <1>0 DEF DecideReport
    <2> QED BY <1>4, <2>1, <2>2, <2>3, <2>4, <2>5, <2>6, <2>7, <2>8, <2>9 DEF Timer
  <1>5. CASE Abort BY <1>5, <1>0 DEF Abort
  <1>6. CASE Tick BY <1>6 DEF Tick
  <1>7. CASE Host
    <2> SUFFICES ASSUME NEW a \in Attempt,
                        \/ HostMktemp(a) \/ ShellStarts(a) \/ CatEnds(a) \/ ShellMoves(a)
                        \/ ShellFails(a) \/ HostRemoves(a),
                        UNCHANGED <<opt, pc, ended, attempt, timeVars, link, localVars,
                                    reportVars, fed>>
                 PROVE TypeOK'
      BY <1>7 DEF Host
    <2>0. a \in Dir /\ Place(a) \in Dir /\ Absent \in Dir /\ Dir \subseteq 0 .. Operators
      BY DEF Attempt, Dir, Place, Absent, Operators
    <2>1. CASE HostMktemp(a) BY <2>0, <2>1 DEF HostMktemp
    <2>2. CASE ShellStarts(a) BY <2>0, <2>2 DEF ShellStarts
    <2>3. CASE CatEnds(a)
      <3>1. whole' \in [Attempt -> BOOLEAN] BY <2>3 DEF CatEnds
      <3>2. shell' \in [Attempt -> {"none", "asked", "cat", "eof", "ok", "failed"}]
        BY <2>3 DEF CatEnds
      <3>3. UNCHANGED <<dirs, part, bin, mk, rm>> BY <2>3 DEF CatEnds
      <3> QED BY <3>1, <3>2, <3>3
    <2>4. CASE ShellMoves(a)
      <3>1. part[Place(a)] \in 0 .. Operators BY <2>0
      <3> QED BY <2>0, <2>4, <3>1 DEF ShellMoves
    <2>5. CASE ShellFails(a) BY <2>5 DEF ShellFails
    <2>6. CASE HostRemoves(a) BY <2>0, <2>6 DEF HostRemoves
    <2> QED BY <2>1, <2>2, <2>3, <2>4, <2>5, <2>6
  <1>8. CASE LinkBreaks BY <1>8 DEF LinkBreaks
  <1>9. CASE Over \/ UNCHANGED vars BY <1>9 DEF Over, vars
  <1> QED BY <1>1, <1>2, <1>3, <1>4, <1>5, <1>6, <1>7, <1>8, <1>9 DEF Next

(* Each stage of the first attempt starts within its sum of budgets. *)
LEMMA TimeStep == ASSUME ScanInv, TypeOK', [Next]_vars PROVE TimeInv' /\ RetryInv' /\ EndInv'
  <1> USE BudgetAssumption DEF ScanInv, TimeInv, RetryInv, EndInv, TypeOK, Inner, timeVars, localVars, reportVars, hostVars,
          At, Elsewhere, Attempt
  <1>0. ASSUME NEW how \in {"returned", "ceiling", "aborted"}, Ends(how) PROVE TimeInv' /\ RetryInv' /\ EndInv'
    BY <1>0 DEF Ends
  <1>1. CASE Establish
    <2>1. CASE Connect BY <2>1 DEF Connect
    <2>2. CASE LoadKey BY <2>2 DEF LoadKey
    <2>3. CASE Handshake BY <2>3 DEF Handshake
    <2>4. CASE \E v \in {"transient", "final"} : EstablishFails(v)
      BY <2>4 DEF EstablishFails
    <2> QED BY <1>1, <2>1, <2>2, <2>3, <2>4 DEF Establish
  <1>2. CASE Scan
    <2>1. CASE Preflight \/ StageNothing \/ OpenExec \/ ProbeSudo \/ Execute
      BY <2>1 DEF Preflight, StageNothing, OpenExec, ProbeSudo, Execute
    <2>2. CASE StagePath \/ MktempAnswers \/ UploadAnswers
      BY <2>2 DEF StagePath, MktempAnswers, UploadAnswers
    <2>3. CASE StageMktemp BY <2>3 DEF StageMktemp
    <2>4. CASE UploadAsks BY <2>4 DEF UploadAsks
    <2>5. CASE UploadFeeds BY <2>5 DEF UploadFeeds
    <2>6. CASE Collect BY <2>6 DEF Collect, AfterScan
    <2>7. CASE \E v \in {"transient", "final"} : ScanFails(v)
      BY <2>7 DEF ScanFails, AfterScan
    <2> QED BY <1>2, <2>1, <2>2, <2>3, <2>4, <2>5, <2>6, <2>7 DEF Scan
  <1>3. CASE Cleanup
    BY <1>3 DEF Cleanup, CleanupAsks, CleanupConfirmed, CleanupUnconfirmed, teardown_cmd
  <1>4. CASE Timer
    <2>1. CASE Validate BY <2>1 DEF Validate
    <2>2. CASE EstablishTimesOut BY <2>2 DEF EstablishTimesOut, EstablishFails
    <2>3. CASE ScanTimesOut BY <2>3 DEF ScanTimesOut, ScanFails, AfterScan
    <2>4. CASE CleanupTimesOut BY <2>4 DEF CleanupTimesOut, CleanupUnconfirmed
    <2>5. CASE Disconnect BY <2>5 DEF Disconnect
    <2>6. CASE DecideRetry BY <2>6 DEF DecideRetry
    <2>7. CASE NextAttempt BY <2>7 DEF NextAttempt
    <2>8. CASE Refuse \/ DecideReport \/ DecideFailed \/ CeilingFires
      BY <2>8, <1>0 DEF Refuse, DecideReport, DecideFailed, CeilingFires
    <2> QED BY <1>4, <2>1, <2>2, <2>3, <2>4, <2>5, <2>6, <2>7, <2>8 DEF Timer
  <1>5. CASE Abort BY <1>5, <1>0 DEF Abort
  <1>6. CASE Tick BY <1>6 DEF Tick
  <1>7. CASE Host
    BY <1>7 DEF Host, HostMktemp, ShellStarts, CatEnds, ShellMoves, ShellFails, HostRemoves
  <1>8. CASE LinkBreaks BY <1>8 DEF LinkBreaks
  <1>9. CASE Over \/ UNCHANGED vars BY <1>9 DEF Over, vars
  <1> QED BY <1>1, <1>2, <1>3, <1>4, <1>5, <1>6, <1>7, <1>8, <1>9 DEF Next

(* Commands are asked for in order, and only the current attempt asks. *)
LEMMA AskedStep == ASSUME ScanInv, TypeOK', [Next]_vars PROVE AskedInv'
  <1> USE BudgetAssumption DEF ScanInv, RetryInv, AskedInv, RecordInv, Before, Uploading, Running, TypeOK, Inner, timeVars, localVars, reportVars, hostVars,
          At, Elsewhere, Attempt
  <1>0. ASSUME NEW how \in {"returned", "ceiling", "aborted"}, Ends(how) PROVE AskedInv'
    BY <1>0 DEF Ends
  <1>1. CASE Establish
    <2>1. CASE Connect BY <2>1 DEF Connect
    <2>2. CASE LoadKey BY <2>2 DEF LoadKey
    <2>3. CASE Handshake BY <2>3 DEF Handshake
    <2>4. CASE \E v \in {"transient", "final"} : EstablishFails(v)
      BY <2>4 DEF EstablishFails
    <2> QED BY <1>1, <2>1, <2>2, <2>3, <2>4 DEF Establish
  <1>2. CASE Scan
    <2>1. CASE Preflight \/ StageNothing \/ OpenExec \/ ProbeSudo \/ Execute
      BY <2>1 DEF Preflight, StageNothing, OpenExec, ProbeSudo, Execute
    <2>2. CASE StagePath \/ MktempAnswers \/ UploadAnswers
      BY <2>2 DEF StagePath, MktempAnswers, UploadAnswers
    <2>3. CASE StageMktemp BY <2>3 DEF StageMktemp
    <2>4. CASE UploadAsks BY <2>4 DEF UploadAsks
    <2>5. CASE UploadFeeds BY <2>5 DEF UploadFeeds
    <2>6. CASE Collect BY <2>6 DEF Collect, AfterScan
    <2>7. CASE \E v \in {"transient", "final"} : ScanFails(v)
      BY <2>7 DEF ScanFails, AfterScan
    <2> QED BY <1>2, <2>1, <2>2, <2>3, <2>4, <2>5, <2>6, <2>7 DEF Scan
  <1>3. CASE Cleanup
    <2>1. CASE CleanupAsks BY <2>1 DEF CleanupAsks, teardown_cmd
    <2>2. CASE CleanupConfirmed BY <2>2 DEF CleanupConfirmed
    <2>3. CASE CleanupUnconfirmed BY <2>3 DEF CleanupUnconfirmed
    <2> QED BY <1>3, <2>1, <2>2, <2>3 DEF Cleanup
  <1>4. CASE Timer
    <2>1. CASE Validate BY <2>1 DEF Validate
    <2>2. CASE EstablishTimesOut BY <2>2 DEF EstablishTimesOut, EstablishFails
    <2>3. CASE ScanTimesOut BY <2>3 DEF ScanTimesOut, ScanFails, AfterScan
    <2>4. CASE CleanupTimesOut BY <2>4 DEF CleanupTimesOut, CleanupUnconfirmed
    <2>5. CASE Disconnect BY <2>5 DEF Disconnect
    <2>6. CASE DecideRetry BY <2>6 DEF DecideRetry
    <2>7. CASE NextAttempt BY <2>7 DEF NextAttempt
    <2>8. CASE Refuse \/ DecideReport \/ DecideFailed \/ CeilingFires
      BY <2>8, <1>0 DEF Refuse, DecideReport, DecideFailed, CeilingFires
    <2> QED BY <1>4, <2>1, <2>2, <2>3, <2>4, <2>5, <2>6, <2>7, <2>8 DEF Timer
  <1>5. CASE Abort BY <1>5, <1>0 DEF Abort
  <1>6. CASE Tick BY <1>6 DEF Tick
  <1>7. CASE Host
    BY <1>7 DEF Host, HostMktemp, ShellStarts, CatEnds, ShellMoves, ShellFails, HostRemoves
  <1>8. CASE LinkBreaks BY <1>8 DEF LinkBreaks
  <1>9. CASE Over \/ UNCHANGED vars BY <1>9 DEF Over, vars
  <1> QED BY <1>1, <1>2, <1>3, <1>4, <1>5, <1>6, <1>7, <1>8, <1>9 DEF Next

(* The records of what was staged and uploaded are kept in step with the host. *)
LEMMA RecordStep == ASSUME ScanInv, TypeOK', [Next]_vars PROVE RecordInv'
  <1> USE BudgetAssumption DEF ScanInv, AskedInv, RecordInv, Before, Uploading, Running, TypeOK, Inner, timeVars, localVars, reportVars, hostVars,
          At, Elsewhere, Attempt
  <1>0. ASSUME NEW how \in {"returned", "ceiling", "aborted"}, Ends(how) PROVE RecordInv'
    BY <1>0 DEF Ends
  <1>1. CASE Establish
    <2>1. CASE Connect BY <2>1 DEF Connect
    <2>2. CASE LoadKey BY <2>2 DEF LoadKey
    <2>3. CASE Handshake BY <2>3 DEF Handshake
    <2>4. CASE \E v \in {"transient", "final"} : EstablishFails(v)
      BY <2>4 DEF EstablishFails
    <2> QED BY <1>1, <2>1, <2>2, <2>3, <2>4 DEF Establish
  <1>2. CASE Scan
    <2>1. CASE Preflight \/ StageNothing \/ OpenExec \/ ProbeSudo \/ Execute
      BY <2>1 DEF Preflight, StageNothing, OpenExec, ProbeSudo, Execute
    <2>2. CASE StagePath \/ MktempAnswers \/ UploadAnswers
      BY <2>2 DEF StagePath, MktempAnswers, UploadAnswers
    <2>3. CASE StageMktemp BY <2>3 DEF StageMktemp
    <2>4. CASE UploadAsks BY <2>4 DEF UploadAsks
    <2>5. CASE UploadFeeds BY <2>5 DEF UploadFeeds
    <2>6. CASE Collect BY <2>6 DEF Collect, AfterScan
    <2>7. CASE \E v \in {"transient", "final"} : ScanFails(v)
      BY <2>7 DEF ScanFails, AfterScan
    <2> QED BY <1>2, <2>1, <2>2, <2>3, <2>4, <2>5, <2>6, <2>7 DEF Scan
  <1>3. CASE Cleanup
    BY <1>3 DEF Cleanup, CleanupAsks, CleanupConfirmed, CleanupUnconfirmed, teardown_cmd
  <1>4. CASE Timer
    <2>1. CASE Validate BY <2>1 DEF Validate
    <2>2. CASE EstablishTimesOut BY <2>2 DEF EstablishTimesOut, EstablishFails
    <2>3. CASE ScanTimesOut BY <2>3 DEF ScanTimesOut, ScanFails, AfterScan
    <2>4. CASE CleanupTimesOut BY <2>4 DEF CleanupTimesOut, CleanupUnconfirmed
    <2>5. CASE Disconnect BY <2>5 DEF Disconnect
    <2>6. CASE DecideRetry BY <2>6 DEF DecideRetry
    <2>7. CASE NextAttempt BY <2>7 DEF NextAttempt
    <2>8. CASE Refuse \/ DecideReport \/ DecideFailed \/ CeilingFires
      BY <2>8, <1>0 DEF Refuse, DecideReport, DecideFailed, CeilingFires
    <2> QED BY <1>4, <2>1, <2>2, <2>3, <2>4, <2>5, <2>6, <2>7, <2>8 DEF Timer
  <1>5. CASE Abort BY <1>5, <1>0 DEF Abort
  <1>6. CASE Tick BY <1>6 DEF Tick
  <1>7. CASE Host
    BY <1>7 DEF Host, HostMktemp, ShellStarts, CatEnds, ShellMoves, ShellFails, HostRemoves
  <1>8. CASE LinkBreaks BY <1>8 DEF LinkBreaks
  <1>9. CASE Over \/ UNCHANGED vars BY <1>9 DEF Over, vars
  <1> QED BY <1>1, <1>2, <1>3, <1>4, <1>5, <1>6, <1>7, <1>8, <1>9 DEF Next

(***************************************************************************)
(* What the steps have in common that neither ask the host for anything    *)
(* nor are its own.                                                        *)
(***************************************************************************)
Quiet ==
    /\ UNCHANGED <<opt, dirs, part, bin, mk, shell, rm, whole>>
    /\ attempt' = attempt \/ NextAttempt
    /\ link' = "up" => link = "up" \/ Handshake
    /\ uploaded' => uploaded \/ UploadAnswers
    /\ warned => warned'
    /\ result' = "report" => result = "report" \/ DecideReport
    /\ (pc' \in {"disconnect", "decide"} /\ verdict' = "report") =>
        \/ pc \in {"disconnect", "decide"} /\ verdict = "report"
        \/ Collect \/ CleanupConfirmed \/ CleanupUnconfirmed

(* All other steps ask for a command or are steps of the host. *)
LEMMA QuietStep ==
    ASSUME [Next]_vars
    PROVE Quiet \/ StageMktemp \/ UploadAsks \/ CleanupAsks \/ Host
  <1> USE DEF At, Elsewhere, Quiet, timeVars, localVars, reportVars, hostVars
  <1>0. ASSUME NEW how \in {"returned", "ceiling", "aborted"}, Ends(how),
               UNCHANGED result \/ DecideReport
        PROVE Quiet
    BY <1>0 DEF Ends
  <1>1. CASE Establish
    BY <1>1 DEF Establish, Connect, LoadKey, Handshake, EstablishFails
  <1>2. CASE Scan
    <2>1. CASE Preflight \/ StagePath \/ StageNothing \/ MktempAnswers \/ UploadFeeds
      BY <2>1 DEF Preflight, StagePath, StageNothing, MktempAnswers, UploadFeeds
    <2>2. CASE UploadAnswers BY <2>2 DEF UploadAnswers
    <2>3. CASE OpenExec \/ ProbeSudo \/ Execute
      BY <2>3 DEF OpenExec, ProbeSudo, Execute
    <2>4. CASE Collect BY <2>4 DEF Collect, AfterScan
    <2>5. ASSUME NEW v \in {"transient", "final"}, ScanFails(v) PROVE Quiet
      BY <2>5 DEF ScanFails, AfterScan
    <2> QED BY <1>2, <2>1, <2>2, <2>3, <2>4, <2>5 DEF Scan
  <1>3. CASE Cleanup
    BY <1>3 DEF Cleanup, CleanupConfirmed, CleanupUnconfirmed
  <1>4. CASE Timer
    <2>1. CASE Validate BY <2>1 DEF Validate
    <2>2. CASE EstablishTimesOut BY <2>2 DEF EstablishTimesOut, EstablishFails
    <2>3. CASE ScanTimesOut BY <2>3 DEF ScanTimesOut, ScanFails, AfterScan
    <2>4. CASE CleanupTimesOut BY <2>4 DEF CleanupTimesOut, CleanupUnconfirmed
    <2>5. CASE Disconnect BY <2>5 DEF Disconnect
    <2>6. CASE DecideRetry BY <2>6 DEF DecideRetry
    <2>7. CASE NextAttempt BY <2>7 DEF NextAttempt
    <2>8. CASE Refuse \/ DecideReport \/ DecideFailed \/ CeilingFires
      BY <2>8, <1>0 DEF Refuse, DecideReport, DecideFailed, CeilingFires
    <2> QED BY <1>4, <2>1, <2>2, <2>3, <2>4, <2>5, <2>6, <2>7, <2>8 DEF Timer
  <1>5. CASE Abort BY <1>5, <1>0 DEF Abort
  <1>6. CASE Tick BY <1>6 DEF Tick
  <1>7. CASE LinkBreaks BY <1>7 DEF LinkBreaks
  <1>8. CASE Over \/ UNCHANGED vars BY <1>8 DEF Over, vars
  <1> QED BY <1>1, <1>2, <1>3, <1>4, <1>5, <1>6, <1>7, <1>8 DEF Next

(* Once the upload took the place of the operator's binary, that is for good. *)
LEMMA ReplacedStep == ASSUME ScanInv, TypeOK', [Next]_vars PROVE ReplacedInv'
  <1>a. Absent # Operators /\ 0 \in Dir /\ Operators \notin Dir
    BY BudgetAssumption DEF Dir, Operators, Absent
  <1>0. /\ \A d \in Dir : part[d] # Operators
        /\ Absent # Operators /\ 0 \in Dir
        /\ shell \in [Attempt -> {"none", "asked", "cat", "eof", "ok", "failed"}]
        /\ rm \in [Attempt -> {"none", "dir", "part", "bin", "done"}]
        /\ bin \in [Dir -> 0 .. Operators] /\ attempt \in Attempt
    BY <1>a DEF ScanInv, TypeOK
  <1>1. CASE Quiet BY <1>1 DEF Quiet, ScanInv, ReplacedInv
  <1>2. CASE StageMktemp BY <1>2 DEF StageMktemp, ScanInv, ReplacedInv
  <1>3. CASE UploadAsks BY <1>0, <1>3 DEF UploadAsks, ScanInv, ReplacedInv
  <1>4. CASE CleanupAsks
    BY <1>0, <1>4 DEF CleanupAsks, teardown_cmd, ScanInv, ReplacedInv, RecordInv
  <1>5. CASE Host
    <2> SUFFICES ASSUME NEW a \in Attempt,
                        \/ HostMktemp(a) \/ ShellStarts(a) \/ CatEnds(a) \/ ShellMoves(a)
                        \/ ShellFails(a) \/ HostRemoves(a),
                        UNCHANGED opt, opt.path, ReplacedInv
                 PROVE ReplacedInv'
      BY <1>5 DEF Host, ScanInv, ReplacedInv
    <2>0. Place(a) = 0 BY DEF Place
    <2>1. CASE HostMktemp(a) \/ ShellStarts(a) \/ CatEnds(a) \/ ShellFails(a)
      BY <1>0, <2>1 DEF HostMktemp, ShellStarts, CatEnds, ShellFails, ReplacedInv
    <2>2. CASE ShellMoves(a)
      <3>1. bin'[0] # Operators BY <1>0, <2>0, <2>2 DEF ShellMoves
      <3> QED BY <3>1 DEF ReplacedInv
    <2>3. CASE HostRemoves(a)
      <3>1. bin'[0] = Operators => bin[0] = Operators /\ rm' = [rm EXCEPT ![a] = "done"]
                                   /\ UNCHANGED shell
        BY <1>0, <2>0, <2>3 DEF HostRemoves
      <3> QED BY <1>0, <3>1 DEF ReplacedInv
    <2> QED BY <2>1, <2>2, <2>3
  <1> QED BY <1>1, <1>2, <1>3, <1>4, <1>5, QuietStep

(* Nobody else writes where an attempt is alone. *)
LEMMA PlaceStep ==
    ASSUME ScanInv, TypeOK', AskedInv', RecordInv', [Next]_vars PROVE PlaceInv'
  <1>0. /\ shell \in [Attempt -> {"none", "asked", "cat", "eof", "ok", "failed"}]
        /\ rm \in [Attempt -> {"none", "dir", "part", "bin", "done"}]
        /\ attempt \in Attempt
        /\ PlaceInv /\ AskedInv /\ RecordInv
    BY DEF ScanInv, TypeOK
  <1>1. CASE Quiet
    <2>1. CASE NextAttempt \/ Handshake
      <3>1. pc' \in Before BY <2>1 DEF NextAttempt, Handshake, Before
      <3>2. shell'[attempt'] = "none" BY <3>1 DEF AskedInv
      <3> QED BY <3>2 DEF PlaceInv, RecordInv
    <2>2. CASE UploadAnswers
      <3>1. UNCHANGED <<attempt, opt, link, shell, rm, part, bin, whole>>
            /\ link = "up" /\ shell[attempt] = "ok"
        BY <2>2 DEF UploadAnswers, Elsewhere, hostVars
      <3> QED BY <1>0, <3>1 DEF PlaceInv, Place
    <2>3. CASE ~NextAttempt /\ ~Handshake /\ ~UploadAnswers
      <3>1. UNCHANGED <<attempt, opt, shell, rm, part, bin, whole>>
            /\ (link' = "up" => link = "up") /\ (uploaded' => uploaded)
        BY <1>1, <2>3 DEF Quiet
      <3> QED BY <1>0, <3>1 DEF PlaceInv, Place
    <2> QED BY <2>1, <2>2, <2>3
  <1>2. CASE StageMktemp
    <2>1. UNCHANGED <<attempt, opt, link, uploaded, shell, rm, part, bin, whole>>
      BY <1>2 DEF StageMktemp, localVars
    <2> QED BY <1>0, <2>1 DEF PlaceInv, Place
  <1>3. CASE UploadAsks
    <2>1. shell'[attempt'] = "asked" BY <1>0, <1>3 DEF UploadAsks
    <2> QED BY <2>1 DEF PlaceInv, RecordInv
  <1>4. CASE CleanupAsks
    <2>1. rm'[attempt'] # "none" BY <1>0, <1>4 DEF CleanupAsks, teardown_cmd
    <2> QED BY <2>1 DEF PlaceInv
  <1>5. CASE Host
    <2>0. PICK a \in Attempt :
            /\ \/ HostMktemp(a) \/ ShellStarts(a) \/ CatEnds(a) \/ ShellMoves(a)
               \/ ShellFails(a) \/ HostRemoves(a)
            /\ UNCHANGED <<opt, attempt, link, uploaded>>
      BY <1>5 DEF Host, localVars
    <2> SUFFICES ASSUME opt.copy, opt.path => attempt = 1, rm'[attempt] = "none"
                 PROVE /\ shell'[attempt] \in {"cat", "eof"} => part'[Place(attempt)] = attempt
                       /\ link = "up" /\ shell'[attempt] = "eof" => whole'[attempt]
                       /\ link = "up" /\ shell'[attempt] = "ok" =>
                           bin'[Place(attempt)] = attempt /\ whole'[attempt]
                       /\ uploaded => bin'[Place(attempt)] = attempt /\ whole'[attempt]
      BY <2>0 DEF PlaceInv, Place
    <2>1. rm[attempt] = "none" BY <1>0, <2>0 DEF HostMktemp, ShellStarts, CatEnds, ShellMoves,
                                                 ShellFails, HostRemoves
    <2>2. /\ shell[attempt] \in {"cat", "eof"} => part[Place(attempt)] = attempt
          /\ link = "up" /\ shell[attempt] = "eof" => whole[attempt]
          /\ link = "up" /\ shell[attempt] = "ok" =>
              bin[Place(attempt)] = attempt /\ whole[attempt]
          /\ uploaded => bin[Place(attempt)] = attempt /\ whole[attempt] /\ shell[attempt] = "ok"
      BY <1>0, <2>1 DEF PlaceInv, RecordInv
    <2>3. a = attempt \/ Place(a) # Place(attempt)
      <3>1. a > attempt => shell[a] = "none" /\ rm[a] = "none" /\ mk[a] = "none"
        BY <1>0 DEF AskedInv
      <3>2. shell[a] # "none" \/ rm[a] # "none" \/ mk[a] # "none"
        BY <2>0 DEF HostMktemp, ShellStarts, CatEnds, ShellMoves, ShellFails, HostRemoves
      <3>3. a \in 1 .. Retries + 1 /\ attempt \in 1 .. Retries + 1 BY <1>0 DEF Attempt
      <3> QED BY <3>1, <3>2, <3>3, BudgetAssumption DEF Place
    <2>4. /\ part \in [Dir -> Dir] /\ bin \in [Dir -> 0 .. Operators]
          /\ whole \in [Attempt -> BOOLEAN]
          /\ Place(a) \in Dir /\ Place(attempt) \in Dir
      <3>1. Attempt \subseteq Dir /\ 0 \in Dir BY BudgetAssumption DEF Dir, Attempt
      <3>2. Place(a) \in Dir /\ Place(attempt) \in Dir BY <1>0, <3>1 DEF Place
      <3> QED BY <3>2 DEF ScanInv, TypeOK
    <2>5. CASE HostMktemp(a) BY <2>2, <2>5 DEF HostMktemp
    <2>6. CASE ShellStarts(a) BY <1>0, <2>2, <2>3, <2>4, <2>6 DEF ShellStarts
    <2>7. CASE CatEnds(a) BY <1>0, <2>2, <2>3, <2>4, <2>7 DEF CatEnds, HungUp
    <2>8. CASE ShellMoves(a) BY <1>0, <2>2, <2>3, <2>4, <2>8 DEF ShellMoves
    <2>9. CASE ShellFails(a) BY <1>0, <2>2, <2>9 DEF ShellFails
    <2>10. CASE HostRemoves(a) BY <1>0, <2>1, <2>2, <2>3, <2>4, <2>10 DEF HostRemoves
    <2> QED BY <2>0, <2>5, <2>6, <2>7, <2>8, <2>9, <2>10
  <1> QED BY <1>1, <1>2, <1>3, <1>4, <1>5, QuietStep

(* What CleanInv says of the host alone. *)
CleanHost ==
    /\ 0 \in dirs /\ dirs \subseteq {0, 1}
    /\ mk[1] # "done" => 1 \notin dirs
    /\ shell[1] = "ok" => part[Place(1)] = Absent
    /\ mk[1] = "done" /\ rm[1] = "done" => 1 \notin dirs

(* Nothing comes back after a confirmed teardown. *)
LEMMA CleanStep ==
    ASSUME ScanInv, TypeOK', AskedInv', RecordInv', [Next]_vars PROVE CleanInv'
  <1> SUFFICES ASSUME attempt' = 1 PROVE CleanInv'
    BY DEF CleanInv
  <1>a. 1 \in Attempt /\ attempt \in Nat \ {0} /\ 0 \in Dir /\ 1 \in Dir
    BY BudgetAssumption DEF ScanInv, TypeOK, Attempt, Dir
  <1>0. /\ shell \in [Attempt -> {"none", "asked", "cat", "eof", "ok", "failed"}]
        /\ rm \in [Attempt -> {"none", "dir", "part", "bin", "done"}]
        /\ mk \in [Attempt -> {"none", "asked", "done"}]
        /\ part \in [Dir -> Dir] /\ bin \in [Dir -> 0 .. Operators]
        /\ CleanInv /\ AskedInv /\ RecordInv /\ EndInv
    BY DEF ScanInv, TypeOK
  <1>b. attempt = 1
    <2>1. ~NextAttempt BY <1>a DEF NextAttempt
    <2>2. CASE Quiet BY <2>1, <2>2 DEF Quiet
    <2>3. CASE StageMktemp \/ UploadAsks \/ CleanupAsks \/ Host
      BY <2>3 DEF StageMktemp, UploadAsks, CleanupAsks, Host
    <2> QED BY <2>2, <2>3, QuietStep
  <1>c. CleanHost BY <1>0, <1>b DEF CleanInv, CleanHost
  <1>1. CASE Quiet
    <2>1. UNCHANGED <<opt, dirs, part, bin, mk, shell, rm>> BY <1>1 DEF Quiet
    <2>2. uploaded' /\ opt.path => rm[1] # "part" /\ (rm[1] = "done" => bin[0] = Absent)
      <3>1. CASE UploadAnswers
        <4>1. rm[1] = "none" BY <1>0, <1>b, <3>1 DEF UploadAnswers, At, AskedInv, Inner
        <4> QED BY <4>1
      <3>2. CASE ~UploadAnswers
        BY <1>0, <1>1, <1>b, <3>2 DEF Quiet, CleanInv
      <3> QED BY <3>1, <3>2
    <2>3. (/\ pc' \in {"disconnect", "decide"} /\ verdict' = "report"
           /\ ~warned' /\ opt.copy) => rm[1] = "done"
      <3>1. CASE Collect
        <4>1. opt.copy => uploaded /\ artifact
          BY <1>0, <3>1 DEF Collect, At, RecordInv, Running
        <4> QED BY <3>1, <4>1 DEF Collect, AfterScan
      <3>2. CASE CleanupConfirmed BY <1>b, <3>2 DEF CleanupConfirmed
      <3>3. CASE CleanupUnconfirmed BY <3>3 DEF CleanupUnconfirmed
      <3>4. CASE ~Collect /\ ~CleanupConfirmed /\ ~CleanupUnconfirmed
        BY <1>0, <1>1, <1>b, <3>4 DEF Quiet, CleanInv
      <3> QED BY <3>1, <3>2, <3>3, <3>4
    <2>4. (result' = "report" /\ ~warned' /\ opt.copy) =>
            /\ rm[1] = "done" /\ shell[1] = "ok"
            /\ ~opt.path => mk[1] = "done"
            /\ opt.path => bin[0] = Absent
      <3>1. CASE DecideReport
        <4>1. pc = "decide" /\ verdict = "report" /\ warned' = warned
          BY <3>1 DEF DecideReport, At, Ends
        <4>2. opt.copy => uploaded /\ artifact /\ shell[1] = "ok"
          BY <1>0, <1>b, <4>1 DEF RecordInv
        <4>3. opt.copy /\ ~warned => rm[1] = "done"
          BY <1>0, <1>b, <4>1 DEF CleanInv
        <4>4. opt.copy /\ ~opt.path => mk[1] = "done"
          BY <1>0, <1>b, <4>2 DEF RecordInv
        <4>5. opt.copy /\ opt.path /\ ~warned => bin[0] = Absent
          BY <1>0, <1>b, <4>2, <4>3 DEF CleanInv
        <4> QED BY <4>1, <4>2, <4>3, <4>4, <4>5
      <3>2. CASE ~DecideReport
        BY <1>0, <1>1, <1>b, <3>2 DEF Quiet, CleanInv
      <3> QED BY <3>1, <3>2
    <2> QED BY <1>c, <2>1, <2>2, <2>3, <2>4 DEF CleanInv, CleanHost, Place
  <1>2. CASE StageMktemp \/ UploadAsks \/ CleanupAsks
    <2>1. UNCHANGED <<opt, ended, dirs, part, bin, uploaded, verdict, result, warned>>
      BY <1>2 DEF StageMktemp, UploadAsks, CleanupAsks, localVars, reportVars
    <2>2. ended = "no" /\ result # "report"
      BY <1>0, <1>2 DEF StageMktemp, UploadAsks, CleanupAsks, At, EndInv
    <2>3. CASE StageMktemp
      <3>1. mk[1] = "none" /\ mk'[1] = "asked" /\ UNCHANGED <<shell, rm>> /\ pc' = "mktemp"
        BY <1>0, <1>a, <1>b, <2>3 DEF StageMktemp, At, AskedInv, Before
      <3> QED BY <1>0, <1>b, <1>c, <2>1, <2>2, <3>1 DEF CleanInv, CleanHost, Place
    <2>4. CASE UploadAsks
      <3>1. shell'[1] = "asked" /\ UNCHANGED <<mk, rm>> /\ pc' = "feed"
        BY <1>0, <1>a, <1>b, <2>4 DEF UploadAsks
      <3> QED BY <1>0, <1>b, <1>c, <2>1, <2>2, <3>1 DEF CleanInv, CleanHost, Place
    <2>5. CASE CleanupAsks
      <3>1. rm'[1] = teardown_cmd /\ UNCHANGED <<mk, shell, pc>> /\ pc = "cleanup"
        BY <1>0, <1>a, <1>b, <2>5 DEF CleanupAsks, At
      <3>2. teardown_cmd # "done" /\ (uploaded => teardown_cmd # "part")
        BY DEF teardown_cmd
      <3> QED BY <1>0, <1>b, <1>c, <2>1, <2>2, <3>1, <3>2 DEF CleanInv, CleanHost, Place
    <2> QED BY <1>2, <2>3, <2>4, <2>5
  <1>3. CASE Host
    <2>0. PICK a \in Attempt :
            /\ \/ HostMktemp(a) \/ ShellStarts(a) \/ CatEnds(a) \/ ShellMoves(a)
               \/ ShellFails(a) \/ HostRemoves(a)
            /\ UNCHANGED <<opt, pc, ended, attempt, uploaded, verdict, result, warned>>
      BY <1>3 DEF Host, localVars, reportVars
    <2>1. a = 1
      <3>1. a > 1 => shell[a] = "none" /\ rm[a] = "none" /\ mk[a] = "none"
        BY <1>0, <1>b DEF AskedInv
      <3>2. shell[a] # "none" \/ rm[a] # "none" \/ mk[a] # "none"
        BY <2>0 DEF HostMktemp, ShellStarts, CatEnds, ShellMoves, ShellFails, HostRemoves
      <3> QED BY <3>1, <3>2, BudgetAssumption DEF Attempt
    <2>2. Place(1) \in Dir /\ (opt.path => Place(1) = 0) /\ (~opt.path => Place(1) = 1)
      BY <1>a DEF Place
    <2>3. CASE HostMktemp(1)
      <3>1. mk[1] = "asked" /\ mk'[1] = "done" /\ dirs' = dirs \cup {1}
            /\ UNCHANGED <<part, bin, shell, rm>>
        BY <1>0, <1>a, <2>3 DEF HostMktemp
      <3>2. rm[1] # "done" /\ ~opt.path
        BY <1>0, <1>a, <3>1 DEF AskedInv
      <3> QED BY <1>0, <1>b, <1>c, <2>0, <3>1, <3>2 DEF CleanInv, CleanHost, Place
    <2>4. CASE ShellStarts(1) \/ CatEnds(1) \/ ShellMoves(1) \/ ShellFails(1)
      <3>1. /\ shell[1] \in {"asked", "cat", "eof"}
            /\ UNCHANGED <<dirs, mk, rm>>
            /\ bin' # bin => part'[Place(1)] = Absent
            /\ shell'[1] = "ok" => part'[Place(1)] = Absent
        BY <1>0, <1>a, <2>2, <2>4 DEF ShellStarts, CatEnds, ShellMoves, ShellFails
      <3>2. ~uploaded
        BY <1>0, <1>b, <3>1 DEF RecordInv
      <3>3. ~(result = "report" /\ ~warned /\ opt.copy)
        BY <1>0, <1>b, <3>1 DEF CleanInv
      <3> QED BY <1>0, <1>b, <1>c, <2>0, <3>1, <3>2, <3>3 DEF CleanInv, CleanHost, Place
    <2>5. CASE HostRemoves(1)
      <3>1. /\ rm[1] \in {"dir", "part", "bin"} /\ rm'[1] = "done"
            /\ UNCHANGED <<mk, shell>>
            /\ dirs' = IF rm[1] = "dir" THEN dirs \ {1} ELSE dirs
        BY <1>0, <1>a, <2>5 DEF HostRemoves
      <3>2. /\ rm[1] = "dir" => ~opt.path
            /\ rm[1] # "dir" => opt.path
            /\ mk[1] = "done" => ~opt.path
        BY <1>0, <1>a, <3>1 DEF AskedInv
      <3>3. rm[1] = "bin" => bin'[0] = Absent
        BY <1>0, <1>a, <2>2, <2>5, <3>2 DEF HostRemoves
      <3>4. shell[1] = "ok" => part'[Place(1)] = Absent
        BY <1>0, <1>c, <2>2, <2>5 DEF HostRemoves, CleanHost
      <3>5. CleanHost'
        BY <1>c, <2>0, <3>1, <3>2, <3>4 DEF CleanHost, Place
      <3>6. uploaded /\ opt.path => rm[1] = "bin"
        BY <1>0, <1>b, <3>1, <3>2 DEF CleanInv
      <3>7. ~(result = "report" /\ ~warned /\ opt.copy)
        BY <1>0, <1>b, <3>1 DEF CleanInv
      <3> QED BY <2>0, <3>1, <3>3, <3>5, <3>6, <3>7 DEF CleanInv, CleanHost
    <2> QED BY <2>0, <2>1, <2>3, <2>4, <2>5
  <1> QED BY <1>1, <1>2, <1>3, QuietStep

-------------------------------------------------------------------------------
(***************************************************************************)
(* The invariant is inductive: one remote scan, whatever host and timing.  *)
(***************************************************************************)
THEOREM ScanInvariance == Spec => []ScanInv
  <1>1. ScanInv /\ [Next]_vars => ScanInv'
    BY ScanTypeStep, TimeStep, AskedStep, RecordStep, ReplacedStep, PlaceStep, CleanStep
       DEF ScanInv
  <1> QED BY <1>1, InitScanInv, PTL DEF Spec

(* Types of the remote scan, for any budgets, options and number of retries. *)
THEOREM RemoteTypeCorrect == Spec => []TypeOK
  BY ScanInvariance, PTL DEF ScanInv

(***************************************************************************)
(* A report without a word about retries or leftovers means a clean host,  *)
(* even against commands that the host runs late.                          *)
(***************************************************************************)
THEOREM SilenceIsClean == Spec => []SilentMeansClean
  <1>1. ScanInv => SilentMeansClean
    <2> SUFFICES ASSUME ScanInv, result = "report", ~notes, ~warned
                 PROVE dirs = {0} /\ (opt.copy /\ opt.path => part[0] = Absent /\ bin[0] = Absent)
      BY DEF SilentMeansClean
    <2>1. attempt = 1
      BY BudgetAssumption DEF ScanInv, TypeOK, RetryInv, Attempt
    <2>2. 1 \in Attempt BY BudgetAssumption DEF Attempt
    <2>3. CleanInv /\ AskedInv BY DEF ScanInv
    <2>4. CASE opt.copy
      BY <2>1, <2>2, <2>3, <2>4 DEF CleanInv, AskedInv, Place
    <2>5. CASE ~opt.copy
      BY <2>1, <2>2, <2>3, <2>5 DEF CleanInv, AskedInv
    <2> QED BY <2>4, <2>5
  <1> QED BY <1>1, ScanInvariance, PTL

(* What is executed after an upload is what was sent, whole. *)
THEOREM ExecutesUpload == Spec => []RunsWhatItSent
  <1>1. ScanInv => RunsWhatItSent
    BY DEF ScanInv, RunsWhatItSent, PlaceInv, RecordInv, AskedInv, Running, Inner
  <1> QED BY <1>1, ScanInvariance, PTL

(* The operator's binary is never removed, only replaced by an upload. *)
THEOREM OperatorsBinaryKept == Spec => OperatorFileSafe
  <1>1. ScanInv /\ [Next]_vars => [bin[0] = Operators => bin'[0] # Absent]_vars
    <2> SUFFICES ASSUME ScanInv, [Next]_vars, bin[0] = Operators, bin'[0] = Absent
                 PROVE FALSE
      BY DEF vars
    <2>0. /\ Absent # Operators /\ 0 \in Dir /\ 0 \notin Attempt
          /\ bin \in [Dir -> 0 .. Operators] /\ part \in [Dir -> Dir]
      <3>1. Absent # Operators /\ 0 \in Dir /\ 0 \notin Attempt
        BY BudgetAssumption DEF Absent, Operators, Dir, Attempt
      <3> QED BY <3>1 DEF ScanInv, TypeOK
    <2>1. Host
      BY <2>0, QuietStep DEF Quiet, StageMktemp, UploadAsks, CleanupAsks
    <2>2. PICK a \in Attempt : ShellMoves(a) \/ HostRemoves(a)
      BY <2>0, <2>1 DEF Host, HostMktemp, ShellStarts, CatEnds, ShellFails
    <2>3. Place(a) = 0 /\ opt.path
      BY <2>0, <2>2 DEF ShellMoves, HostRemoves, Place
    <2>4. CASE ShellMoves(a)
      BY <2>0, <2>3, <2>4 DEF ShellMoves
    <2>5. CASE HostRemoves(a)
      <3>1. rm[a] # "bin" BY <2>3 DEF ScanInv, ReplacedInv
      <3>2. rm[a] # "dir" BY <2>3 DEF ScanInv, AskedInv
      <3> QED BY <2>0, <2>5, <3>1, <3>2 DEF HostRemoves
    <2> QED BY <2>2, <2>4, <2>5
  <1> QED BY <1>1, ScanInvariance, PTL DEF Spec, OperatorFileSafe

(***************************************************************************)
(* For any budgets: the ceiling of the host does not cut the first attempt *)
(* before its cleanup is over.                                             *)
(***************************************************************************)
THEOREM CeilingIsEnough == Spec => CeilingOutlivesAttempt
  <1>1. ScanInv /\ [Next]_vars =>
          [(ended' = "ceiling" /\ ended = "no" /\ attempt = 1 /\ slack < CEILING_MARGIN)
            => pc \in {"disconnect", "decide", "backoff"}]_vars
    <2> SUFFICES ASSUME ScanInv, Next, ended' = "ceiling", ended = "no", attempt = 1,
                        slack < CEILING_MARGIN
                 PROVE pc \in {"disconnect", "decide", "backoff"}
      BY DEF vars
    <2>1. CeilingFires
      <3> USE DEF At, Elsewhere
      <3>1. ~Establish BY DEF Establish, Connect, LoadKey, Handshake, EstablishFails
      <3>2. ~Scan
        BY DEF Scan, Preflight, StagePath, StageNothing, StageMktemp, MktempAnswers, UploadAsks,
               UploadFeeds, UploadAnswers, OpenExec, ProbeSudo, Execute, Collect, ScanFails, AfterScan
      <3>3. ~Cleanup BY DEF Cleanup, CleanupAsks, CleanupConfirmed, CleanupUnconfirmed
      <3>4. Timer => CeilingFires
        BY DEF Timer, Validate, Refuse, EstablishTimesOut, EstablishFails, ScanTimesOut, ScanFails,
               AfterScan, CleanupTimesOut, CleanupUnconfirmed, Disconnect, DecideReport,
               DecideRetry, DecideFailed, NextAttempt, Ends
      <3>5. ~Abort /\ ~Tick /\ ~Host /\ ~LinkBreaks /\ ~Over
        BY DEF Abort, Ends, Tick, Host, LinkBreaks, Over
      <3> QED BY <3>1, <3>2, <3>3, <3>4, <3>5 DEF Next
    <2>2. pc # "start" /\ elapsed = host_ceiling /\ pc # "end"
      BY <2>1 DEF CeilingFires, ScanInv, EndInv
    <2> QED
      BY <2>2, BudgetAssumption DEF ScanInv, TypeOK, TimeInv, host_ceiling, Places
  <1> QED BY <1>1, ScanInvariance, PTL DEF Spec, CeilingOutlivesAttempt
===============================================================================
