----------------------------- MODULE RunTsload ------------------------------
(***************************************************************************)
(* run-tsload's experiment (cmd/run-tsload/src/load.c, steps.c): the main  *)
(* thread configures the workloads, waits on wl_cfg_count, feeds and starts*)
(* them, waits on wl_run_count and finishes.  The counters are moved by the*)
(* notification thread, which handles what configuration threads and the   *)
(* control thread report, and which feeds one more step for every step     *)
(* begun.  The report queue is the FIFO SyncQueue implements; of the pool, *)
(* only the advance of each workload's step queue is kept.                 *)
(***************************************************************************)
EXTENDS StepRing, Sequences

CONSTANTS NWorkloads,    \* workloads of the experiment, in its order
          Files,         \* steps files: the lines, "ok" or "bad", of each,
                         \* and whether it ends with a newline
          Faults         \* what may go wrong with the configuration

ASSUME RunAssumption ==
  /\ NWorkloads \in Nat
  /\ Files \subseteq [lines : Seq({"ok", "bad"}), newline : BOOLEAN]
  /\ Faults \subseteq {"reject", "fail", "fail_then_success", "silent", "steps"}

Workloads == 1 .. NWorkloads

VARIABLES
  main,           \* main thread: place, workload at hand, steps fed to it,
                  \* and whether prepare_experiment returned an error
  wl,             \* each workload: its configuration thread, whether it is
                  \* configured and attached, started, and its step queue
  file,           \* each steps file: lines left, whether a newline ends it,
                  \* sf_step_id, sf_error, feof
  wl_cfg_count, wl_run_count, load_error,
  notes,          \* wl_notifications
  notifier        \* notification thread: place and message at hand

vars == <<main, wl, file, wl_cfg_count, wl_run_count, load_error, notes,
          notifier>>
counts == <<wl_cfg_count, wl_run_count>>

Note(w, status) == [wl |-> w, status |-> status]

(* Slips the runs must notice: a configuring workload that is not counted, *)
(* a queue fed one step too many, a step begun that ends the workload's    *)
(* run, a finished workload that is not counted.                           *)
SlipNotCounted == wl_cfg_count
SlipFeedsOneMore(j) == j <= QSIZE
SlipRunningEnds(status) ==
  IF status \in {"SUCCESS", "FAIL"} THEN "cfg_dec" ELSE "run_dec"
SlipRunCountKept == wl_run_count

Init ==
  /\ main = [pc |-> "configure", w |-> 1, j |-> 0, err |-> FALSE]
  /\ wl = [w \in Workloads |->
             [cfg |-> "none", ready |-> FALSE, started |-> FALSE,
              finished |-> FALSE, last_step |-> -1, current_step |-> -1]]
  /\ file \in [Workloads -> {[rest |-> f.lines, newline |-> f.newline, step_id |-> 0,
                              error |-> FALSE, eof |-> FALSE] : f \in Files}]
  /\ wl_cfg_count = 0 /\ wl_run_count = 0 /\ load_error = FALSE
  /\ notes = <<>>
  /\ notifier = [pc |-> "idle", msg |-> Note(0, "NEW")]
-----------------------------------------------------------------------------
(* Reading a steps file and feeding a workload.                            *)

(* fgets leaves the buffer as it was, uninitialised, when nothing is left. *)
NextLine(f) == IF f.rest = <<>> THEN {"ok", "bad"} ELSE {Head(f.rest)}

(* feof tells only what an earlier read has run into.                      *)
AfterRead(f) ==
  IF f.rest = <<>> THEN [f EXCEPT !.eof = TRUE]
  ELSE [f EXCEPT !.rest = Tail(@),
                 !.eof = Tail(f.rest) = <<>> /\ ~f.newline]

NoMoreSteps(w) == file[w].error \/ file[w].eof

(* load_provide_step: the step's id counts the lines read, and the answer  *)
(* QUEUE_FULL is ignored; INVALID is reported to do_error_msg.             *)
load_provide_step(w, ret) ==
  LET f == AfterRead(file[w])
      reply == ProvideResult(wl[w].last_step, wl[w].current_step, f.step_id)
  IN \/ /\ NoMoreSteps(w) /\ ret = "NO_RQS"
        /\ file' = [file EXCEPT ![w].error = TRUE]
        /\ UNCHANGED <<wl, load_error>>
     \/ /\ ~NoMoreSteps(w) /\ "bad" \in NextLine(file[w]) /\ ret = "ERROR"
        /\ file' = [file EXCEPT ![w] = [f EXCEPT !.error = TRUE]]
        /\ load_error' = TRUE
        /\ UNCHANGED wl
     \/ /\ ~NoMoreSteps(w) /\ "ok" \in NextLine(file[w]) /\ ret = "OK"
        /\ file' = [file EXCEPT ![w] = [f EXCEPT !.step_id = @ + 1]]
        /\ wl' = IF reply = "OK" THEN [wl EXCEPT ![w].last_step = f.step_id]
                 ELSE wl
        /\ load_error' = (load_error \/ reply = "INVALID")
-----------------------------------------------------------------------------
(* The main thread.                                                        *)

Main(from, to) == main.pc = from /\ main' = [main EXCEPT !.pc = to]

(* tsload_configure_workload: an invalid description is reported at once,  *)
(* a valid one gets a configuration thread.                                *)
MainConfigure ==
  /\ Main("configure", "load_steps") /\ main.w <= NWorkloads
  /\ \/ /\ "reject" \in Faults
        /\ load_error' = TRUE
        /\ UNCHANGED wl
     \/ /\ wl' = [wl EXCEPT ![main.w].cfg = "running"]
        /\ UNCHANGED load_error
  /\ UNCHANGED <<file, counts, notes, notifier>>

CfgCountAfter == wl_cfg_count + 1

(* load_steps; then an error ends the configuration before the workload is *)
(* counted.                                                                *)
MainLoadSteps ==
  /\ main.pc = "load_steps"
  /\ \/ /\ load_error \/ "steps" \in Faults
        /\ main' = [main EXCEPT !.pc = "cfg_test", !.err = TRUE]
        /\ UNCHANGED wl_cfg_count
     \/ /\ ~load_error
        /\ main' = [main EXCEPT !.pc = "configure", !.w = @ + 1]
        /\ wl_cfg_count' = CfgCountAfter
  /\ UNCHANGED <<wl, file, wl_run_count, load_error, notes, notifier>>

MainConfigured ==
  /\ Main("configure", "cfg_test") /\ main.w > NWorkloads
  /\ UNCHANGED <<wl, file, counts, load_error, notes, notifier>>

(* The two waits: the counter is read, and then the event waited for.      *)
MainTestsConfig ==
  /\ main.pc = "cfg_test"
  /\ main' =
       CASE wl_cfg_count # 0 -> [main EXCEPT !.pc = "cfg_towait"]
         [] wl_cfg_count = 0 /\ (load_error \/ main.err) ->
              [main EXCEPT !.pc = "finish"]
         [] OTHER -> [main EXCEPT !.pc = "feed", !.w = 1, !.j = 0]
  /\ UNCHANGED <<wl, file, counts, load_error, notes, notifier>>

MainTestsRun ==
  /\ Main("run_test", IF wl_run_count # 0 THEN "run_towait" ELSE "finish")
  /\ UNCHANGED <<wl, file, counts, load_error, notes, notifier>>

MainWaits ==
  /\ Main("cfg_towait", "cfg_waits") \/ Main("run_towait", "run_waits")
  /\ UNCHANGED <<wl, file, counts, load_error, notes, notifier>>

MayFeed(j) == j < QSIZE

(* start_all_wls: up to WLSTEPQSIZE steps are fed before the start.        *)
MainFeeds ==
  /\ main.pc = "feed" /\ main.w <= NWorkloads /\ MayFeed(main.j)
  /\ \E ret \in {"OK", "NO_RQS", "ERROR"} :
       /\ load_provide_step(main.w, ret)
       /\ main' = CASE ret = "OK" -> [main EXCEPT !.j = @ + 1]
                    [] ret = "NO_RQS" -> [main EXCEPT !.pc = "start"]
                    [] OTHER -> [main EXCEPT !.pc = "run_test"]
  /\ UNCHANGED <<counts, notes, notifier>>

MainFed ==
  /\ Main("feed", "start") /\ main.w <= NWorkloads /\ ~MayFeed(main.j)
  /\ UNCHANGED <<wl, file, counts, load_error, notes, notifier>>

(* tsload_start_workload; a workload that is not configured is an error.   *)
MainStarts ==
  /\ Main("start", "count")
  /\ wl' = [wl EXCEPT ![main.w].started = wl[main.w].ready]
  /\ load_error' = (load_error \/ ~wl[main.w].ready)
  /\ UNCHANGED <<file, counts, notes, notifier>>

MainCounts ==
  /\ main.pc = "count"
  /\ wl_run_count' = wl_run_count + 1
  /\ main' = IF load_error THEN [main EXCEPT !.pc = "run_test"]
             ELSE [main EXCEPT !.pc = "feed", !.w = @ + 1, !.j = 0]
  /\ UNCHANGED <<wl, file, wl_cfg_count, load_error, notes, notifier>>

MainStarted ==
  /\ Main("feed", "run_test") /\ main.w > NWorkloads
  /\ UNCHANGED <<wl, file, counts, load_error, notes, notifier>>

MainThread ==
  \/ MainConfigure \/ MainLoadSteps \/ MainConfigured \/ MainTestsConfig
  \/ MainTestsRun \/ MainWaits \/ MainFeeds \/ MainFed \/ MainStarts
  \/ MainCounts \/ MainStarted

Woken == [main EXCEPT !.pc = CASE @ = "cfg_waits" -> "cfg_test"
                               [] @ = "run_waits" -> "run_test"
                               [] OTHER -> @]

SpuriousWake ==
  /\ main.pc \in {"cfg_waits", "run_waits"}
  /\ main' = Woken
  /\ UNCHANGED <<wl, file, counts, load_error, notes, notifier>>
-----------------------------------------------------------------------------
(* The configuration threads and the control thread.                       *)

(* wlt_wl_config reports a failure (simpleio does), then returns an error, *)
(* or success all the same.                                                *)
ConfigFails(w) ==
  /\ wl[w].cfg = "running" /\ {"fail", "fail_then_success"} \cap Faults # {}
  /\ wl' = [wl EXCEPT ![w].cfg = "failed"]
  /\ notes' = Append(notes, Note(w, "FAIL"))
  /\ UNCHANGED <<main, file, counts, load_error, notifier>>

(* An error returned by wlt_wl_config ends the thread; nobody is notified. *)
ConfigGivesUp(w) ==
  /\ \/ wl[w].cfg = "running" /\ "silent" \in Faults
     \/ wl[w].cfg = "failed" /\ "fail" \in Faults
  /\ wl' = [wl EXCEPT ![w].cfg = "ended"]
  /\ UNCHANGED <<main, file, counts, load_error, notes, notifier>>

ConfigAttaches(w) ==
  /\ \/ wl[w].cfg = "running"
     \/ wl[w].cfg = "failed" /\ "fail_then_success" \in Faults
  /\ wl' = [wl EXCEPT ![w].cfg = "attached", ![w].ready = TRUE]
  /\ UNCHANGED <<main, file, counts, load_error, notes, notifier>>

ConfigSucceeds(w) ==
  /\ wl[w].cfg = "attached"
  /\ wl' = [wl EXCEPT ![w].cfg = "ended"]
  /\ notes' = Append(notes, Note(w, "SUCCESS"))
  /\ UNCHANGED <<main, file, counts, load_error, notifier>>

ConfigThread(w) ==
  ConfigFails(w) \/ ConfigGivesUp(w) \/ ConfigAttaches(w) \/ ConfigSucceeds(w)

(* A quantum: the workload's next step begins, or it is finished and       *)
(* detached.                                                               *)
Advance(w) ==
  /\ wl[w].ready /\ wl[w].started /\ ~wl[w].finished
  /\ LET s == wl[w].current_step + 1
         over == NoSteps(wl[w].last_step, s)
     IN /\ wl' = [wl EXCEPT ![w].current_step = s, ![w].finished = over]
        /\ notes' = Append(notes, Note(w, IF over THEN "FINISHED" ELSE "RUNNING"))
  /\ UNCHANGED <<main, file, counts, load_error, notifier>>
-----------------------------------------------------------------------------
(* The notification thread: do_workload_status, read and write by write.   *)

Notifier(from, to) ==
  notifier.pc = from /\ notifier' = [notifier EXCEPT !.pc = to]

Handler(status) ==
  CASE status \in {"SUCCESS", "FAIL"} -> "cfg_dec"
    [] status = "RUNNING" -> "feed"
    [] OTHER -> "run_dec"

NotePops ==
  /\ notifier.pc = "idle" /\ notes # <<>>
  /\ notifier' = [pc |-> Handler(Head(notes).status), msg |-> Head(notes)]
  /\ notes' = Tail(notes)
  /\ UNCHANGED <<main, wl, file, counts, load_error>>

NoteCfgDone ==
  /\ Notifier("cfg_dec", IF notifier.msg.status = "FAIL" THEN "error" ELSE "notify")
  /\ wl_cfg_count' = wl_cfg_count - 1
  /\ UNCHANGED <<main, wl, file, wl_run_count, load_error, notes>>

NoteError ==
  /\ Notifier("error", "notify")
  /\ load_error' = TRUE
  /\ UNCHANGED <<main, wl, file, counts, notes>>

NoteFeeds ==
  /\ \E ret \in {"OK", "NO_RQS", "ERROR"} :
       /\ Notifier("feed", IF ret = "ERROR" THEN "stop" ELSE "notify")
       /\ load_provide_step(notifier.msg.wl, ret)
  /\ UNCHANGED <<main, counts, notes>>

(* A step that does not parse stops the experiment: wl_run_count is zeroed.*)
NoteStops ==
  /\ Notifier("stop", "notify")
  /\ wl_run_count' = 0
  /\ UNCHANGED <<main, wl, file, wl_cfg_count, load_error, notes>>

RunCountAfter == wl_run_count - 1

NoteFinished ==
  /\ Notifier("run_dec", "notify")
  /\ wl_run_count' = RunCountAfter
  /\ UNCHANGED <<main, wl, file, wl_cfg_count, load_error, notes>>

NoteNotifies ==
  /\ Notifier("notify", "idle")
  /\ main' = Woken
  /\ UNCHANGED <<wl, file, counts, load_error, notes>>

NotificationThread ==
  \/ NotePops \/ NoteCfgDone \/ NoteError \/ NoteFeeds \/ NoteStops
  \/ NoteFinished \/ NoteNotifies
-----------------------------------------------------------------------------
(* do_load goes on to unconfigure everything.                              *)
Finished == main.pc = "finish" /\ UNCHANGED vars

Next ==
  \/ MainThread \/ SpuriousWake
  \/ \E w \in Workloads : ConfigThread(w) \/ Advance(w)
  \/ NotificationThread
  \/ Finished

Spec == Init /\ [][Next]_vars

(* Threads run, quanta pass; a wait need not return without a reason.      *)
FairSpec ==
  /\ Spec
  /\ WF_vars(MainThread) /\ WF_vars(NotificationThread)
  /\ \A w \in Workloads : WF_vars(ConfigThread(w)) /\ WF_vars(Advance(w))

-----------------------------------------------------------------------------
Statuses == {"NEW", "SUCCESS", "FAIL", "RUNNING", "FINISHED"}
Messages == [wl : Workloads \cup {0}, status : Statuses]

TypeOK ==
  /\ main \in [pc : {"configure", "load_steps", "cfg_test", "cfg_towait",
                     "cfg_waits", "feed", "start", "count", "run_test",
                     "run_towait", "run_waits", "finish"},
               w : 1 .. NWorkloads + 1, j : 0 .. QSIZE, err : BOOLEAN]
  /\ wl \in [Workloads ->
               [cfg : {"none", "running", "failed", "attached", "ended"},
                ready : BOOLEAN, started : BOOLEAN, finished : BOOLEAN,
                last_step : Int, current_step : Int]]
  /\ file \in [Workloads -> [rest : Seq({"ok", "bad"}), newline : BOOLEAN,
                             step_id : Nat, error : BOOLEAN, eof : BOOLEAN]]
  /\ wl_cfg_count \in Int /\ wl_run_count \in Int
  /\ load_error \in BOOLEAN
  /\ notes \in Seq(Messages)
  /\ notifier \in [pc : {"idle", "cfg_dec", "error", "feed", "stop", "run_dec",
                         "notify"},
                   msg : Messages]

(* Every step read from a file is accepted by the workload's queue, with   *)
(* the next id: feeding the first WLSTEPQSIZE steps at once and one for    *)
(* each step begun never meets a full queue, however late the notification *)
(* thread runs, although the answer QUEUE_FULL would lose the step.  The   *)
(* counters and the file stay in their ranges (TypeOK).                    *)
NoStepLost == TypeOK /\ \A w \in Workloads : file[w].step_id = wl[w].last_step + 1

(* A failure was reported, or its report is under way.                     *)
Failing ==
  \/ load_error \/ main.err
  \/ \E k \in DOMAIN notes : notes[k].status = "FAIL"
  \/ notifier.pc \in {"cfg_dec", "error"} /\ notifier.msg.status = "FAIL"

(* tsload_start_workload is never refused: unless a failure is reported or *)
(* under way, all workloads are configured when wl_cfg_count has brought   *)
(* the main thread to the start, whatever failed silently.                 *)
StartsConfigured ==
  main.pc \in {"feed", "start", "count"} =>
    Failing \/ \A w \in Workloads : wl[w].ready

(* The main thread finishes the experiment without a failure only when all *)
(* the workloads have finished.                                            *)
FinishesAll ==
  main.pc = "finish" => Failing \/ \A w \in Workloads : wl[w].finished

(* Once everything is started, the workloads run out of steps and the main *)
(* thread's counter gets to zero, whether it looks or not, unless a step   *)
(* that does not parse stops the experiment.                               *)
RunCountReachesZero ==
  (main.pc = "run_test" /\ main.w > NWorkloads)
    ~> (load_error \/ [](wl_run_count = 0))
=============================================================================
