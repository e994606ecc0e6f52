-------------------------- MODULE ServiceLifecycle --------------------------
(* The life of a grant-store process: src/cmd/grant-store/main.go, the boot  *)
(* half of src/settings.go and Open (src/store.go), and systemd, which starts*)
(* it again (src/grant-store.service).  Requests are seen here by what they  *)
(* wait for, and time passes in seconds.                                     *)
EXTENDS Integers, Sequences, FiniteSets

CONSTANTS
    Connections,     \* each carries one request at most
    Plans,           \* what requests wait for, one thing after another
    HeaderTimeout,   \* ReadHeaderTimeout
    Longest,         \* wait -> its longest: an owner call, the busy timeout
    DrainTimeout,    \* the context of Shutdown
    RestartSec,      \* systemd's pause after a failure
    MaxMishaps       \* bound: edits of the environment, and faults

VARIABLES
    phase,           \* where the process is
    elapsed,         \* seconds of drain, or since a failure
    asked,           \* the last word: "start" or "stop" of systemctl, or a
                     \* "signal" from elsewhere
    env,             \* the environment the next boot will find
    loaded,          \* the one this process read
    objects,         \* what the schema has made in the database so far
    statement,       \* the schema's statement Open is at
    conn,            \* what each connection waits for, and for how long
    mishaps          \* how many there have been

bootVars == <<env, loaded, objects, statement, mishaps>>

vars == <<phase, elapsed, asked, bootVars, conn>>

Environments == [undeclared : BOOLEAN, token : {"unset", "short", "long"}]

Good(e) == ~e.undeclared /\ e.token = "long"

\* schema.sql, each statement IF NOT EXISTS and committed by itself.
Schema == <<"grants", "idx_grants_active_tuple",
            "idx_grants_principal", "idx_grants_resource">>

SchemaObjects == {Schema[i] : i \in DOMAIN Schema}

\* A request waits for its body, with no deadline, for owners and for the
\* write lock, each at most so long, and for queries, at once.  Then it is
\* "replying": it writes its answer for as long as its client takes to read it.
Waits == {"body", "owner", "write", "query"}

ASSUME LifecycleAssumption ==
    /\ Longest \in [Waits \ {"body"} -> Nat]
    /\ Plans \subseteq Seq(Waits) /\ <<>> \notin Plans
    /\ {HeaderTimeout, DrainTimeout, RestartSec, MaxMishaps} \subseteq Nat

-----------------------------------------------------------------------------
(* Phases and connections.                                                   *)

Booting == {"settings", "schema", "mounting"}

Accepting == {"listening", "serving"}

\* The handlers run as long as the process does.
Running == Accepting \cup {"draining", "closed"}

Unbegun == [stage |-> "none", todo |-> <<>>, waited |-> 0, due |-> DrainTimeout + 1]

Open(c) == conn[c].stage \in {"headers", "handling", "replying"}

Awaits(c, wait) == conn[c].stage = "handling" /\ Head(conn[c].todo) = wait

\* The two waits without a deadline, there being neither a ReadTimeout nor a
\* WriteTimeout: for the client's body, and for it to read the answer.
AwaitsItsClient(c) == Awaits(c, "body") \/ conn[c].stage = "replying"

\* How often a request with these waits waits for that.
HowOften(todo, wait) == Cardinality({i \in DOMAIN todo : todo[i] = wait})

\* The longest these waits can be, one after another, but for a body.
Total(todo) == Longest["owner"] * HowOften(todo, "owner")
               + Longest["write"] * HowOften(todo, "write")
               + Longest["query"] * HowOften(todo, "query")

\* The longest a request can still take, if that is known.
Remaining(k) ==
    IF k.stage # "handling" \/ HowOften(k.todo, "body") > 0
      THEN DrainTimeout + 1
      ELSE Total(k.todo) - k.waited

\* The process ends, and with it every connection: how says who ended it.  A
\* handler that was replying had done its work, and leaves its answer unread.
EndProcess(next, how) ==
    /\ phase' = next
    /\ elapsed' = 0
    /\ conn' = [c \in Connections |->
                  CASE conn[c].stage = "replying" -> [conn[c] EXCEPT !.stage = "unread"]
                    [] conn[c].stage \in {"headers", "handling"} ->
                         [conn[c] EXCEPT !.stage = how]
                    [] ~Open(c) -> conn[c]]

-----------------------------------------------------------------------------
(* Mutants: actions below as a plausible slip would have written them.  No   *)
(* specification uses them; they show that the properties can fail.          *)

\* The schema left alone once its table is there.
ApplySchemaToNew ==
    /\ phase = "schema"
    /\ objects' = IF "grants" \in objects THEN objects
                                          ELSE objects \cup {Schema[statement]}
    /\ statement' = statement + 1
    /\ phase' = IF statement = Len(Schema) \/ "grants" \in objects
                  THEN "mounting" ELSE "schema"
    /\ UNCHANGED <<elapsed, asked, env, loaded, conn, mishaps>>

\* log.Print and return in the place of log.Fatal.
RefuseQuietly == EndProcess("down", "refused")

\* store.Close before srv.Shutdown has waited.
DrainAtOnce ==
    /\ phase = "draining"
    /\ phase' = "closed"
    /\ UNCHANGED <<elapsed, asked, bootVars, conn>>

\* Shutdown with a context that never ends.
DrainForever ==
    /\ phase = "draining" /\ \A c \in Connections : ~Open(c)
    /\ phase' = "closed"
    /\ UNCHANGED <<elapsed, asked, bootVars, conn>>

\* A server with no ReadHeaderTimeout.
TimeoutHeadersNever(c) == FALSE /\ UNCHANGED vars

-----------------------------------------------------------------------------
(* Boot.                                                                     *)

Init ==
    /\ phase = "down" /\ elapsed = 0 /\ asked = "stop"
    /\ env \in Environments /\ loaded = env
    /\ objects = {} /\ statement = 1
    /\ conn = [c \in Connections |-> Unbegun]
    /\ mishaps = 0

\* log.Fatal: systemd sees a failure.
Refuse == EndProcess("failed", "refused")

\* A new process, by systemctl start or after systemd's pause.
Start ==
    /\ \/ phase = "down"
       \/ phase = "failed" /\ elapsed = RestartSec
    /\ asked' = "start"
    /\ phase' = "settings" /\ elapsed' = 0
    /\ loaded' = env /\ statement' = 1
    /\ UNCHANGED <<env, objects, conn, mishaps>>

\* NewSettingsRegistry, then CheckRequired.
ReadSettings ==
    /\ phase = "settings"
    /\ IF loaded.undeclared \/ loaded.token = "unset"
         THEN Refuse
         ELSE phase' = "schema" /\ UNCHANGED <<elapsed, conn>>
    /\ UNCHANGED <<asked, bootVars>>

\* Open, one statement of its schema.
ApplySchema ==
    /\ phase = "schema"
    /\ objects' = objects \cup {Schema[statement]}
    /\ statement' = statement + 1
    /\ phase' = IF statement = Len(Schema) THEN "mounting" ELSE "schema"
    /\ UNCHANGED <<elapsed, asked, env, loaded, conn, mishaps>>

\* The length of the token, and the goroutine that listens.
Mount ==
    /\ phase = "mounting"
    /\ IF loaded.token = "short"
         THEN Refuse
         ELSE phase' = "listening" /\ UNCHANGED <<elapsed, conn>>
    /\ UNCHANGED <<asked, bootVars>>

\* signal.Notify, which comes after the goroutine has begun to listen.
CatchSignals ==
    /\ phase = "listening"
    /\ phase' = "serving"
    /\ UNCHANGED <<elapsed, asked, bootVars, conn>>

-----------------------------------------------------------------------------
(* Requests.                                                                 *)

Connect(c) ==
    /\ phase \in Accepting /\ conn[c] = Unbegun
    /\ conn' = [conn EXCEPT ![c].stage = "headers"]
    /\ UNCHANGED <<phase, elapsed, asked, bootVars>>

SendHeaders(c) ==
    /\ phase \in Running /\ conn[c].stage = "headers"
    /\ \E plan \in Plans :
         conn' = [conn EXCEPT ![c].stage = "handling", ![c].todo = plan,
                              ![c].waited = 0]
    /\ UNCHANGED <<phase, elapsed, asked, bootVars>>

TimeoutHeaders(c) ==
    /\ phase \in Running /\ conn[c].stage = "headers"
    /\ conn[c].waited = HeaderTimeout
    /\ conn' = [conn EXCEPT ![c].stage = "refused"]
    /\ UNCHANGED <<phase, elapsed, asked, bootVars>>

\* What the request waits for is there, or its time is up.  It waits for the
\* next thing, or it has its answer, which an error gives early.
Advance(c) ==
    /\ phase \in Running /\ conn[c].stage = "handling"
    /\ IF phase = "closed" /\ Head(conn[c].todo) \in {"write", "query"}
         THEN conn' = [conn EXCEPT ![c].stage = "lost"]   \* database is closed
         ELSE \/ /\ Len(conn[c].todo) > 1
                 /\ conn' = [conn EXCEPT ![c].todo = Tail(@), ![c].waited = 0]
              \/ conn' = [conn EXCEPT ![c].stage = "replying", ![c].todo = <<>>,
                                      ![c].waited = 0]
    /\ UNCHANGED <<phase, elapsed, asked, bootVars>>

\* writeJSON returns: the client has read the answer, or is gone.
Reply(c) ==
    /\ phase \in Running /\ conn[c].stage = "replying"
    /\ conn' = [conn EXCEPT ![c].stage = "answered"]
    /\ UNCHANGED <<phase, elapsed, asked, bootVars>>

-----------------------------------------------------------------------------
(* Ends.                                                                     *)

\* SIGTERM or SIGINT.  main hears of the signal from Notify on; before, Go's own
\* handler ends the process.  A second signal waits in the channel, unread.
HearSignal ==
    CASE phase = "serving" ->
           /\ phase' = "draining" /\ elapsed' = 0
           /\ conn' = [c \in Connections |->
                         [conn[c] EXCEPT !.due = Remaining(conn[c])]]
      [] phase \in Booting \cup {"listening", "failed"} ->
           EndProcess("down", "killed")
      [] phase \in {"down", "draining", "closed"} ->
           UNCHANGED <<phase, elapsed, conn>>

\* systemctl stop, which sends the signal to a process and calls off a restart.
Stop ==
    /\ asked' = "stop"
    /\ HearSignal
    /\ UNCHANGED bootVars

\* The signal from elsewhere: an end that systemd takes for a clean one, and so
\* leaves the service down.
StraySignal ==
    /\ phase \in Booting \cup Accepting /\ mishaps < MaxMishaps
    /\ mishaps' = mishaps + 1
    /\ asked' = "signal"
    /\ HearSignal
    /\ UNCHANGED <<env, loaded, objects, statement>>

\* Shutdown returns: nobody is left, or its context has ended.  Then the
\* deferred Close.
Drain ==
    /\ phase = "draining"
    /\ elapsed = DrainTimeout \/ \A c \in Connections : ~Open(c)
    /\ phase' = "closed"
    /\ UNCHANGED <<elapsed, asked, bootVars, conn>>

\* main returns.
Exit ==
    /\ phase = "closed"
    /\ EndProcess("down", "lost")
    /\ UNCHANGED <<asked, bootVars>>

\* Killed; or a statement of Open fails, or ListenAndServe returns.  systemd
\* restarts what it was not stopping.
Fault ==
    /\ phase \in Booting \cup Running /\ mishaps < MaxMishaps
    /\ mishaps' = mishaps + 1
    /\ EndProcess(IF asked = "stop" THEN "down" ELSE "failed", "killed")
    /\ UNCHANGED <<asked, env, loaded, objects, statement>>

EditEnvironment ==
    /\ mishaps < MaxMishaps
    /\ mishaps' = mishaps + 1
    /\ env' \in Environments \ {env}
    /\ UNCHANGED <<phase, elapsed, asked, loaded, objects, statement, conn>>

\* A second passes, unless something is due before.
Tick ==
    /\ phase \in Accepting \cup {"draining", "failed"}
    /\ phase = "draining" => elapsed < DrainTimeout
    /\ phase = "failed" => elapsed < RestartSec
    /\ \A c \in Connections :
         /\ conn[c].stage = "headers" => conn[c].waited < HeaderTimeout
         /\ \A wait \in DOMAIN Longest :
              Awaits(c, wait) => conn[c].waited < Longest[wait]
    /\ elapsed' = IF phase \in Accepting THEN 0 ELSE elapsed + 1
    /\ conn' = [c \in Connections |->
                  IF Open(c) /\ ~AwaitsItsClient(c)
                    THEN [conn[c] EXCEPT !.waited = @ + 1] ELSE conn[c]]
    /\ UNCHANGED <<phase, asked, bootVars>>

-----------------------------------------------------------------------------

Boot == ReadSettings \/ ApplySchema \/ Mount \/ CatchSignals

Next ==
    \/ Start \/ Boot \/ Stop \/ StraySignal \/ Drain \/ Exit \/ Fault
    \/ EditEnvironment \/ Tick
    \/ \E c \in Connections :
         Connect(c) \/ SendHeaders(c) \/ TimeoutHeaders(c) \/ Advance(c) \/ Reply(c)

\* The process takes its own steps, systemd restarts what failed, time passes.
\* No fairness of operators, faults or clients: a body may never come, and an
\* answer may never be read.
Fairness ==
    /\ WF_vars(Boot) /\ WF_vars(phase = "failed" /\ Start)
    /\ WF_vars(Drain) /\ WF_vars(Exit) /\ WF_vars(Tick)
    /\ \A c \in Connections :
         /\ WF_vars(TimeoutHeaders(c))
         /\ WF_vars(~Awaits(c, "body") /\ Advance(c))

Spec == Init /\ [][Next]_vars /\ Fairness

-----------------------------------------------------------------------------
(* Properties.                                                               *)

\* No request is taken before the settings are sound and the whole schema is
\* there, the unique index above all, wherever an earlier boot was cut short
\* (store.go:72-104, main.go:53-60).
ServesOnlyWhenWhole ==
    phase \in Accepting => Good(loaded) /\ objects = SchemaObjects

\* A stop takes nothing from a request whose waits, at their longest, end
\* before the drain does: its handler is not cut off and its database is not
\* closed under it, so its work is done and its answer being written, which a
\* client must read before the drain's end (main.go:30, 83-85).
ShortRequestsSurviveAStop ==
    \A c \in Connections : conn[c].stage = "lost" => conn[c].due >= DrainTimeout

\* A drain ends, though some client never sends its body or never reads its
\* answer (main.go:83-85).
EveryStopEnds == phase = "draining" ~> phase \in {"down", "failed"}

\* A connection ends unless it is for its client that it waits, to send a body
\* or to read an answer: neither has a deadline (main.go:66-70).
EveryConnectionEnds ==
    \A c \in Connections : Open(c) ~> ~Open(c) \/ AwaitsItsClient(c)

\* What systemctl has started is up in the end, or its environment is at fault,
\* or it was stopped or signalled: a boot that failed is tried again
\* (grant-store.service:27-28).
ComesBack ==
    asked = "start" /\ Good(env)
        ~> phase = "serving" \/ asked # "start" \/ ~Good(env)
=============================================================================
