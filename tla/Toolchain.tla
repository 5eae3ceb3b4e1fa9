----------------------------- MODULE Toolchain -----------------------------
(* The parts of the language that work on their own, side by side: one       *)
(* behaviour is of one part.  A text is read, an expression or a function is *)
(* typed and run by the three engines, a session of the agent runtime        *)
(* answers calls, a graph of modules is walked, the monitors admit spawns,   *)
(* the evolve command keeps its audit log, the package commands keep a       *)
(* project, and the language server serves an editor.                        *)
EXTENDS EffectMonitor, AuditLog, PackageProject, LanguageServer, Modules

CONSTANTS Inputs,      \* for each part without steps of its own, its inputs
          Programs,    \* what the engines run
          SessionDefs, \* the functions of a session
          Requests,    \* the calls made on it: mode, name and arguments
          SessionDepth, Turns, MaxRequests

VARIABLES part,     \* the part this behaviour is of
          input,    \* what it is about
          chunk,    \* the input as the next stage takes it: tokens or code
          vm,       \* the virtual machine
          session,  \* the agent runtime
          asked,    \* the requests made of it
          answer    \* its last answer
languageVars == <<part, input, chunk, vm, session, asked, answer>>
vars == <<languageVars, modulesVars, monitorVars, logVars, projectVars, serverVars>>

L(text) == INSTANCE Lexer
D == INSTANCE Dlvm
A == INSTANCE AgentRuntime WITH MaxDepth <- SessionDepth, Fuel <- Turns

Parts == DOMAIN Inputs \cup {"engines", "session", "modules", "monitors", "log", "project", "server"}
InputsOf(p) ==
  CASE p \in DOMAIN Inputs -> Inputs[p]
    [] p = "engines" -> Programs
    [] p = "session" -> 1..Len(A!Levels)
    [] OTHER -> {0}

Init ==
  /\ part \in Parts
  /\ input \in InputsOf(part)
  /\ chunk = CASE part = "text" -> L(input.text)!Tokens
               [] part = "engines" -> D!Compile(input)
               [] OTHER -> <<>>
  /\ vm = D!Boot
  /\ session = A!Load(A!New(A!Levels[IF part = "session" THEN input ELSE 1]), SessionDefs)
  /\ asked = 0
  /\ answer = "none"
  /\ IF part = "modules" THEN ModulesInit ELSE Begin(<<>>, "sort", 0)
  /\ MonitorInit
  /\ LogInit
  /\ ProjectInit
  /\ ServerInit
  /\ part # "server" => endsLine

\* Vm::run, one turn of its loop.
RunVm ==
  /\ part = "engines" /\ vm.running
  /\ vm' = D!Step(chunk, vm)
  /\ UNCHANGED <<part, input, chunk, session, asked, answer, modulesVars, monitorVars, logVars, projectVars, serverVars>>

\* SelfHealingRuntime::call_with_healing, and run_compiled's plain call.
Request(mode, name, args) ==
  /\ part = "session" /\ asked < MaxRequests
  /\ \E res \in {IF mode = "None" THEN A!Invoke(name, args, session)
                ELSE A!CallWithHealing(mode, name, args, session)} :
       session' = res.m /\ answer' = IF res.sig = "error" THEN res.v ELSE res.sig
  /\ asked' = asked + 1
  /\ UNCHANGED <<part, input, chunk, vm, modulesVars, monitorVars, logVars, projectVars, serverVars>>

Next ==
  \/ RunVm
  \/ \E r \in Requests : Request(r[1], r[2], r[3])
  \/ part = "modules" /\ ModulesNext
     /\ UNCHANGED <<languageVars, monitorVars, logVars, projectVars, serverVars>>
  \/ part = "monitors" /\ MonitorNext
     /\ UNCHANGED <<languageVars, modulesVars, logVars, projectVars, serverVars>>
  \/ part = "log" /\ LogNext
     /\ UNCHANGED <<languageVars, modulesVars, monitorVars, projectVars, serverVars>>
  \/ part = "project" /\ ProjectNext
     /\ UNCHANGED <<languageVars, modulesVars, monitorVars, logVars, serverVars>>
  \/ part = "server" /\ ServerNext
     /\ UNCHANGED <<languageVars, modulesVars, monitorVars, logVars, projectVars>>

\* The machine runs in a loop of one thread: it is never left standing.
Spec == Init /\ [][Next]_vars /\ WF_vars(RunVm) /\ ServerFairness
=============================================================================
