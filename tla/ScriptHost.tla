----------------------------- MODULE ScriptHost -----------------------------
(***************************************************************************)
(* What LuaManager promises its callers, with everything the callers       *)
(* cannot see left out: one caller is served at a time, a script is loaded *)
(* at most once between two restarts of the host, and only a loaded script *)
(* can produce a result.                                                   *)
(***************************************************************************)

CONSTANTS
  Thread,   \* the application threads that call the manager
  File,     \* the asset paths they name
  NoThread, \* nobody is being served
  NoFile    \* the thread has no request pending

VARIABLES
  loaded,   \* the files whose script has run and is kept
  serving,  \* the thread being served
  pending,  \* pending[t]: the file thread t asks for
  answer    \* answer[t]: the reply to the current or the last request of t

hostVars == <<loaded, serving, pending, answer>>

Answers == {"none", "null", "exception", "result"}

HostTypeOK ==
  /\ loaded \in SUBSET File
  /\ serving \in Thread \union {NoThread}
  /\ pending \in [Thread -> File \union {NoFile}]
  /\ answer \in [Thread -> Answers]

HostInit ==
  /\ loaded = {}
  /\ serving = NoThread
  /\ pending = [t \in Thread |-> NoFile]
  /\ answer = [t \in Thread |-> "none"]

(* A thread asks for file f to serve it. *)
Ask(t, f) ==
  /\ pending[t] = NoFile
  /\ pending' = [pending EXCEPT ![t] = f]
  /\ answer' = [answer EXCEPT ![t] = "none"]
  /\ UNCHANGED <<loaded, serving>>

Begin(t) ==
  /\ serving = NoThread
  /\ pending[t] # NoFile
  /\ serving' = t
  /\ UNCHANGED <<loaded, pending, answer>>

(* The script of the requested file is run for the first time, and kept. *)
Load(t) ==
  /\ serving = t
  /\ pending[t] \notin loaded
  /\ loaded' = loaded \union {pending[t]}
  /\ UNCHANGED <<serving, pending, answer>>

(* A reply is settled once per request; a result needs a loaded script. *)
Reply(t, a) ==
  /\ serving = t
  /\ answer[t] = "none"
  /\ a = "result" => pending[t] \in loaded
  /\ answer' = [answer EXCEPT ![t] = a]
  /\ UNCHANGED <<loaded, serving, pending>>

Done(t) ==
  /\ serving = t
  /\ answer[t] # "none"
  /\ serving' = NoThread
  /\ pending' = [pending EXCEPT ![t] = NoFile]
  /\ UNCHANGED <<loaded, answer>>

(* The request ends with an exception thrown to its caller. *)
Abort(t) ==
  /\ serving = t
  /\ answer[t] = "none"
  /\ serving' = NoThread
  /\ pending' = [pending EXCEPT ![t] = NoFile]
  /\ answer' = [answer EXCEPT ![t] = "exception"]
  /\ UNCHANGED loaded

(* The host is thrown away and a new one built: nothing is loaded in it. *)
Restart ==
  /\ \A t \in Thread : pending[t] = NoFile
  /\ loaded' = {}
  /\ UNCHANGED <<serving, pending, answer>>

HostNext ==
  \/ \E t \in Thread, f \in File : Ask(t, f)
  \/ \E t \in Thread : Begin(t) \/ Load(t) \/ Done(t) \/ Abort(t)
  \/ \E t \in Thread, a \in {"null", "result"} : Reply(t, a)
  \/ Restart

HostSpec == HostInit /\ [][HostNext]_hostVars
=============================================================================
