------------------------------ MODULE LuvLoader ------------------------------
(***************************************************************************)
(* loadluv.c: every VM of the process gets its luv from one shared object, *)
(* which is found by the first caller, opened once, and of which two       *)
(* symbols are kept.  Finding it may fail, and so may opening it and       *)
(* either symbol; the outcome is then the same for all, for ever.          *)
(***************************************************************************)
EXTENDS Naturals

CONSTANT VMs  \* the threads that load luv, each into a VM of its own

VARIABLES prepared, status,  \* of struct luv_loader
          handle,            \* of the shared object: "open" or "NULL"
          symbols,           \* the symbols that are set
          loading,           \* of pthread_once: "todo", "running", "done"
          at,                \* where each thread is
          answer             \* what luv_loader_prepare returned to it

loader     == <<prepared, status, handle, symbols, loading>>
loaderVars == <<loader, at, answer>>

LoaderInit ==
    /\ prepared = FALSE /\ status = "ok" /\ handle = "NULL" /\ symbols = {}
    /\ loading = "todo"
    /\ at = [t \in VMs |-> "start"]
    /\ answer = [t \in VMs |-> "none"]

Move(t, label) == at' = [at EXCEPT ![t] = label]

\* What find_luv_so may return: the package.cpath names a file, or it does not.
Finds == {"ok", "ENOENT"}

\* Under loader_lock; only the package.cpath of the first VM is looked through.
Prepare(t) ==
    /\ at[t] = "start"
    /\ prepared' = TRUE
    /\ status' \in IF prepared THEN {status} ELSE Finds
    /\ Move(t, "once")
    /\ UNCHANGED <<handle, symbols, loading, answer>>

LoadRuns(t) ==
    /\ at[t] = "once" /\ loading = "todo"
    /\ loading' = "running"
    /\ Move(t, IF status = "ok" THEN "dlopen" ELSE "loaded")
    /\ UNCHANGED <<prepared, status, handle, symbols, answer>>

Opens(t) ==
    /\ at[t] = "dlopen"
    /\ \/ handle' = "open" /\ status' = status /\ Move(t, "luaopen_luv")
       \/ handle' = "NULL" /\ status' = "ENOENT" /\ Move(t, "loaded")
    /\ UNCHANGED <<prepared, symbols, loading, answer>>

\* dlsym for the symbol that the label names.
Resolves(t, symbol, next) ==
    /\ at[t] = symbol
    /\ \/ symbols' = symbols \cup {symbol} /\ Move(t, next)
          /\ UNCHANGED <<status, handle>>
       \/ status' = "ENOSYS" /\ handle' = "NULL" /\ Move(t, "loaded")
          /\ UNCHANGED symbols
    /\ UNCHANGED <<prepared, loading, answer>>

LoadDone(t) ==
    /\ at[t] = "loaded"
    /\ loading' = "done"
    /\ Move(t, "once")
    /\ UNCHANGED <<prepared, status, handle, symbols, answer>>

\* Wrong: who finds the loader prepared takes its status as it is.
ReturnsEarly(t) ==
    /\ at[t] = "once" /\ loading \in {"running", "done"}
    /\ answer' = [answer EXCEPT ![t] = status]
    /\ Move(t, IF status = "ok" THEN "use" ELSE "failed")
    /\ UNCHANGED loader

Returns(t) ==
    /\ at[t] = "once" /\ loading = "done"
    /\ answer' = [answer EXCEPT ![t] = status]
    /\ Move(t, IF status = "ok" THEN "use" ELSE "failed")
    /\ UNCHANGED loader

\* service_load_luv calls luv_set_loop and luaopen_luv, which may raise an error
\* or return something else than a module.
Uses(t) ==
    /\ at[t] = "use"
    /\ Move(t, "ready") \/ Move(t, "failed")
    /\ UNCHANGED <<loader, answer>>

\* service_load_luv has logged the error and returns it: the service does not
\* start.
GivesUp(t) ==
    /\ at[t] = "failed"
    /\ Move(t, "gone")
    /\ UNCHANGED <<loader, answer>>

LoaderStep(t) ==
    \/ Prepare(t) \/ LoadRuns(t) \/ Opens(t)
    \/ Resolves(t, "luaopen_luv", "luv_set_loop")
    \/ Resolves(t, "luv_set_loop", "loaded")
    \/ LoadDone(t) \/ Returns(t) \/ Uses(t)

-----------------------------------------------------------------------------
(* Properties. *)

\* A thread that was told the loader is ready finds both symbols, and the object
\* they are from still open.
LoadedWhenUsed ==
    \A t \in VMs : at[t] \in {"use", "ready"} =>
        handle = "open" /\ symbols = {"luaopen_luv", "luv_set_loop"}

\* All threads get the same answer, whoever loads and whatever fails meanwhile.
SameAnswer ==
    \A t, u \in VMs :
        answer[t] # "none" /\ answer[u] # "none" => answer[t] = answer[u]

=============================================================================
