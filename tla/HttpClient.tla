----------------------------- MODULE HttpClient -----------------------------
(***************************************************************************)
(* The reports of errors (network.cpp): PostScriptError, from panic_reload *)
(* for a script that AIManager has started, and ErrorPost, from exep, the  *)
(* program's exception filter, once the user agrees.  Each posts a form    *)
(* and reads the answer through WinHTTP, whose calls may each fail.        *)
(*                                                                         *)
(* The form and its texts are left out.  The answer is its status, whether *)
(* that is 2xx, and the bytes that come, in pieces.                        *)
(***************************************************************************)
EXTENDS Integers, FiniteSets

CONSTANTS
  MaxData   \* bound: the bytes of an answer

VARIABLES
  pc,        \* where the program is
  caller,    \* who posts
  handles,   \* the WinHTTP handles that are open
  strings,   \* the strings of the proxy's configuration not yet freed
  code,      \* what *code is, or that code points to no memory
  data,      \* the bytes read
  coming,    \* the bytes of the answer still to come
  asked,     \* exep's flag: 0 at first, 1 to send, -1 not to
  corrected  \* exep's ftol: a floating-point exception was corrected

vars == <<pc, caller, handles, strings, code, data, coming, asked, corrected>>
exep == <<asked, corrected>>
answer == <<data, coming>>
request == <<caller, handles, code, answer>>

Strings == {"lpszProxy", "lpszProxyBypass", "lpszAutoConfigUrl"}
NoCaller == "none"
At(step) == pc = step

NoRequest ==
  /\ caller = NoCaller /\ handles = {} /\ code = "unset"
  /\ data = 0 /\ coming = 0

Init == pc = "run" /\ NoRequest /\ strings = {} /\ asked = 0 /\ corrected = FALSE

-----------------------------------------------------------------------------
\* Fault: the bypass list is forgotten.
MutFreed(got) == got \ {"lpszProxyBypass"}

\* The strings of the configuration that CreateSession frees.
Freed(got) == got

\* What *code may be after WinHttpQueryHeaders, which is given &code: when it
\* succeeds the status has replaced the pointer; when it fails *code is still
\* the caller's variable, that nobody has set.
Queried == {"unset", "no memory"}

\* SimplePost with a code that is not initialised.
post(who) ==
  /\ pc' = "CreateSession" /\ caller' = who
  /\ UNCHANGED <<handles, strings, code, answer, exep>>

\* HttpRequest returns, and the last pointers to the handles go.  What post
\* makes of the result is used by neither caller: panic_reload waits for ENTER,
\* and the filter's end is the program's.
Returns ==
  /\ pc' = IF caller = "panic_reload" THEN "wait" ELSE "ended"
  /\ caller' = NoCaller /\ handles' = {} /\ code' = "unset"
  /\ data' = 0 /\ coming' = 0
  /\ UNCHANGED <<strings, exep>>

\* The next step of the request, or, when its call fails, the end.
Opens(step, handle, next) ==
  /\ At(step)
  /\ \/ /\ pc' = next /\ handles' = handles \cup {handle}
        /\ UNCHANGED <<caller, strings, code, answer, exep>>
     \/ Returns

\* CreateSession: WinHttpGetIEProxyConfigForCurrentUser allocates the strings
\* that the user has set.
GetProxy ==
  /\ At("CreateSession")
  /\ \/ /\ pc' = "OpenSession"
        /\ \E got \in SUBSET Strings : strings' = strings \cup (got \ Freed(got))
        /\ UNCHANGED <<request, exep>>
     \/ Returns

\* The headers, WinHttpSendRequest and WinHttpReceiveResponse.
Send ==
  /\ At("Send")
  /\ \/ /\ pc' = "QueryHeaders" /\ coming' \in 0 .. MaxData
        /\ UNCHANGED <<caller, handles, strings, code, data, exep>>
     \/ Returns

QueryHeaders ==
  /\ At("QueryHeaders")
  /\ pc' = "*code" /\ code' \in Queried
  /\ UNCHANGED <<caller, handles, strings, answer, exep>>

\* *code / 100 != 2; what was never set may pass for a 2xx.
CheckCode ==
  /\ At("*code")
  /\ \/ code = "no memory" /\ pc' = "exception" /\ UNCHANGED <<request, strings, exep>>
     \/ code = "unset" /\ Returns
     \/ code = "unset" /\ pc' = "read" /\ UNCHANGED <<request, strings, exep>>

\* HttpRequest's loop.  GetResponseHeaderSelect takes the answer that its buffer
\* is too small, which WinHttpQueryHeaders gives as ERROR_INSUFFICIENT_BUFFER,
\* for a failure: the length is never known, the loop for a known one never
\* runs, and this one ends when a call fails.
ReadData ==
  /\ At("read")
  /\ \/ /\ \E size \in 1 .. coming : data' = data + size /\ coming' = coming - size
        /\ UNCHANGED <<pc, caller, handles, strings, code, exep>>
     \/ Returns

-----------------------------------------------------------------------------
\* An error of the script: panic_reload reports it when AIManager has given its
\* signature.  Then ENTER, and the script is reloaded.
panic_reload ==
  /\ At("run")
  /\ \/ post("panic_reload")
     \/ pc' = "wait" /\ UNCHANGED <<request, strings, exep>>

Enter == At("wait") /\ pc' = "run" /\ UNCHANGED <<request, strings, exep>>

\* exep corrects the first floating-point exception.
Correct ==
  /\ At("run") /\ ~corrected /\ corrected' = TRUE
  /\ UNCHANGED <<pc, request, strings, asked>>

\* Any other exception; one of the report itself ends the program at once.
Raise ==
  /\ At("run") /\ pc' = "exception"
  /\ UNCHANGED <<request, strings, exep>>

Ask ==
  /\ At("exception") /\ caller # "exep"
  /\ asked' \in IF asked = 0 THEN {1, -1} ELSE {asked}
  /\ IF asked' = 1 THEN pc' = "CreateSession" /\ caller' = "exep"
     ELSE pc' = "ended" /\ UNCHANGED caller
  /\ UNCHANGED <<handles, strings, code, answer, corrected>>

Abort ==
  /\ At("exception") /\ caller = "exep" /\ pc' = "ended"
  /\ UNCHANGED <<request, strings, exep>>

Next ==
  \/ GetProxy
  \/ Opens("OpenSession", "session", "OpenConnect")
  \/ Opens("OpenConnect", "connection", "OpenRequest")
  \/ Opens("OpenRequest", "request", "Send")
  \/ Send \/ QueryHeaders \/ CheckCode \/ ReadData
  \/ panic_reload \/ Enter \/ Correct \/ Raise \/ Ask \/ Abort

Spec == Init /\ [][Next]_vars

-----------------------------------------------------------------------------
\* While the bot plays nothing of an earlier report is left open or allocated,
\* wherever it has failed (network.cpp:13-22, 76-109).
NothingLeft == At("run") => NoRequest /\ strings = {}
=============================================================================
