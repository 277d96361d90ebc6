----------------------------- MODULE ContactFeed -----------------------------
(***************************************************************************)
(* What the service promises to a client that follows its signals: while   *)
(* the service is online the set of contacts the client knows never moves  *)
(* to anything but the set that is visible at that very moment.  Nothing   *)
(* is said about how several changes are packed into one announcement.     *)
(* Some contacts are exempt from the promise for a while; one becomes      *)
(* exempt silently, but stops being it only when the client is told.       *)
(***************************************************************************)
CONSTANT Contact

VARIABLES visible,  \* the contacts the service shows
          known,    \* the contacts the client has learned of
          exempt,   \* the contacts of which nothing is promised at present
          online    \* the client may trust what it has learned

feedVars == <<visible, known, exempt, online>>

TypeOK == /\ visible \in SUBSET Contact
          /\ known \in SUBSET Contact
          /\ exempt \in SUBSET Contact

Init == /\ visible = {}
        /\ known = {}
        /\ exempt = {}
        /\ online = FALSE

\* The client knows what is visible, as far as it has been promised to.
UpToDate == known \ exempt = visible \ exempt

\* Contacts come and go or become exempt; the client is not told yet.
Change == /\ TypeOK'
          /\ exempt \subseteq exempt'
          /\ UNCHANGED <<known, online>>

\* The client is told: it catches up with everything at once.
Publish == /\ online
           /\ TypeOK'
           /\ UpToDate'
           /\ UNCHANGED online

Connect == /\ ~online
           /\ online' = TRUE
           /\ TypeOK'
           /\ UpToDate'

Disconnect == /\ online' = FALSE
              /\ TypeOK'

Next == Change \/ Publish \/ Connect \/ Disconnect

Spec == Init /\ [][Next]_feedVars
=============================================================================
