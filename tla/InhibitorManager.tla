--------------------------- MODULE InhibitorManager ---------------------------
(***************************************************************************)
(* InhibitorManager: the inhibitors by cookie, and what an IDLE inhibitor  *)
(* does to Presence.  Inhibitors come over D-Bus, with any flags, and from *)
(* SessionManager for clients, named after their start-up id.              *)
(***************************************************************************)
EXTENDS Presence

CONSTANTS
  Cookie,     \* what generate_cookie returns; numbers, for their order in the map
  StartupId,  \* start-up ids of clients
  Anonymous   \* no start-up id

ASSUME CookieAssumption ==
  /\ Cookie \subseteq Nat \ {0}
  /\ Anonymous \notin StartupId

VARIABLE inhibitors  \* inhibitors_: flags and start-up id of each cookie

vars == <<inhibitors, presenceVars, alarmVars>>

\* The members of KSMInhibitorFlag that the daemon looks at.
Flag == {"QUIT", "IDLE"}

Inhibitor == [flags : SUBSET Flag, startupId : StartupId \cup {Anonymous}]

TypeOK ==
  /\ PresenceTypeOK
  /\ DOMAIN inhibitors \subseteq Cookie
  /\ inhibitors \in [DOMAIN inhibitors -> Inhibitor]

Init ==
  /\ PresenceInit
  /\ inhibitors = <<>>

\* Fault: the inhibitor has those flags and no others.
HasInhibitorExactly(inh, flags) == \E k \in DOMAIN inh : flags = inh[k].flags

\* has_inhibitor: one inhibitor has all of the flags.
HasInhibitor(inh, flags) == \E k \in DOMAIN inh : flags \subseteq inh[k].flags

\* The inhibitors change to inh, with update_presence.  Removing several of them
\* one by one enables the timeout once, with the last that has the IDLE flag.
UpdatePresence(inh) ==
  /\ inhibitors' = inh
  /\ EnableIdleTimeout(~HasInhibitor(inh, {"IDLE"}))
  /\ UNCHANGED <<idleCounter, idle, running, idleTimeout, status>>

\* add_inhibitor, which fails after ten cookies that are in use.
AddInhibitor(flags, id) ==
  \/ \E k \in Cookie \ DOMAIN inhibitors :
       UpdatePresence([c \in DOMAIN inhibitors \cup {k} |->
                         IF c = k THEN [flags |-> flags, startupId |-> id]
                                  ELSE inhibitors[c]])
  \/ /\ DOMAIN inhibitors # {}
     /\ UNCHANGED vars

DeleteInhibitors(ks) ==
  /\ ks # {}
  /\ UpdatePresence(Restrict(inhibitors, DOMAIN inhibitors \ ks))

\* Inhibit and Uninhibit of SessionManager; an unknown cookie is an error.
Inhibit(flags) == running /\ AddInhibitor(flags, Anonymous)
Uninhibit(k)   == k \in DOMAIN inhibitors /\ DeleteInhibitors({k})

\* SessionManager for a client that interacts or does not answer, and when the
\* client has finished (delete_inhibitor_by_startup_id) or the end of the session
\* is cancelled (delete_inhibitors_with_startup_id).
InhibitForClient(id) == running /\ AddInhibitor({"QUIT"}, id)
ClientFinished(id)   ==
  DeleteInhibitors({k \in DOMAIN inhibitors : inhibitors[k].startupId = id})
CancelEndSession     ==
  DeleteInhibitors({k \in DOMAIN inhibitors : inhibitors[k].startupId # Anonymous})

Next ==
  \/ PresenceNext /\ UNCHANGED inhibitors
  \/ \E flags \in SUBSET Flag : Inhibit(flags)
  \/ \E k \in Cookie : Uninhibit(k)
  \/ \E id \in StartupId : InhibitForClient(id) \/ ClientFinished(id)
  \/ CancelEndSession

Spec == Init /\ [][Next]_vars

\* GetInhibitors: the entries of the JSON array, by index, once the inhibitors
\* have been written in the order of their cookies.  The index is never advanced.
GetInhibitors ==
  [i \in IF DOMAIN inhibitors = {} THEN {} ELSE {0} |->
     CHOOSE k \in DOMAIN inhibitors : \A c \in DOMAIN inhibitors : c <= k]

-----------------------------------------------------------------------------
(* Safety.                                                                 *)

\* The idle timeout is enabled exactly when no inhibitor has the IDLE flag, after
\* any order of Inhibit, Uninhibit and removals for clients (update_presence).
EnabledUnlessInhibited ==
  enabled <=> \A k \in DOMAIN inhibitors : "IDLE" \notin inhibitors[k].flags

\* The entry IDLE_TIMEOUT exists exactly when the timeout is enabled and not 0;
\* with a counter it has a server alarm of that timeout, and the server has no
\* alarm that is not in the list: none is leaked, none is lost (set, unset,
\* reset_all_xalarm).  A timeout that does not fit an int is another matter, until
\* the setting is changed again.
AlarmsFollowSettings ==
  /\ DOMAIN alarms = {xalarms[t].id : t \in DOMAIN xalarms} \ {None}
  /\ running /\ idleTimeout * Minute < IntLimit =>
       /\ "IDLE_TIMEOUT" \in DOMAIN xalarms <=> enabled /\ idleTimeout > 0
       /\ "IDLE_TIMEOUT" \in DOMAIN xalarms /\ idleCounter =>
            LET a == xalarms["IDLE_TIMEOUT"].id
            IN a \in DOMAIN alarms /\ alarms[a].wait = idleTimeout * Minute

\* While the user's idleness is watched, the daemon is never deaf: IDLE_TIMEOUT
\* is armed, or its event is on the way, or RESET is armed to arm it again, or
\* the event of RESET is on the way (on_event_filter_cb, register_xalarm_by_xsync).
NeverDeaf ==
  idleCounter /\ "IDLE_TIMEOUT" \in DOMAIN xalarms =>
    \E t \in DOMAIN xalarms :
      \/ xalarms[t].id \in InEvents
      \/ xalarms[t].id \in DOMAIN alarms /\ alarms[xalarms[t].id].active

(* Action properties.                                                      *)

ResetRegistered == "RESET" \in DOMAIN xalarms /\ xalarms["RESET"].id \in DOMAIN alarms

\* Presence turns to IDLE by itself only while the timeout is enabled and not 0:
\* an event sent before an IDLE inhibitor was taken, or before idle-delay was set
\* to 0, does nothing any more (unset, find_xalarm_by_id).
IdleOnlyWhenWatched ==
  [][events' # events /\ status # "IDLE" /\ status' = "IDLE"
       => enabled /\ idleTimeout > 0]_vars

\* There is a way back from IDLE: when the alarm turns the status to IDLE, RESET
\* is registered, and RESET is only given up by turning it to AVAILABLE
\* (on_event_filter_cb, reset_all_xalarm).
IdleHasWayBack ==
  [][/\ events' # events /\ status # "IDLE" /\ status' = "IDLE" => ResetRegistered'
     /\ ResetRegistered /\ ~ResetRegistered' => status' = "AVAILABLE"]_vars
=============================================================================
