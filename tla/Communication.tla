---------------------------- MODULE Communication ----------------------------
(***************************************************************************)
(* The communication capabilities (SMS, contacts, notifications, phone)    *)
(* and their bridges (core/android/bridge/telephony.py, notification.py).  *)
(*                                                                         *)
(* A store is a record; an operator named ...Effect is one call of the     *)
(* bridge and ...Undo is the capability's rollback given the data of the   *)
(* original result (None when there is none).  Fresh ids (uuid4) are the *)
(* names of the commands that create them.                                 *)
(***************************************************************************)
EXTENDS BridgeContract

CONSTANTS
    Messages,        \* ids of the messages in the inbox at the start
    Contacts,        \* ids of the contacts at the start
    Values,          \* a contact's name and number
    Notifications,   \* ids of the active notifications at the start
    Numbers          \* phone numbers

\* Created contacts get fresh ids; no entry and no data of a result is None.
ASSUME CommunicationAssumption ==
    /\ Contacts \cap Commands = {}
    /\ Values # {} /\ None \notin Values
    /\ None \notin [message : Messages]
    /\ None \notin [id : Contacts \cup Commands, pre_state : Values \cup {None}]
    /\ None \notin [pre_state : SUBSET Notifications]

-----------------------------------------------------------------------------
\* SMS.  A deleted message is moved to the bridge's store for rollback.
InitialSms == [inbox |-> Messages, deleted |-> {}]
SmsCalls == ({"send"} \X Numbers) \cup ({"delete"} \X Messages)
SmsRefuses(s, a, x) == a = "delete" /\ x \notin s.inbox

\* send only appends to the list of sent messages, which nothing reads.
SmsEffect(s, a, x) ==
    IF a = "delete" THEN [inbox |-> s.inbox \ {x}, deleted |-> s.deleted \cup {x}] ELSE s

SmsReversible(a) == a = "delete"
SmsData(s, a, x) == [message |-> x]

\* Mutant: the message stays in the store it is restored from.
SmsUndo_KeepsStore(s, a, x, data) ==
    IF a = "delete" /\ data # None THEN [s EXCEPT !.inbox = @ \cup {data.message}] ELSE s

SmsUndo(s, a, x, data) ==
    IF a = "delete" /\ data # None
    THEN [inbox |-> s.inbox \cup {data.message}, deleted |-> s.deleted \ {data.message}]
    ELSE s

-----------------------------------------------------------------------------
\* Contacts: a function of the ids to what is stored, None where nothing is.
ContactIds == Contacts \cup Commands
InitialContacts ==
    [i \in ContactIds |-> IF i \in Contacts THEN CHOOSE v \in Values : TRUE ELSE None]
ContactsCalls(c) ==
    ({"create"} \X [id : {c}, value : Values]) \cup ({"update"} \X [id : ContactIds, value : Values])
        \cup ({"delete"} \X [id : ContactIds, value : {None}])
ContactsRefuses(s, a, x) == a \in {"update", "delete"} /\ s[x.id] = None

\* The value of a deletion is None: all three write the entry.
ContactsEffect(s, a, x) == [s EXCEPT ![x.id] = x.value]

ContactsReversible(a) == a \in {"create", "update", "delete"}
ContactsData(s, a, x) == [id |-> x.id, pre_state |-> s[x.id]]

\* create removes what it created if it is still there; the others write
\* pre_state back, whatever has happened to the contact since.
ContactsUndo(s, a, x, data) ==
    CASE data = None  -> s
      [] data # None /\ a = "create" -> [s EXCEPT ![data.id] = None]
      [] data # None /\ a # "create" -> [s EXCEPT ![data.id] = data.pre_state]

-----------------------------------------------------------------------------
\* Notifications.  clear keeps its own snapshot and leaves the store of
\* dismissed notifications alone.
InitialNotifications == [active |-> Notifications, dismissed |-> {}]
ReplyCalls == {"reply"} \X Notifications
NotificationCalls == ({"dismiss"} \X Notifications) \cup {<<"clear", None>>} \cup ReplyCalls
NotificationRefuses(s, a, x) == a = "dismiss" /\ x \notin s.active

NotificationEffect(s, a, x) ==
    CASE a = "dismiss" -> [active |-> s.active \ {x}, dismissed |-> s.dismissed \cup {x}]
      [] a = "clear"   -> [s EXCEPT !.active = {}]
      [] OTHER         -> s

NotificationReversible(a) == a \in {"dismiss", "clear"}
NotificationData(s, a, x) == [pre_state |-> IF a = "clear" THEN s.active ELSE {x}]

\* restore_dismissed adds one; restore_all replaces the active ones by the
\* snapshot, unless that is empty.
NotificationUndo(s, a, x, data) ==
    CASE data # None /\ a = "dismiss" ->
            [active |-> s.active \cup data.pre_state, dismissed |-> s.dismissed \ data.pre_state]
      [] data # None /\ a = "clear" /\ data.pre_state # {} -> [s EXCEPT !.active = data.pre_state]
      [] OTHER -> s

-----------------------------------------------------------------------------
\* Phone calls: placed, ended or rejected in any state, none of them reversible.
InitialPhone == [status |-> "idle", number |-> None]
PhoneCalls == ({"call"} \X Numbers) \cup ({"end", "reject"} \X {None})
PhoneEffect(s, a, x) ==
    CASE a = "call"   -> [status |-> "active", number |-> x]
      [] a = "end"    -> [status |-> "ended", number |-> None]
      [] a = "reject" -> [status |-> "idle", number |-> None]

=============================================================================
