------------------------------- MODULE ChanTopics -------------------------------
(***************************************************************************)
(* The topic of one registered channel (src/chanserv.c, src/channels.c):   *)
(* the topic that is set, the one ChanServ recorded, and the two options   *)
(* that bring the recorded one back, KEEPTOPIC when services first see the *)
(* channel and GUARDT (topic lock) when somebody changes it.  Services     *)
(* keep their record of the channel, while the network's channel and its   *)
(* topic end when neither a user nor ChanServ is on it.                    *)
(***************************************************************************)
CONSTANTS
    CtTopics,       \* topics
    CtNone          \* no topic

VARIABLES
    ctTopic,        \* c->topic, or CtNone
    ctExists,       \* services have a Channel for it
    ctUsers,        \* somebody is on it
    ctStays,        \* ChanServ is on it
    ctNet,          \* the topic the network has
    ctLast,         \* ci->last_topic
    ctLock, ctKeep, \* CI_TOPICLOCK; CI_KEEPTOPIC, which no command changes
    ctReadonly      \* the option or OperServ's SET READONLY

ctVars == <<ctTopic, ctExists, ctUsers, ctStays, ctNet, ctLast, ctLock, ctKeep, ctReadonly>>
CtMaybe == CtTopics \cup {CtNone}

ChanTopicsTypeOK ==
    /\ {ctTopic, ctNet, ctLast} \subseteq CtMaybe
    /\ {ctExists, ctUsers, ctStays, ctLock, ctKeep, ctReadonly} \subseteq BOOLEAN

ChanTopicsInit ==
    /\ ctTopic = CtNone /\ ctNet = CtNone /\ ctLast = CtNone
    /\ ctExists = FALSE /\ ctUsers = FALSE /\ ctStays = FALSE
    /\ ctLock = FALSE /\ ctKeep \in BOOLEAN /\ ctReadonly = FALSE

\* The network has the channel.
CtOpen == ctUsers \/ ctStays
CtOptions == UNCHANGED <<ctLock, ctKeep, ctReadonly>>

\* record_topic().
RecordTopic(topic) == ctLast' = IF ctReadonly THEN ctLast ELSE topic

\* restore_topic() in chan_create(), when the name is first used.
RestoreTopic ==
    LET topic == IF ctKeep THEN ctLast ELSE CtNone IN
    /\ ~ctExists /\ ctExists' = TRUE /\ ctUsers' = TRUE /\ ctStays' = TRUE
    /\ ctTopic' = topic /\ ctNet' = topic
    /\ CtOptions /\ UNCHANGED ctLast

\* Somebody joins later, with join_user_update() alone; the last user leaves.
CtJoin ==
    /\ ctExists /\ ctUsers' = TRUE
    /\ CtOptions /\ UNCHANGED <<ctTopic, ctExists, ctStays, ctNet, ctLast>>
CtEmpties ==
    /\ ctUsers /\ ctUsers' = FALSE
    /\ ctNet' = IF ctStays THEN ctNet ELSE CtNone
    /\ CtOptions /\ UNCHANGED <<ctTopic, ctExists, ctStays, ctLast>>

\* cs_join() by JOIN; cs_part() by PART, and a kick of ChanServ.
CtCsJoin ==
    /\ ctExists /\ ctStays' = TRUE
    /\ CtOptions /\ UNCHANGED <<ctTopic, ctExists, ctUsers, ctNet, ctLast>>
CtCsPart ==
    /\ ctStays /\ ctStays' = FALSE
    /\ ctNet' = IF ctUsers THEN ctNet ELSE CtNone
    /\ CtOptions /\ UNCHANGED <<ctTopic, ctExists, ctUsers, ctLast>>

\* Services save and start again while no user is on the channel.
CtRestart ==
    /\ ~ctUsers /\ ~ctReadonly
    /\ ctExists' = FALSE /\ ctStays' = FALSE
    /\ ctTopic' = CtNone /\ ctNet' = CtNone
    /\ CtOptions /\ UNCHANGED <<ctUsers, ctLast>>

\* check_topiclock(): the recorded topic is set again.
CheckTopiclock(topic) == ctTopic' = ctLast /\ UNCHANGED ctLast

\* do_topic(): somebody sets the topic.
DoTopic(topic) ==
    /\ ctExists /\ CtOpen
    /\ IF ctLock THEN CheckTopiclock(topic) ELSE ctTopic' = topic /\ RecordTopic(topic)
    /\ ctNet' = IF ctLock THEN ctLast ELSE topic
    /\ CtOptions /\ UNCHANGED <<ctExists, ctUsers, ctStays>>

\* TOPIC of ChanServ, which asks neither whether services are readonly nor
\* whether somebody is there.
CsTopic(topic) ==
    /\ ctExists
    /\ ctTopic' = topic /\ ctLast' = topic
    /\ ctNet' = IF CtOpen THEN topic ELSE CtNone
    /\ CtOptions /\ UNCHANGED <<ctExists, ctUsers, ctStays>>

CtChannel == UNCHANGED <<ctTopic, ctExists, ctUsers, ctStays, ctNet, ctLast>>

\* GUARDT.
SetTopiclock(on) == ctLock' = on /\ CtChannel /\ UNCHANGED <<ctKeep, ctReadonly>>

CtReadonly == ctReadonly' = ~ctReadonly /\ CtChannel /\ UNCHANGED <<ctLock, ctKeep>>

ChanTopicsNext ==
    \/ RestoreTopic \/ CtJoin \/ CtEmpties \/ CtCsJoin \/ CtCsPart
    \/ CtRestart \/ CtReadonly
    \/ \E topic \in CtMaybe : DoTopic(topic) \/ CsTopic(topic)
    \/ \E on \in BOOLEAN : SetTopiclock(on)

ChanTopicsSpec == ChanTopicsInit /\ [][ChanTopicsNext]_ctVars
-----------------------------------------------------------------------------
(* Safety.                                                                 *)

\* What the recorded topic is good for: it is the one of services' record.
TopicRecorded == ctExists => ctTopic = ctLast

\* The network has the topic of services' record.
TopicOnNetwork == CtOpen => ctNet = ctTopic

\* While services may write, only a channel first seen without KEEPTOPIC has
\* a topic that is not the recorded one; only a channel that was opened again,
\* after ChanServ had left it, has another topic on the network; and only
\* ChanServ's TOPIC changes a locked topic to one that was not recorded before.
LockedTopicStays ==
    [][(ctExists /\ ctExists') =>
          /\ (TopicRecorded /\ ~ctReadonly) => TopicRecorded'
          /\ TopicOnNetwork => (TopicOnNetwork' \/ ~CtOpen)
          /\ (ctLock /\ ctTopic' # ctTopic) =>
                (ctTopic' = ctLast \/ \E topic \in CtMaybe : CsTopic(topic))]_ctVars
================================================================================
