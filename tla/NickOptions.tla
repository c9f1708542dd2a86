------------------------------ MODULE NickOptions ------------------------------
(***************************************************************************)
(* NickServ's SET, ACCESS and INFO (src/nickserv.c): the options and the   *)
(* access list of a group, who may change them, and what INFO shows of     *)
(* them to whom.  A nick stands for its group.                             *)
(***************************************************************************)
EXTENDS Naturals, Sequences, SequencesExt, FiniteSets

CONSTANTS
    NkCore,         \* groups
    NkAdmin,        \* those of Services admins
    NkRoot,         \* those of Services roots, who are admins too
    NkStranger,     \* a user whose nick is not registered
    NkMask,         \* masks for the access list
    NkFold(_),      \* a mask without regard to case
    NkFlags,        \* the flags that SET sets with ON and OFF
    NkDefFlags,     \* NSDefFlags
    NSAccessMax,
    NSForceEmail, NkSecureAdmins, UsePrivmsg    \* NSSecureAdmins

ASSUME NkAccessLimit == NSAccessMax \in Nat
ASSUME NkRanks == NkRoot \subseteq NkAdmin /\ NkAdmin \subseteq NkCore /\ NkStranger \notin NkCore
ASSUME NkFlagsAreOthers == NkFlags \cap {"KILLPROTECT", "KILL_QUICK", "KILL_IMMED"} = {}
\* "Both NSDefKill and NSDefKillQuick must be specified for Quick to take
\* effect" (example.conf); IMMED cannot be a default.
ASSUME NkDefaults ==
    /\ "KILL_QUICK" \in NkDefFlags => "KILLPROTECT" \in NkDefFlags
    /\ "KILL_IMMED" \notin NkDefFlags
    /\ NkDefFlags \subseteq {"KILLPROTECT", "KILL_QUICK"} \cup NkFlags

VARIABLES
    nkFlags,        \* nc->flags
    nkAccess,       \* nc->access
    nkEmail,        \* nc->email is there
    nkPass,         \* who set nc->pass
    nkIdentified,   \* the users who have identified, by group
    nkAllowImmed,   \* NSAllowKillImmed, which the configuration may change
    nkReadonly,
    nkShown         \* the last answer of INFO: to whom, of whom, what

nkVars == <<nkFlags, nkAccess, nkEmail, nkPass, nkIdentified, nkAllowImmed, nkReadonly, nkShown>>

NkKill == {"KILLPROTECT", "KILL_QUICK", "KILL_IMMED"}
NkHidden == {"EMAIL", "MASK", "QUIT"}
NkHides(x) == CASE x = "EMAIL" -> "HIDE_EMAIL" [] x = "MASK" -> "HIDE_MASK" [] OTHER -> "HIDE_QUIT"
NkNothing == [to |-> NkStranger, of |-> NkStranger, what |-> {}]

NickOptionsTypeOK ==
    /\ nkFlags \in [NkCore -> SUBSET (NkKill \cup NkFlags)]
    /\ nkAccess \in [NkCore -> Seq(NkMask)]
    /\ nkEmail \in [NkCore -> BOOLEAN] /\ nkPass \in [NkCore -> NkCore]
    /\ nkIdentified \subseteq NkCore
    /\ nkAllowImmed \in BOOLEAN /\ nkReadonly \in BOOLEAN
    /\ \/ nkShown = NkNothing
       \/ nkShown \in [to : NkCore \cup {NkStranger}, of : NkCore, what : SUBSET NkHidden]

NickOptionsInit ==
    /\ nkFlags = [c \in NkCore |-> NkDefFlags] /\ nkAccess = [c \in NkCore |-> << >>]
    /\ nkEmail = [c \in NkCore |-> TRUE] /\ nkPass = [c \in NkCore |-> c]
    /\ nkIdentified = {} /\ nkAllowImmed = TRUE /\ nkReadonly = FALSE
    /\ nkShown = NkNothing

NkAdminNow(u) == u \in NkAdmin \cap nkIdentified
NkForgets == nkShown' = NkNothing

-----------------------------------------------------------------------------
(* SET.                                                                    *)

\* do_set(): an admin may name another nick, everybody else has identified.
MaySet(u, c) ==
    /\ ~nkReadonly
    /\ u = c \/ NkAdminNow(u)
    /\ NkAdminNow(u) \/ u \in nkIdentified

\* do_set_kill(): the flags there are afterwards.
SetKill(c, param) ==
    CASE param = "ON"    -> (nkFlags[c] \cup {"KILLPROTECT"}) \ {"KILL_QUICK", "KILL_IMMED"}
      [] param = "QUICK" -> (nkFlags[c] \cup {"KILLPROTECT", "KILL_QUICK"}) \ {"KILL_IMMED"}
      [] param = "IMMED" -> IF nkAllowImmed
                            THEN (nkFlags[c] \cup {"KILLPROTECT", "KILL_IMMED"}) \ {"KILL_QUICK"}
                            ELSE nkFlags[c]
      [] param = "OFF"   -> nkFlags[c] \ NkKill

DoSetKill(u, c) ==
    /\ MaySet(u, c)
    /\ \E param \in {"ON", "QUICK", "IMMED", "OFF"} :
          nkFlags' = [nkFlags EXCEPT ![c] = SetKill(c, param)]
    /\ NkForgets
    /\ UNCHANGED <<nkAccess, nkEmail, nkPass, nkIdentified, nkAllowImmed, nkReadonly>>

\* do_set_secure(), _private(), _msg(), _hide(): MSG only with UsePrivmsg.
DoSetFlag(u, c, f) ==
    /\ MaySet(u, c) /\ (f = "MSG" => UsePrivmsg)
    /\ \E on \in BOOLEAN :
          nkFlags' = [nkFlags EXCEPT ![c] = IF on THEN @ \cup {f} ELSE @ \ {f}]
    /\ NkForgets
    /\ UNCHANGED <<nkAccess, nkEmail, nkPass, nkIdentified, nkAllowImmed, nkReadonly>>

\* do_set_email(): it cannot be taken away if everybody must have one.
DoSetEmail(u, c, given) ==
    /\ MaySet(u, c) /\ (given \/ ~NSForceEmail)
    /\ nkEmail' = [nkEmail EXCEPT ![c] = given]
    /\ NkForgets
    /\ UNCHANGED <<nkFlags, nkAccess, nkPass, nkIdentified, nkAllowImmed, nkReadonly>>

\* do_set_password().  The caller's nick is that of a group: an admin's.
DoSetPassword(u, c) ==
    /\ MaySet(u, c)
    /\ NkSecureAdmins /\ u # c /\ c \in NkAdmin => u \in NkRoot
    /\ nkPass' = [nkPass EXCEPT ![c] = u]
    /\ NkForgets
    /\ UNCHANGED <<nkFlags, nkAccess, nkEmail, nkIdentified, nkAllowImmed, nkReadonly>>

-----------------------------------------------------------------------------
(* ACCESS.                                                                 *)

\* do_access(): ADD compares with regard to case, DEL without.
AccessAdd(c, mask) ==
    /\ c \in nkIdentified
    /\ Len(nkAccess[c]) < NSAccessMax /\ ~Contains(nkAccess[c], mask)
    /\ nkAccess' = [nkAccess EXCEPT ![c] = Append(@, mask)]
    /\ NkForgets
    /\ UNCHANGED <<nkFlags, nkEmail, nkPass, nkIdentified, nkAllowImmed, nkReadonly>>

AccessDel(c, mask) ==
    LET same == {i \in DOMAIN nkAccess[c] : NkFold(nkAccess[c][i]) = NkFold(mask)} IN
    /\ c \in nkIdentified /\ same # {}
    /\ nkAccess' = [nkAccess EXCEPT
          ![c] = RemoveAt(@, CHOOSE i \in same : \A j \in same : i <= j)]
    /\ NkForgets
    /\ UNCHANGED <<nkFlags, nkEmail, nkPass, nkIdentified, nkAllowImmed, nkReadonly>>

-----------------------------------------------------------------------------
(* INFO.                                                                   *)

\* Hidden things are shown with ALL, to who has identified for the group and
\* to admins who have a nick.
ShowHidden(u, c, all) ==
    all /\ ((u = c /\ u \in nkIdentified) \/ NkAdminNow(u))

\* do_info(): which of the things that can be hidden it shows.
DoInfo(u, c, all) ==
    /\ nkShown' = [to |-> u, of |-> c,
          what |-> {x \in NkHidden : /\ x = "EMAIL" => nkEmail[c]
                                     /\ ShowHidden(u, c, all) \/ NkHides(x) \notin nkFlags[c]}]
    /\ UNCHANGED <<nkFlags, nkAccess, nkEmail, nkPass, nkIdentified, nkAllowImmed, nkReadonly>>

-----------------------------------------------------------------------------
\* IDENTIFY, and leaving.
NkIdentify(c) ==
    /\ nkIdentified' = IF c \in nkIdentified THEN nkIdentified \ {c} ELSE nkIdentified \cup {c}
    /\ NkForgets
    /\ UNCHANGED <<nkFlags, nkAccess, nkEmail, nkPass, nkAllowImmed, nkReadonly>>

\* Loading the file drops IMMED where the configuration no longer allows it.
NkRestart(allow) ==
    /\ nkAllowImmed' = allow /\ nkIdentified' = {} /\ nkReadonly' = FALSE
    /\ nkFlags' = [c \in NkCore |-> IF allow THEN nkFlags[c] ELSE nkFlags[c] \ {"KILL_IMMED"}]
    /\ NkForgets
    /\ UNCHANGED <<nkAccess, nkEmail, nkPass>>

\* RELOAD reads the configuration and leaves the groups alone.
NkReload ==
    /\ nkAllowImmed' = ~nkAllowImmed /\ NkForgets
    /\ UNCHANGED <<nkFlags, nkAccess, nkEmail, nkPass, nkIdentified, nkReadonly>>

NkSetReadonly ==
    /\ nkReadonly' = ~nkReadonly /\ NkForgets
    /\ UNCHANGED <<nkFlags, nkAccess, nkEmail, nkPass, nkIdentified, nkAllowImmed>>

NickOptionsNext ==
    \/ \E u \in NkCore, c \in NkCore :
          \/ DoSetKill(u, c) \/ DoSetPassword(u, c)
          \/ \E f \in NkFlags : DoSetFlag(u, c, f)
          \/ \E given \in BOOLEAN : DoSetEmail(u, c, given)
    \/ \E c \in NkCore :
          \/ NkIdentify(c)
          \/ \E mask \in NkMask : AccessAdd(c, mask) \/ AccessDel(c, mask)
    \/ \E u \in NkCore \cup {NkStranger}, c \in NkCore, all \in BOOLEAN : DoInfo(u, c, all)
    \/ \E allow \in BOOLEAN : NkRestart(allow)
    \/ NkReload \/ NkSetReadonly

NickOptionsSpec == NickOptionsInit /\ [][NickOptionsNext]_nkVars
-----------------------------------------------------------------------------
(* Safety.                                                                 *)

\* Whatever has been set, loaded and reloaded, the protection of a group is one
\* of OFF, ON, QUICK and IMMED: validate_user() never meets two of them.
KillSettingSound ==
    \A c \in NkCore : nkFlags[c] \cap NkKill \in
        {{}, {"KILLPROTECT"}, {"KILLPROTECT", "KILL_QUICK"}, {"KILLPROTECT", "KILL_IMMED"}}

\* No mask is on an access list twice, and none is over the limit.
NickAccessSound ==
    \A c \in NkCore : IsInjective(nkAccess[c]) /\ Len(nkAccess[c]) <= NSAccessMax

\* What a group has hidden INFO tells only its owner and admins who have
\* identified.
HiddenFromOthers ==
    nkShown # NkNothing =>
        \A x \in nkShown.what :
            \/ NkHides(x) \notin nkFlags[nkShown.of]
            \/ nkShown.to \in nkIdentified /\ nkShown.to \in NkAdmin \cup {nkShown.of}

\* With NSSecureAdmins the password of an admin is his own or a root's choice.
AdminPasswordsOwn ==
    NkSecureAdmins => \A c \in NkAdmin : nkPass[c] \in {c} \cup NkRoot
================================================================================
