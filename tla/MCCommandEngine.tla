-------------------------- MODULE MCCommandEngine ---------------------------
(* Instances of CommandEngine for TLC: users whose ids start with two      *)
(* different words, one key each, frames with the sizes the handlers tell  *)
(* apart, and clients that are on time or one unit late.                   *)
EXTENDS CommandEngine

CONSTANTS u1, u2, k1, k2, w1, w2

TwoIds == {u1, u2}
TwoKeys == {k1, k2}
MCWords == {w1, w2}
MCFirstWord == [id \in Ids \cup {Blank} |-> IF id = u1 THEN w1 ELSE w2]
KeyOf(id) == IF id = u2 THEN k2 ELSE k1

CONSTANT Times

FramesOf(users, targets, cmds, sizes) ==
    {[hdr |-> "ok", user |-> u, time |-> t, cmd |-> c, sz |-> s, word |-> MCFirstWord[g],
      target |-> g, key |-> KeyOf(g), named |-> TRUE, signer |-> k] :
        u \in users, t \in Times, c \in cmds, s \in sizes, g \in targets, k \in Keys}

Frames(cmds, sizes) == FramesOf(Ids, Ids, cmds, sizes)

(* Frames whose target and signer play no role.                            *)
Plain(cmds, sizes) ==
    {r \in Frames(cmds, sizes) : r.target = r.user /\ r.signer = KeyOf(r.user)}

(* Frames signed with the sender's key.                                    *)
Honest(cmds, sizes) == {r \in Frames(cmds, sizes) : r.signer = KeyOf(r.user)}

(* Frames with the all-0xFF id, as the user or as the target.              *)
BlankFrames ==
    {r \in FramesOf({Blank}, {Blank}, {"ADD_FIRST_USER"}, {64})
           \cup FramesOf({Blank}, Ids, {"HELLO", "SECURE_HELLO"}, {0})
           \cup FramesOf({Blank}, Ids \cup {Blank}, {"ADD_USER"}, {80})
           \cup FramesOf(Ids, {Blank}, {"ADD_USER"}, {80})
           \cup FramesOf(Ids, {Blank}, {"USER_BLOCK"}, {16}) : r.signer = KeyOf(r.user)}

Malformed ==
    {[r EXCEPT !.hdr = h] : r \in Plain({"HELLO"}, {0}), h \in {"ver", "serial"}}
    \cup {[r EXCEPT !.named = FALSE] : r \in Plain({"ADD_FIRST_USER"}, {64})}
    \cup {[r EXCEPT !.named = FALSE] : r \in Plain({"ADD_USER"}, {80})}
    \cup Plain({"HELLO"}, {152})

(* What decides who may do what: users, nonces and blocking.               *)
UserRequests ==
    Plain({"HELLO", "UNKNOWN"}, {0})
    \cup Plain({"ADD_FIRST_USER"}, {0, 64})
    \cup {r \in Frames({"SECURE_HELLO"}, {0}) : r.target = r.user}
    \cup Frames({"ADD_USER", "PROXY_ADD_USER"}, {80})
    \cup Frames({"USER_BLOCK"}, {16})
    \cup Plain({"PRESS"}, {2, 6})
    \cup Plain({"GET_USER_INFO"}, {1, 5})
    \cup Plain({"RESET_REASON", "UNKNOWN_SECURE"}, {4})
    \cup Plain({"ADD_USER", "USER_BLOCK"}, {24})
    \cup Malformed
    \cup BlankFrames

(* What changes the settings kept in RAM, in flash and in the BLE module.  *)
SettingsRequests ==
    Plain({"HELLO"}, {0})
    \cup Plain({"ADD_FIRST_USER"}, {64})
    \cup Honest({"ADD_USER"}, {80})
    \cup Honest({"CHANGE_PASSKEY"}, {4})
    \cup Honest({"CHANGE_NAME"}, {20})
    \cup Plain({"CHANGE_PASSKEY"}, {5}) \cup Plain({"CHANGE_NAME"}, {21})
    \cup Honest({"FACTORY_RESET"}, {4})
    \cup Plain({"SYNC_TIME"}, {4})
    \cup {r \in BlankFrames : r.cmd = "ADD_FIRST_USER"}
=============================================================================
