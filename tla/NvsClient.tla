------------------------------- MODULE NvsClient -------------------------------
(****************************************************************************)
(* The store of module Nvs beside what its documented interface (nvs.h)     *)
(* promises: shadow holds, for every namespace name, type and key, the set  *)
(* of answers a getter may give.  While a call runs, and when a reset cuts  *)
(* it off, the old answer, the new one and "not found" are all allowed.     *)
(****************************************************************************)
EXTENDS Nvs

VARIABLE shadow

None == {0, 9}
Slots == Names \X {T_U8, T_BLOB} \X Keys

(* The slots a call is about, and what it leaves there.                     *)
subject(c, s) ==
    \/ c.api = "set" /\ s = <<c.name, c.typ, c.key>>
    \/ c.api = "erase_key" /\ s[1] = c.name /\ s[3] = c.key
    \/ c.api = "erase_all" /\ s[1] = c.name
    \/ c.api = "flash_erase"
outcome(c, j) == IF c.api = "set" THEN j.hdr.val ELSE None

CallStarts == op = NoOp /\ op' # NoOp
CallSucceeds == op # NoOp /\ op' = NoOp /\ ret'.res = "OK"

Observe ==
    shadow' = [s \in Slots |->
        IF CallStarts /\ subject(op', s) THEN shadow[s] \cup {outcome(op', job'), None}
        ELSE IF CallSucceeds /\ subject(op, s) THEN {outcome(op, job)}
        ELSE shadow[s]]

ClientInit == Init /\ shadow = [s \in Slots |-> {None}]
ClientNext == Next /\ Observe
ClientSpec == ClientInit /\ [][ClientNext]_<<vars, shadow>>

answered == ret.call.api = "get"
asked == <<ret.call.name, ret.call.typ, ret.call.key>>

(* nvs.h on nvs_commit: after a setter and nvs_commit (which does nothing   *)
(* here) the value is in non-volatile storage.  A getter returns the value  *)
(* last stored, before and after a reset.                                   *)
CommittedIsStored ==
    answered => \A v \in Values :
        shadow[asked] = {v} => ret.res = "OK" /\ ret.val = {v}

(* nvs.h on nvs_open and nvs_erase_all: modules use their own namespaces to *)
(* keep their keys apart, and erase_all removes the keys of a namespace.    *)
(* A getter finds nothing where its namespace holds nothing.                *)
AbsentIsNotFound ==
    answered => (shadow[asked] = {None} => ret.res # "OK")
================================================================================
