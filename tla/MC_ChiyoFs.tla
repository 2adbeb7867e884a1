----------------------------- MODULE MC_ChiyoFs -----------------------------
(* Small instances of ChiyoFs for TLC. *)
EXTENDS ChiyoFs, TLC

CONSTANTS t1, t2, v1, channels, contacts

Put(d, n) == [kind |-> "set", dir |-> d, name |-> n, value |-> v1]
Ask(k, d, n) == [kind |-> k, dir |-> d, name |-> n, value |-> NoValue]

\* One directory is written past its capacity, read and listed, a file of the
\* other one is written and deleted.
BothDirectories == {Put(channels, n) : n \in Name}
                   \cup {Ask("get", channels, 1), Ask("list", channels, NoName)}
                   \cup {Put(contacts, 2), Ask("delete", contacts, 2)}

\* One directory is written and listed.
WriteAndList == {Put(channels, n) : n \in Name} \cup {Ask("list", channels, NoName)}
=============================================================================
