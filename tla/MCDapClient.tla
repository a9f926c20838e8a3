----------------------------- MODULE MCDapClient -----------------------------
(* An instance of DapClient for TLC: two tasks, one of which may be dropped. *)
EXTENDS DapClient

CONSTANTS t1, t2, plain, unsliceable, silent, without

TwoTasks  == {t1, t2}
User      == [t \in TwoTasks |-> IF t = t1 THEN Jobs ELSE {"send_request"}]
OneTask   == {t2}
TwoBodies == {plain, unsliceable}

=============================================================================
