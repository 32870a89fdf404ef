-------------------------- MODULE MCGroupMembership --------------------------
(* One user; application processes and Sidekiq threads.                    *)
EXTENDS GroupMembership, TLC

CONSTANTS w1, t1, t2
=============================================================================
