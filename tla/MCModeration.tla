---------------------------- MODULE MCModeration ----------------------------
(* Instances of Moderation for TLC: one peer to ban, one moderator, one user. *)
(* The handler alone, with crashes; with the cleaner; with all the others.    *)
EXTENDS Moderation

CONSTANT u1

MCScenes ==
    {[active |-> {RateSaver}, signed |-> 3, bans |-> {0}, certs |-> {0}, crashes |-> 1],
     [active |-> {RateSaver, Cleaner}, signed |-> 2, bans |-> {1}, certs |-> {1}, crashes |-> 0],
     [active |-> {RateSaver, Cleaner, u1}, signed |-> 2, bans |-> {1}, certs |-> {1}, crashes |-> 0]}
=============================================================================
