----------------------------- MODULE MCAttempts -----------------------------
(***************************************************************************)
(* Small instances of Attempts.                                            *)
(***************************************************************************)
EXTENDS Attempts

CONSTANTS m1, m2

OneId == {m1}
TwoIds == {m1, m2}
NoOffers == {}
PiSlots == {"Pi"}
OnceSlots == {"OnceWaiter"}
HookSlots == {"Hook"}
OneShotSlots == {"OnceWaiter", "Hook"}
=============================================================================
