-------------------------------- MODULE MCLogin --------------------------------
(* Login on a small instance: three attempts on one account from one address,*)
(* at most two at the same time, and one captcha.                            *)
EXTENDS Login, TLC

CONSTANTS a1, a2, a3, u1, c1

ThreeAttempts == {a1, a2, a3}
OneAccount == {u1}
OneCaptcha == {c1}
NameSymmetry == Permutations(ThreeAttempts)
==============================================================================
