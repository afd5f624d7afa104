------------------------------ MODULE MCMouse ------------------------------
(* Two buttons, and room for two packets and an answer.                     *)
EXTENDS Mouse

CONSTANTS left, middle

MCButton == {left, middle}
=============================================================================
