------------------------------ MODULE MCExecd ------------------------------
(* Execd for TLC: two firewall commands with a timeout, and one without.   *)
EXTENDS Execd

Drop(ip)   == [cmd |-> "drop", user |-> "-", ip |-> ip]
Route(ip)  == [cmd |-> "route", user |-> "-", ip |-> ip]
Mail(ip)   == [cmd |-> "mail", user |-> "-", ip |-> ip]

MCRequests == {Drop("h1"), Route("h1"), Mail("h1")}
MCTimeout  == [c \in Commands |-> IF c = "mail" THEN 0 ELSE 1]
MCRepeated == <<2, 3>>
=============================================================================
