------------------------------ MODULE MCTickets ------------------------------
EXTENDS AskTicket, TLC

CONSTANTS t1, t2
=============================================================================
