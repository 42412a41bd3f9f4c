--------------------------------- MODULE MCAof ---------------------------------
(* Values for the runs of Aof.                                             *)
EXTENDS Aof

\* All policies; under "no" the exception for children makes no difference.
Policies == {c \in ConfType : c.fsync = "no" => ~ c.skip}
================================================================================
