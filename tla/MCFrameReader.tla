--------------------------- MODULE MCFrameReader ---------------------------
(* Three requests: one without data, one whose data holds header bytes, and *)
(* one long enough to make the checksum exceed a byte twice over.           *)
EXTENDS FrameReader

MCPdus == { [cmd |-> 225, cmd_ex |-> 1, data |-> <<>>],
            [cmd |-> 226, cmd_ex |-> 3, data |-> <<126, 126>>],
            [cmd |-> 227, cmd_ex |-> 1, data |-> <<255, 126, 0>>] }

MCGaps == { <<>>, <<0, 255>> }
=============================================================================
