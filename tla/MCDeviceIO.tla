----------------------------- MODULE MCDeviceIO -----------------------------
EXTENDS DeviceIO, TLC

\* Two sectors each way, a partial write, and one sector of either drive.
MCCalls == [drive : {"master"}, op : {"read", "write"}, whole : {3}, rest : {FALSE}]
           \cup [drive : {"master"}, op : {"write"}, whole : {0}, rest : {TRUE}]
           \cup [drive : {"master", "slave"}, op : {"read_block"}, whole : {1}, rest : {FALSE}]

Symmetry == Permutations(Threads)
=============================================================================
