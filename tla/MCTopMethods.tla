---------------------------- MODULE MCTopMethods ----------------------------
EXTENDS TopMethods

NoneOrG == {{}, {"g"}}
=============================================================================
