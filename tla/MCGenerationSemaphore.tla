------------------------ MODULE MCGenerationSemaphore ------------------------
\* The instance of GenerationSemaphore for TLC: its .cfg gives all the constants.
EXTENDS GenerationSemaphore

=============================================================================
