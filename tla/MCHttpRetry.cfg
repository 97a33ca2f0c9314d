SPECIFICATION HttpSpec
CONSTANTS
  HttpThreads = {t1}
  Handles = {h1, h2}
  HttpPoolMax = 1
  Retries = 1
  BodyMax = 2
  HttpFaults = {"connect", "partial", "timeout", "fork"}
INVARIANT RetryGivesResponse
