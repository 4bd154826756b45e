SPECIFICATION SpecEquitable
CONSTANTS
  la = la
  ls = ls
  j1 = j1
  j2 = j2
  j3 = j3
  r1 = r1
  r2 = r2
  w1 = w1
  w2 = w2
  Lignes <- MCLignes
  Rejouables <- MCUneLigne
  Secretes <- MCSecretes
  Jobs <- MCDeuxJobs
  Requetes <- MCUneRequete
  Workers <- MCWorkers
  MaxEssais = 2
  MaxRelances = 1
  Incidents <- ToutesPannes
INVARIANTS
  IssueConnue
  EnvoyeSincere
  SansDoublon

PROPERTY Aboutit
CHECK_DEADLOCK FALSE
