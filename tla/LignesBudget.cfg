CONSTANTS
  Comptes = {a}
  Porteurs = {a}
  Produit = p
  Devises = {xof, eur}
  Pivot = xof
  Mois = {2}
  Jours = {3}
  MontantsSaisis = {100}
  Encours = {180}
  Taux = {2}
  RangsMax = 2
  LignesMax = 2
SPECIFICATION Spec
INVARIANTS SaisieGardee ConversionSuivie EncoursCoherent
